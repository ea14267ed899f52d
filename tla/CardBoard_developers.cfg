SPECIFICATION ServiceSpec
CONSTANTS
    CardIds = {1,2}
    IntegrationCards = {1}
    TestCards = {}
    Worktrees = {1,2}
    AgentIds = {1,2}
    Kinds = {"completed", "superseded"}
    Updates <- DoneUpdate
    MinCount = 2
    MaxFaults = 0
    RootWorktree = FALSE
    Root = Root
    None = None
    Dead = Dead
    Waiting = Waiting
INVARIANTS TypeOK OneCardPerDeveloper
PROPERTIES CardedAreKept
