SPECIFICATION ServiceSpec
CONSTANTS
    CardIds = {1}
    IntegrationCards = {1}
    TestCards = {}
    Worktrees = {1}
    AgentIds = {1}
    Kinds = {"completed"}
    Updates = {}
    MinCount = 1
    MaxFaults = 1
    RootWorktree = FALSE
    Root = Root
    None = None
    Dead = Dead
    Waiting = Waiting
PROPERTIES RequeueFromDevelopment
