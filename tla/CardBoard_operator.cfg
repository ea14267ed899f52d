SPECIFICATION FairSpec
CONSTANTS
    CardIds = {1}
    IntegrationCards = {1}
    TestCards = {}
    Worktrees = {1,2}
    AgentIds = {1,2}
    Kinds = {"completed", "superseded", "blocked"}
    Updates <- DoneUpdate
    MinCount = 2
    MaxFaults = 1
    RootWorktree = FALSE
    Root = Root
    None = None
    Dead = Dead
    Waiting = Waiting
INVARIANTS DevelopmentIsOwned OwnerRowExists TrailIsComplete
PROPERTIES KeepsLifecycle LostWorkReturns ReviewIsTaken
