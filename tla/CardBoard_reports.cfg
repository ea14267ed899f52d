SPECIFICATION ResetSpec
CONSTANTS
    CardIds = {1,2,3}
    IntegrationCards = {1}
    TestCards = {2, 3}
    Worktrees = {1}
    AgentIds = {1}
    Kinds = {"completed", "review_passed", "blocked"}
    Updates <- StatusUpdates
    MinCount = 1
    MaxFaults = 0
    RootWorktree = FALSE
    Root = Root
    None = None
    Dead = Dead
    Waiting = Waiting
INVARIANTS BackfillMovesNothing AcceptedOnReport
PROPERTIES ReviewFollowsReport
