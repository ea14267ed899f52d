SPECIFICATION FairSpec
CONSTANTS
    Requesters = {"a", "b"}
    Titles = {"x", "y"}
    AgentIds = {1,2}
    Worktrees = {}
    Kinds = {"completed"}
    Updates <- DoneUpdates
    PassLimit = 5
    MaxRequests = 2
    MaxFaults = 1
    MaxCrashes = 1
    Root = Root
    None = None
    Dead = Dead
INVARIANTS TypeOK OneCardPerSpecialist OwnerIsTold
PROPERTIES AnswerIsFinal QueuedIsAnswered
