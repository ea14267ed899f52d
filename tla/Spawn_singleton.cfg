SPECIFICATION Spec
CONSTANTS
    Requesters = {"a"}
    Titles = {"x"}
    AgentIds = {1,2}
    Worktrees = {}
    Kinds = {"superseded"}
    Updates <- NoUpdates
    PassLimit = 5
    MaxRequests = 2
    MaxFaults = 1
    MaxCrashes = 0
    Root = Root
    None = None
    Dead = Dead
INVARIANTS SingletonRole
