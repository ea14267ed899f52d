SPECIFICATION FairSpec
CONSTANTS
    Tests <- OneFile
    Clusters <- OneFile
    ClusterOf <- OwnGroup
    QuarantineLimit = 1
    AgentIds = {1}
    Worktrees = {1}
    HasMetric = TRUE
    InventoryIsGate = TRUE
    MaxBreaks = 1
    MaxFaults = 1
    Root = Root
    None = None
INVARIANTS TypeOK
PROPERTIES OneOwnerIsKept RedSuiteTurnsGreen ClusterFixLands ProductWorkResumes
