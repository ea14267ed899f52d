SPECIFICATION FairSpec
CONSTANTS
    Tests <- SuiteTests
    Clusters <- SuiteClusters
    ClusterOf <- SuiteClusterOf
    QuarantineLimit = 2
    EscalateAfter = 1
    MaxCrashes = 1
INVARIANTS QuarantineIsCurrent
PROPERTIES QuarantineStaysInClusters RedSuiteIsQueued FixedTestIsClosed RepeatedFailureIsEscalated
