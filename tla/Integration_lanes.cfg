SPECIFICATION FairSpec
CONSTANTS
    Lanes = {1, 2}
    Resolvers = {3, 4}
    Worktrees = {1, 2}
    AgentIds = {1, 2}
    StatusOnly <- SecondLane
    Repairs = {"merge", "rewrite"}
    StaleCopies = FALSE
    Settings <- LaneSettings
    Root = Root
    None = None
INVARIANTS TypeOK IntegratedIsOnMainline WorkIsReachable
PROPERTIES FailedLaneIsLeft ReadyLaneIsDecided ResolverIsReleased  KeepsPromise
