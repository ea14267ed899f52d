SPECIFICATION Spec
CONSTANTS
    Lanes = {1, 2}
    Resolvers = {}
    Worktrees = {1}
    AgentIds = {1}
    StatusOnly <- NoCards
    Repairs = {"merge"}
    StaleCopies = FALSE
    Settings <- CalmSettings
    Root = Root
    None = None
INVARIANTS MainlineIsReviewed
