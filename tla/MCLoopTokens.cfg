SPECIFICATION Spec
CONSTANTS
    Kind = "tokens"
    Limit = 4
    Policy = "best"
    HigherBetter = FALSE
    Costs = {1, 2}
    Values = {1, 2}
    RetryWall = 1
    None = None
INVARIANTS
    TypeOK
    OvershootBounded
    SpendIsLogged
    ChainFollowsPolicy
    PromptShowsLastCode
    FooterAgrees
    GradesOfficialBest
    SealedWhole
