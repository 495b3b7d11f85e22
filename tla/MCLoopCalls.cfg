SPECIFICATION FairCellSpec
CONSTANTS
    Kind = "tokens"
    Limit = 3
    Policy = "last"
    HigherBetter = TRUE
    Costs = {1, 2, 3}
    Values = {1}
    RetryWall = 1
    MaxRetries = 1
    PromptTokens = 1
    MaxPieces = 2
    MaxTokens = 2
    None = None
INVARIANTS
    ReplyIsOneRequest
    NoLeftovers
    ChainFollowsPolicy
PROPERTIES
    ImplementsLoop
    CellEnds
