SPECIFICATION Spec
CONSTANTS
    Servers = {s1, s2, s3}
    Clients = {c1}
    ModelsOf <- OneOther
    Wanted = right
    ClientTimeout = 1
    IdleTimeout = 2
    StartsOverlap = FALSE
    ExitsOverlap = FALSE
    Kills = TRUE
    None = None
    s1 = s1
    s2 = s2
    s3 = s3
    c1 = c1
    c2 = c2
    right = right
    wrong = wrong
INVARIANTS
    LiveServerKept
    StartsSucceed
    WrongModelsNeedExit
