SPECIFICATION FairSpec
CONSTANTS
    Servers = {s1, s2}
    Clients = {c1}
    ModelsOf <- OneOther
    Wanted = right
    ClientTimeout = 1
    IdleTimeout = 3
    StartsOverlap = TRUE
    ExitsOverlap = TRUE
    Kills = TRUE
    None = None
    s1 = s1
    s2 = s2
    s3 = s3
    c1 = c1
    c2 = c2
    right = right
    wrong = wrong
PROPERTIES
    AcceptedNotCutOff
    StartEnds
    ClientsReturn
