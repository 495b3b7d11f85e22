SPECIFICATION FairSpec
CONSTANTS
    MaxAttaches = 3
    MaxLines = 3
    MaxFaults = 2
    CloseFaults = {"gzip", "gzipping", "manifest", "unlink"}
    Kills = TRUE
    None = None
INVARIANTS
    SealedIsWhole
    NothingLost
PROPERTIES
    FinalStays
    RunIsSealed
