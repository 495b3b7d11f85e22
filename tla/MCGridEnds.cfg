SPECIFICATION FairSpec
CONSTANTS
    Drivers = {d1}
    Cells = {c1, c2}
    None = None
    MaxWorkers = 2
    MaxAttempts = 2
    Faults = {"crash", "raise", "signal", "exec"}
INVARIANT
    QueueSound
PROPERTY
    SweepEnds
