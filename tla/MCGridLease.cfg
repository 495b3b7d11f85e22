SPECIFICATION Spec
CONSTANTS
    Drivers = {d1, d2}
    Cells = {c1}
    None = None
    MaxWorkers = 1
    MaxAttempts = 2
    Faults = {"signal", "exec"}
INVARIANTS
    TypeOK
    LiveCellClaimed
    NoCellLost
PROPERTIES
    NeverRerun
    ImplementsLease
