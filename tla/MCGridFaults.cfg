SPECIFICATION Spec
CONSTANTS
    Drivers = {d1, d2}
    Cells = {c1}
    None = None
    MaxWorkers = 1
    MaxAttempts = 1
    Faults = {"crash", "stall", "raise", "signal", "exec"}
SYMMETRY Symmetry
INVARIANT
    ClaimsAccounted
