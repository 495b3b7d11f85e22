SPECIFICATION Spec
CONSTANTS
    Drivers = {d1, d2, d3}
    Cells = {c1}
    None = None
    MaxWorkers = 1
    MaxAttempts = 1
    Faults = {"crash"}
SYMMETRY Symmetry
INVARIANT
    OneWinner
