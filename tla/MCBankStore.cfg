SPECIFICATION Spec
CONSTANTS
    Builders = {b1, b2}
    Cells = {c1}
    Numbers = {n1, n2}
    None = None
    Cut = Cut
SYMMETRY MCAlike
INVARIANTS
    VectorsFitCases
    BankIsOneBuild
    ReadersSeeWhole
