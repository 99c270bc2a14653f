SPECIFICATION DriverSpec
CONSTANTS
    Compilations = {c1, c2}
    MaxNodes = 3
    None = none
SYMMETRY MCSymmetry
INVARIANTS
    DriverTypeOK
    ErrorsReachNoFile
    RunsItsOwnProgram
CHECK_DEADLOCK FALSE
