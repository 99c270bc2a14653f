SPECIFICATION ProgramSpec
CONSTANTS
    Inputs <- MCOneLineInputs
INVARIANTS
    WhiteSpaceMeansNothing
CHECK_DEADLOCK FALSE
