SPECIFICATION Spec
CONSTANTS
    Inputs <- MCElementInputs
INVARIANTS
    PrecedenceIsKept
CHECK_DEADLOCK FALSE
