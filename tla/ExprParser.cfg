SPECIFICATION Spec
CONSTANTS
    Inputs <- MCInputs
INVARIANTS
    TypeOK
    AcceptedTreesAreRight
    AcceptedYield
PROPERTIES
    NestedExpressionsParse
    ParseEnds
CHECK_DEADLOCK FALSE
