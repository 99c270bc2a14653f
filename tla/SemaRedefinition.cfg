SPECIFICATION Spec
CONSTANTS
    Programs <- MCPrograms
    Tables = {t0, t1, t2, t3}
    Root = t0
    Null = null
    Names = {"global", "x", "y", "f", "g", "h"}
    GlobalName = "global"
    ModValues <- MCModValues
    Values = {v}
    MaxObjects = 12
CHECK_DEADLOCK FALSE
INVARIANT NoVariableIsRedefined
