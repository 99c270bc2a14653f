SPECIFICATION Spec
CONSTANTS
    Tables = {t0, t1, t2, t3}
    Root = t0
    Null = null
    Names = {global, f}
    GlobalName = global
    ModValues <- MCInitialised
    Values = {v}
    MaxObjects = 4
CHECK_DEADLOCK FALSE
INVARIANT GetIsLexical
