SPECIFICATION Spec
CONSTANTS
    Tables = {t0, t1, t2, t3}
    Root = t0
    Null = null
    Names = {global, f}
    GlobalName = global
    ModValues <- MCModValues
    Values = {v}
    MaxObjects = 5
CHECK_DEADLOCK FALSE
INVARIANTS TypeOK LinksLeadOut LoopsEnd LexicalWhileLinked AnswersAreDeclared
PROPERTIES LinksOnlyClimb GetKeepsGlobals GetIsRepeatable ImplementsScopes
