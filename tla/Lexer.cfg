SPECIFICATION LexerSpec
CONSTANTS
    Texts <- MCTexts
    Letters <- MCLetters
    Digits <- MCDigits
    Types <- MCTypes
    Keywords <- MCKeywords
    MaxPeek <- MCMaxPeek
INVARIANTS
    LexerTypeOK
    PositionsAreTrue
PROPERTIES
    TokensAreLexemes
    BlanksAreSkipped
    PeeksAreKept
    EveryTextEnds
CHECK_DEADLOCK FALSE
