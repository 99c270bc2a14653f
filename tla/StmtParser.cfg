SPECIFICATION ProgramSpec
CONSTANTS
    Inputs <- MCInputs
INVARIANTS
    ProgramTypeOK
    AcceptedProgramsAreWhole
    CrashIsReported
PROPERTIES
    ProgramsParse
    ParsingEnds
CHECK_DEADLOCK FALSE
