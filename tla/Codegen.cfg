SPECIFICATION CodegenSpec
CONSTANT
    Programs <- MCPrograms
    Trees <- MCTrees
INVARIANTS
    CodegenTypeOK
    SoundProgramsDoWhatTheySay
    NothingElseIsSilent
PROPERTY
    SoundProgramsExit
CHECK_DEADLOCK FALSE
