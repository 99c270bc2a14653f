SPECIFICATION CodegenSpec
CONSTANT
    Programs <- MCElifPrograms
    Trees <- MCElifTrees
INVARIANT
    ElifsAreConditional
CHECK_DEADLOCK FALSE
