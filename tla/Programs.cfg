SPECIFICATION Spec
CONSTANT Algorithms = {"Collect", "Typing", "Using", "ValidType", "Mono", "Parsing"}
PROPERTIES
    TreeIsInput
    RecoveryEnds
    NamesAreResolved
    ObjectsAreCollected
    TypesAreRecorded
    VariablesAreUsed
    CyclesAreFound
\* A call returns once.
CHECK_DEADLOCK FALSE
