SPECIFICATION Spec
CONSTANTS
    Algorithms = {"TgoStmt"}
    TgoPrograms <- LoopPrograms
    InferCalls <- AllCalls
INVARIANT
    LabelsEnclose
\* An algorithm ends.
CHECK_DEADLOCK FALSE
