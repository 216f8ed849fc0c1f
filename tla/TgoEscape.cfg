SPECIFICATION Spec
CONSTANTS
    Algorithms = {"TgoStmt"}
    TgoPrograms <- EscapePrograms
    InferCalls <- AllCalls
INVARIANT
    EndTagsReached
\* An algorithm ends.
CHECK_DEADLOCK FALSE
