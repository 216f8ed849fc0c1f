SPECIFICATION Spec
CONSTANTS
    Algorithms <- AllAlgorithms
    TgoPrograms <- AllTgoPrograms
    InferCalls <- AllCalls
INVARIANTS
    InferredIsTheSolution
    RunsAsChecked
PROPERTIES
    LayoutIsExact
    FindsWhatIsSelected
\* An algorithm ends.
CHECK_DEADLOCK FALSE
