SPECIFICATION Spec
CONSTANT Algorithms = {"Parsing"}
PROPERTY
    ResolverEnds
CHECK_DEADLOCK FALSE
