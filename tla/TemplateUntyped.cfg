SPECIFICATION Spec
CONSTANT Algorithms = {"Templates"}
PROPERTY TemplatesAreTyped
\* A call returns once.
CHECK_DEADLOCK FALSE
