SPECIFICATION Spec
CONSTANT Algorithms = {"Printing", "Constant", "LineTable", "Imports", "Arguments"}
PROPERTIES
    FormattingKeeps
    ConstantsAreExact
    TablesAreTheirs
    ImportsAreSorted
    CallsAreInferred
\* A call returns once.
CHECK_DEADLOCK FALSE
