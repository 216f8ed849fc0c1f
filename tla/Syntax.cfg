SPECIFICATION SyntaxSpec
CONSTANTS
    Name <- MCName
    Void = "br"
    Lists <- MCLists
    Sources <- MCSources
INVARIANTS
    EachStmtOnce
    ErrorsAreExact
    SemicolonRule
    TopIsReady
PROPERTY
    Finishes
\* An algorithm ends.
CHECK_DEADLOCK FALSE
