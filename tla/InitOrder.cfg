SPECIFICATION FairSpec
CONSTANTS
    Programs <- MCPrograms
    NoDecl = 0
INVARIANTS
    DeclsAreTracked
    CyclesAreExact
    OrderIsGo
PROPERTY
    Finishes
\* The checker is done.
CHECK_DEADLOCK FALSE
