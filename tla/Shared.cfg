SPECIFICATION SharedSpec
CONSTANTS
    g1 = g1
    g2 = g2
    g3 = g3
    A = A
    B = B
    C = C
    f1 = f1
    f2 = f2
    foreign = foreign
    NoFile = NoFile
    NoGoroutine = NoGoroutine
    Goroutine <- Goroutines3
    MaxLeaked = 1
    Machines = {"AliasMode", "Named", "FileSet", "TypeSets"}
INVARIANTS
    CounterNamesMode
    ReadsAreReady
    MethodsAreCanonical
    SetsAreExact
PROPERTIES
    AnyMatchesMode
    CallsReturn
    ImplementsStrictAbs
\* A panic ends the program.
CHECK_DEADLOCK FALSE
