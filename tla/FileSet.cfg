SPECIFICATION FairSpec
CONSTANTS
    Goroutine = {g1, g2}
    File = {f1, f2}
    Foreign = {}
    Concurrent = TRUE
    MaxInt <- MCMaxInt
    Size <- MCSize
    BaseArg <- MCBaseArg
    Pos <- MCPos
    NoFile = NoFile
    NoGoroutine = NoGoroutine
INVARIANTS
    TypeOK
    DistinctIntervals
    StableLookUp
    IterateInOrder
    IterateComplete
PROPERTY
    ImplementsAbs
    RemovesOnlyItsFile
    CallsReturn
