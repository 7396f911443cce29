SPECIFICATION FairSpec
CONSTANTS
    Fibers = {f1, f2, f3}
    Interruptible = {f1}
    Deferreds = {d1, d2}
INVARIANTS
    ReadersAreParked
    NoReaderForgotten
PROPERTIES
    WrittenOnce
    GetReturns
