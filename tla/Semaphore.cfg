SPECIFICATION FairSpec
CONSTANTS
    Fibers = {f1, f2, f3, f4}
    Cancelable = {f3, f4}
    MaxPermits = 2
CHECK_DEADLOCK FALSE
INVARIANTS
    PermitsAccounted
    NoOvertaking
    QueueIsExact
    QueuedForAReason
PROPERTY
    WaitersServed
