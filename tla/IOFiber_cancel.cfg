SPECIFICATION FairSpec
CONSTANTS
    Cancelers = {k1, k2}
    Joiners = {}
    Conts = {c1}
    Nodes = {"OnCancel", "Canceled", "IOCont", "IOContGet", "Uncancelable", "UnmaskRunLoop"}
    MaxNodes = 6
    RepeatedCallbacks = TRUE
    PollInFinalizers = FALSE
    ThrowingBodies = FALSE
CHECK_DEADLOCK FALSE
INVARIANTS
    MasksBalanced
    FinalizersMasked
    WaitingIsParked
    NothingImpossible
PROPERTIES
    EndsOnce
    CancelReturns
    ImplementsFairContract
