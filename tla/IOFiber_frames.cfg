SPECIFICATION Spec
CONSTANTS
    Cancelers = {k1}
    Joiners = {j1}
    Conts = {c1}
    Nodes = {"Defer", "Map", "FlatMap", "Attempt", "HandleErrorWith", "OnCancel", "ExecuteOn",
             "Suspend", "IOCont", "IOContGet", "Uncancelable", "UnmaskRunLoop", "Canceled"}
    MaxNodes = 5
    RepeatedCallbacks = TRUE
    PollInFinalizers = FALSE
    ThrowingBodies = TRUE
CHECK_DEADLOCK FALSE
INVARIANTS
    TypeOK
    RunLoopOwnership
    FinalizersBalanced
    StackMatchesConts
    AnsweredWithOutcome
