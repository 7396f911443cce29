SPECIFICATION Spec
CONSTANTS
    Cancelers = {k1}
    Joiners = {j1}
    Conts = {c1}
    Nodes = {"OnCancel", "Canceled", "IOCont", "IOContGet", "Uncancelable", "UnmaskRunLoop"}
    MaxNodes = 6
    RepeatedCallbacks = TRUE
    PollInFinalizers = FALSE
    ThrowingBodies = FALSE
CHECK_DEADLOCK FALSE
PROPERTY FirstResultWins
