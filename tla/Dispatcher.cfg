SPECIFICATION FairSpec
CONSTANTS
    Calls = {c1, c2}
    Cancelable = {c1}
    Cpus = 1
CHECK_DEADLOCK FALSE
INVARIANTS
    StartsInOrder
    TokensExact
    NothingOutlives
    NoWakeUpLost
PROPERTY
    RegistrationsServed
