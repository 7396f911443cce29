SPECIFICATION FairSpec
CONSTANTS
    Senders = {s1, s2}
    Consumer = consumer
    MaxSends = 2
    Cancelable = {s2, consumer}
    Capacities = {0, 1}
CHECK_DEADLOCK FALSE
INVARIANTS
    InOrder
    NoVainWait
    SendersHeld
PROPERTY
    Drained
