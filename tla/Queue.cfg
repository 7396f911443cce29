SPECIFICATION FairSpec
CONSTANTS
    Producers = {p1, p2, p3}
    Consumers = {c1, c2}
    Cancelable = {p3, c1}
    Kinds = {"bounded", "dropping", "circular"}
    Capacities = {0, 1, 2}
CHECK_DEADLOCK FALSE
INVARIANTS
    NobodyWaitsInVain
    ListsAreExact
    ElementsAccounted
PROPERTIES
    ImplementsFIFO
    ChosenReturn
