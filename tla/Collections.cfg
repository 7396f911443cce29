SPECIFICATION SpecAll
CONSTANTS
    Keys = {1, 2, 3, 4, 5, 6, 7, 8}
    OtherKeys = {2, 4, 7}
    Inputs = 12
    Lengths = {0, 8, 11}
    MaxArray = 80
    MaxInsert = 5
    MaxSize = 22
    MaxPair = 6
    Width = 3
CHECK_DEADLOCK FALSE
INVARIANTS
    MapsStayValid
    MapsActAsDictionaries
    SeqsActAsSequences
