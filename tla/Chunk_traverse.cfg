SPECIFICATION Spec
CONSTANTS
    Lengths = {0, 128}
    MaxArray = 0
    MaxInsert = 0
    MaxSize = 129
    MaxPair = 0
    Width = 128
CHECK_DEADLOCK FALSE
INVARIANT ChunkVisitsEachOnce
