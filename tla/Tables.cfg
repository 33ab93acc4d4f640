CONSTANTS
    nodeP = nodeP
    nodeQ = nodeQ
    nodeR = nodeR
    zero = zero
    Workers = {0, 1}
    Users = {0, 1}
    Pairs = {nodeP, nodeQ, nodeR}
    Zero = zero
    Hash <- MCHash
    LINE = 2
    REGION = 2
    MinSize = 4
    MaxSize = 8
    Lines = 1
    Slots = 1
    Keys <- MCKeys
    Slot <- MCSlot
    Part <- MCPart
    TAG = 16
    Node <- MCNode
    MaxOps = 3
SPECIFICATION MCSpec
CHECK_DEADLOCK FALSE
INVARIANTS UniqueNodes ResultsTrue OwnBuckets
