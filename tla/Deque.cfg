CONSTANTS
    w1 = w1
    w2 = w2
    w3 = w3
    Workers = {w1, w2, w3}
    Root = w1
    NoOne = NoOne
    Settings <- MCSettings
    DQ = 6
SPECIFICATION FairSpec
CHECK_DEADLOCK FALSE
INVARIANTS TasksExact LeapPops
PROPERTY Ends
