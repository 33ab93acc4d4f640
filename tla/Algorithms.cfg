CONSTANTS
    Parts = {"calls", "tags", "diagrams"}
    NoCall = NoCall
    Offsets = {0, 1, 2, 3}
    MAX_LB = 11
    Kinds = {"bdd", "states", "trans", "int", "double", "fraction", "set", "map"}
    MaxNum <- MCMaxNum
    MaxDen = 2
    MaxTrans = 2
SPECIFICATION Spec
CHECK_DEADLOCK FALSE
INVARIANTS OutputClean RestKept LabelsKept DiagramExact NumbersExact Answers
