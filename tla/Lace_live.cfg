CONSTANTS
    Threads = {t1, t2}
    MaxId = 3
    MaxOps = 5
    MaxFull = 2
SPECIFICATION MCFairSpec
CHECK_DEADLOCK FALSE
PROPERTIES QuitAcked AnsweredOrStalled GcEnds
