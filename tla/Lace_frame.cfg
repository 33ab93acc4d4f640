CONSTANTS
    Threads = {t1, t2}
    MaxId = 2
    MaxOps = 4
    MaxFull = 2
SPECIFICATION MCFairSpec
CHECK_DEADLOCK FALSE
PROPERTY FrameAppears
