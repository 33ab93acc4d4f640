CONSTANTS
    t1 = t1
    t2 = t2
    Threads = {t1, t2}
    PAGE_SIZE = 2
    PAGETABLE_SZ = 2
    Limit = 11
    FileLen = 3
    Fd = {0, 1}
    Buf <- MCBuf
    Count = 2
    MapAddr = 8
    Word = 256
    MaxCalls = 3
SPECIFICATION MCSpec
CHECK_DEADLOCK FALSE
INVARIANTS FlatMap TagsExact FdsExact
