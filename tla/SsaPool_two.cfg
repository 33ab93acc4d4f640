CONSTANTS
    Threads = {t1, t2}
    Mem = {m1, m2}
    Regs = {r1, r2}
    Offsets = {a}
    SSA_BLK = 3
    MaxBlocks = 2
    Word = 32
    Junk = junk
    MaxOps = 7
SYMMETRY Symm
SPECIFICATION MCSpec
CHECK_DEADLOCK FALSE
INVARIANTS GcMutex  RacesOnly
