CONSTANTS
    Threads = {t1, t2}
    Mem = {m1, m2}
    Regs = {r1}
    Offsets = {a}
    SSA_BLK = 3
    MaxBlocks = 2
    Word = 16
    Junk = junk
    MaxOps = 6
SYMMETRY Symm
SPECIFICATION MCSpec
CHECK_DEADLOCK FALSE
INVARIANT UsedNotQueued
