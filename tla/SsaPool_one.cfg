CONSTANTS
    Threads = {t1}
    Mem = {m1}
    Regs = {r1, r2}
    Offsets = {a, b}
    SSA_BLK = 3
    MaxBlocks = 3
    Word = 16
    Junk = junk
    MaxOps = 8
SPECIFICATION MCFairSpec
CHECK_DEADLOCK FALSE
INVARIANTS TypeOK RingSound LiveProtected LastCheck CacheCoherent BlocksBounded
PROPERTIES ValueStable StoreSpec Completes
