CONSTANTS
    Threads = {t1, t2, t3}
    MaxId = 3
    MaxOps = 6
    MaxFull = 2
SPECIFICATION MCSpec
SYMMETRY Symm
CHECK_DEADLOCK FALSE
INVARIANTS LockOwner GcAlone CopySafe BarrierCount MailboxAnswer StopSafe
PROPERTY FrameStable
