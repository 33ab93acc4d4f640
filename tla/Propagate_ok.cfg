CONSTANTS
    Gpr = {"RAX", "RBX", "RCX", "RDX"}
    Vec = {"XMM0", "XMM1"}
    Use = {"RAX", "RBX"}
    MemSize = 33
    Start = {1, 4}
    MaxCount = 2
    Instructions <- Faithful
    MaxOps = 2
SPECIFICATION MCSpec
CHECK_DEADLOCK FALSE
INVARIANTS NoUnderTaint
