CONSTANTS
    Threads = {t1}
    Cells = {c1, c2}
    Nodes = {n1, n2, n3}
    Zero = zero
SPECIFICATION Spec
INVARIANTS LiveKept RootsExact
