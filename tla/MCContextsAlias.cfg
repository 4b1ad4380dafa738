SPECIFICATION Spec
CONSTANTS
    Threads = {t1}
    Nodes = {n1, n2, n3}
    MaxDepth = 3
    Builds = {TRUE}
    HookMaxRecursion = 3
    Nil = Nil
    DefaultCtx = DefaultCtx
SYMMETRY NodeSymmetry
INVARIANTS
    BuffersIntact
