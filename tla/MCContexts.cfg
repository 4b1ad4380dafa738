SPECIFICATION Spec
CONSTANTS
    Threads = {t1, t2}
    Nodes = {n1, n2, n3, n4, n5}
    MaxDepth = 4
    Builds = {TRUE, FALSE}
    HookMaxRecursion = 3
    Nil = Nil
    DefaultCtx = DefaultCtx
INVARIANTS
    TypeOK
    ListOK
    NoNodeLeak
    LevelCountsCalls
    DefaultExclusive
    BuffersIntactFT
PROPERTIES
    ContextsArePrivate
