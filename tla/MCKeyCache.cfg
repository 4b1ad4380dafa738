CONSTANTS
    A = A
    B = B
    G = G
    NoObject = NoObject
    t1 = t1
    t2 = t2
    o1 = o1
    o2 = o2
    o3 = o3
    Threads <- MCThreads
    Keys <- MCKeys
    Slots <- MCSlots
    SlotOf <- MCSlotOf
    CacheLimit = 2
    Objects <- MCObjects
    MaxHeld = 2
    Builds = {TRUE, FALSE}
    Global = G
    Nil = NoObject
SYMMETRY ObjectSymmetry
SPECIFICATION Spec
INVARIANTS
    HitIsTheKey
    RefsBalanced
    NothingLostGIL
