SPECIFICATION FairSpec
CONSTANTS
    l1 = l1
    l2 = l2
    d1 = d1
    t1 = t1
    Encoders = {e1, e2}
    Lists = {l1, l2}
    Dicts = {d1}
    Tuples = {t1}
    Leaf = Leaf
    None = None
    Heaps <- MCHeaps
    MaxLen = 2
    MaxDepth = 3
    Builds = {TRUE, FALSE}
    SetMayFail = FALSE
    Mutations = {"append"}
INVARIANTS
    LocksMatchSet
    SizesHold
    OutputIsTheTree
    ErrorsExact
    DeadlockNeedsCycle
PROPERTIES
    Returns
CHECK_DEADLOCK FALSE
