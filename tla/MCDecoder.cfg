SPECIFICATION Spec
CONSTANTS
    Keys = {k1, k2}
    MaxTokens = 7
    DecodeMaxRecursion = 2
    ObjBufferInit = 2
    ObjectHook = TRUE
    ArrayHook = TRUE
INVARIANTS
    TypeOK
    StackAccount
    RefsBalanced
    CapacityOK
    KeysAreStrings
    ResultIsTheValue
    RejectsOnlyErrors
    DepthLimitExact
