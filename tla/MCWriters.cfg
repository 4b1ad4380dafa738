SPECIFICATION WritersSpec
CONSTANTS
    VectorBytes = 16
    t1 = t1
    t2 = t2
    s1 = s1
    b1 = b1
    b2 = b2
    b3 = b3
    Threads <- MCThreads
    Strs <- MCStrs
    Values <- MCValues
    Contended <- MCContended
    Buffers <- MCBuffers
    CacheAlways = FALSE
    ShortStr = 6
    Builds = {TRUE, FALSE}
    NoBuffer = NoBuffer
    Shapes <- MCShapes
    ElementTypes = {"f64", "f32", "i64", "i8", "u8", "bool"}
    Indents = {0, 2, 4}
    BaseDepths = {0, 2}
    AppendIndents = {0, 4}
    Depths = {2}
    AppendedStrs <- MCAppendedStrs
    Isas <- MCIsas
    HeaderBytes = 40
    EncodedStrs <- MCEncodedStrs
SYMMETRY Symmetry
INVARIANTS
    TypeOK
    BuffersOwned
    OutputIsTheText
    StoresInside
    ReservationSuffices
    WrittenIsTheValue
