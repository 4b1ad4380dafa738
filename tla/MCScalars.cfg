SPECIFICATION ReadersSpec
CONSTANTS
    Sources = {"ascii", "ucs1", "ucs2", "ucs4", "utf8"}
    VectorBytes = 16
    TailPadding = 64
    StaticBytes = 300
    FailingReserve = {"utf8"}
    Lengths = {14, 40, 90}
    Runs = {0, 3, 16}
    MaxStops = 2
    WordMax = 127
    HalfWord = 64
    SafeDigits = 2
    ExpDigits = 2
    MinDecExp <- MCMinDecExp
    MaxDecExp = 3
    Numbers <- MCNumbers
    Machines = {"x64", "neon"}
    Utf8Texts <- MCUtf8Texts
    StaleBytes = {34, 191}
    Vectors = {16, 32, 64}
    Counts = {0, 1, 3, 7, 15, 16, 17, 30, 63, 64, 65, 100, 130, 259, 300}
    Offsets = {0, 1, 8, 40, 56, 61}
    Gaps = {0, 16, 20}
    Isas <- MCIsas
    HeaderBytes = 40
    StrDocuments <- MCStrDocuments
    Words <- MCWords
    Spaces <- MCSpaces
    HeaderUnits = {34, 200}
INVARIANTS
    ReadIsTheText
    ResultIsTheString
    ReadsInside
    ScalarEndsClean
CHECK_DEADLOCK FALSE
