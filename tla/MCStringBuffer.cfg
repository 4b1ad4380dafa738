SPECIFICATION ReadersSpec
CONSTANTS
    Sources = {"ascii"}
    VectorBytes = 32
    TailPadding = 64
    StaticBytes = 0
    FailingReserve = {}
    Lengths = {14, 40}
    Runs = {0, 3, 16}
    MaxStops = 2
    WordMax = 127
    HalfWord = 64
    SafeDigits = 2
    ExpDigits = 2
    MinDecExp <- MCMinDecExp
    MaxDecExp = 3
    Numbers = {}
    Machines = {}
    Utf8Texts = {}
    StaleBytes = {}
    Vectors = {}
    Counts = {}
    Offsets = {}
    Gaps = {}
    Isas = {}
    HeaderBytes = 40
    StrDocuments <- NoDocuments
    Words = {}
    Spaces = {}
    HeaderUnits = {}
INVARIANT StoresInside
CHECK_DEADLOCK FALSE
