SPECIFICATION DataSpec
CONSTANTS
    MAXATOMLEN = 5
    STRINGLIMIT = 3
    TUPLELIMIT = 2
    BIGLIMIT = 8
    EXTRA = 5
    NULL = NULL
    Term <- MCTerm
    Follower <- MCFollower
    MaxTerms = 2
    MayRunOut = TRUE
    Careless = FALSE
    Big <- MCBig
    R9 = FALSE
    Eterm <- WithNewFun
    Foreign <- MCForeign
    MaxEterms = 2
    MaxRef = 12
    Simple = {"int", "var"}
    Shape <- MCShape
    Formats <- MCFormats
    MaxHeld = 2
    MaxSteps = 5
    k1 = k1
    k2 = k2
    v1 = v1
    Key = {k1, k2}
    LongKey = {k2}
    Hash <- MCHash
    Content = {v1}
    b1 = b1
    b2 = b2
    Block = {b1, b2}
    Type = {"INT", "FLT", "STR", "BIN"}
    BinSize = {0, 1}
    Sizes = {1, 2}
    MayFail = {"object", "bucket", "table", "message"}
    MaxCalls = 4
INVARIANTS TermsSound RegistrySound
PROPERTIES HeapSound BackupTrue
SYMMETRY Places
CHECK_DEADLOCK FALSE
