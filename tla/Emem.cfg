SPECIFICATION EmSpec
CONSTANTS
    Ptr = {1, 2, 3}
    BlockSize = {1, 2}
    BlockType = {0, 1}
    Hash <- MCHash
    table_sizes <- MCSizes
    BlocksPerPool = 2
    TFaults = {"malloc", "realloc"}
    Traces <- MCTraces
    Switches <- MCSwitches
    Seconds = {0, 2}
    Addrs = {1, 2}
    Sizes = {3, 20}
    Word = 128
    PrevWord = 16
    IFaults = {"carriers", "table", "btype", "allctr", "prv", "usd", "header"}
    Trace = 4
    HeaderUnits = 1
    BufSize = 2
    MinRead = 1
    MaxBuf = 7
    QFaults = {"malloc", "thread", "socket", "bad", "write", "intr", "recv", "quick"}
    NULL = NULL
INVARIANTS FiguresSound QueuesSound
PROPERTIES IsBlockMap EmemEnds
CHECK_DEADLOCK FALSE
