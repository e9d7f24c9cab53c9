SPECIFICATION ConnSpec
CONSTANTS
    Dialer = {t1, t2}
    Server = srv
    Fd = {1, 2}
    Node <- MCNode
    CompatR9 = FALSE
    Challenge = {7, 8}
    HFaults = {"resolve", "epmd", "socket", "break", "table"}
    Timed = TRUE
    MaxConnects = 2
    NULL = NULL
    h1 = h1
    h2 = h2
    Thread = {t1, t2}
    Mutex = {m1, m2}
    Host <- MCHost
    Unknown = u
    BufferSize = {10, 30, 42}
    NonBlocking = {0}
    EarlyInit = TRUE
    Asker = {t1, t2}
    TFaults = {"memory", "key"}
    Errno = {0, 5}
    Mail <- MCMail
    MaxSent = 2
    MaxRequests = 2
    Known = TRUE
    MFaults = {"memory", "close"}
INVARIANTS Authenticated DescriptorsSound MessagesSound MutualExclusion LookupsSound CopyExact ErrnoPrivate
PROPERTIES CallsSound TokensPassedOn
CHECK_DEADLOCK FALSE
