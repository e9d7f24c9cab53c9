SPECIFICATION PortsSpec
CONSTANTS
    DFaults = {"ALLOC", "ENV", "CONNECTION", "EXEC", "COLS", "ROWS", "DESC", "BIND", "FREE", "FETCH", "MORE", "malloc", "PARAM_ARRAY", "DRIVER_INFO", "hang"}
    PFaults = {"thread", "connect"}
    Menus <- MCMenus
    MaxCalls = 4
    MAX_SEQ_TIMEOUTS = 2
    Strangers = 1
    Intrude = FALSE
    OwnerDies = TRUE
    Ports <- P
    Home <- MCHome
    Name = {"n"}
    MaxOpens = 4
    MaxCrashes = 1
    Lens = {1, 6}
    Capacity = 9
    CHUNK_SIZE = 9
    MaxPackets = 2
    NULL = NULL
INVARIANTS DriversSound NamesSound AnswersOwn
PROPERTIES PortsPromise
CHECK_DEADLOCK FALSE
