SPECIFICATION CSpec
CONSTANTS
    NULL = NULL
    DFaults = {"ALLOC", "ENV", "CONNECTION", "EXEC", "COLS", "ROWS", "DESC", "BIND", "FREE", "FETCH", "MORE", "malloc", "PARAM_ARRAY", "DRIVER_INFO", "hang"}
    PFaults = {"thread", "connect"}
    Menus <- MCMenus
    MaxCalls = 4
    MAX_SEQ_TIMEOUTS = 2
    Strangers = 1
    Intrude = FALSE
    OwnerDies = TRUE
INVARIANTS
    PendingHandled
CHECK_DEADLOCK FALSE
