\* A callback calls a synchronous method.
SPECIFICATION FairSpec
CONSTANTS
    Requests = {r1, r2}
    Callers = {c1}
    IoThread = io
    NoRequest = none
    SyncInCallbacks = TRUE
PROPERTIES SyncCallsReturn
CHECK_DEADLOCK FALSE
