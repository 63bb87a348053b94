\* Two threads and callbacks that issue asynchronous requests, and the destructor.
SPECIFICATION FairSpec
CONSTANTS
    Requests = {r1, r2}
    Callers = {c1, c2}
    IoThread = io
    NoRequest = none
    SyncInCallbacks = FALSE
INVARIANTS TypeOK
PROPERTIES RefinesContract SyncCallsReturn AsyncCallsDelivered JoinReturns
