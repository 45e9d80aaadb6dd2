\* A server that answers every method of a request, or fails all of them;
\* reply handlers that call no method (they may remove or cancel some).
SPECIFICATION FairSpec
CONSTANTS
    Object = {o1, o2}
    Outcomes = {"failure", "status", "malformed", "all"}
    Nested = FALSE
    OpenFails = TRUE
    ServerCheck = TRUE
    MaxBatch = 2
    MaxId = 3
    MaxHttp = 3
INVARIANTS
    NoOrphan
    InOneRequest
PROPERTIES
    EveryCallAnswered
\* An application may make no more calls.
CHECK_DEADLOCK FALSE
