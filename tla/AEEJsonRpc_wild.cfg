\* Any server, reply handlers that make calls, failures to open.
SPECIFICATION Spec
CONSTANTS
    Object = {o1, o2}
    Outcomes = {"failure", "status", "empty", "foreign", "malformed", "all", "some"}
    Nested = TRUE
    OpenFails = TRUE
    ServerCheck = TRUE
    MaxBatch = 2
    MaxId = 3
    MaxHttp = 2
INVARIANTS
    BusyWhileListening
PROPERTIES
    RpcSpec
\* An application may make no more calls.
CHECK_DEADLOCK FALSE
