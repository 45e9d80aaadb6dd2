\* A reply handler makes the next call.
SPECIFICATION Spec
CONSTANTS
    Object = {o1, o2}
    Outcomes = {"all"}
    Nested = TRUE
    OpenFails = FALSE
    ServerCheck = FALSE
    MaxBatch = 1
    MaxId = 2
    MaxHttp = 2
INVARIANTS
    NoOrphan
\* An application may make no more calls.
CHECK_DEADLOCK FALSE
