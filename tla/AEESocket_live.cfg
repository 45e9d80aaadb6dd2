SPECIFICATION FairSpec
CONSTANTS
    Byte = {a, b}
    SendMax = 2
    RecvMax = 2
    MaxFrame = 2
    MaxAttempts = 2
    StreamBound = 3
    MaxDepth = 6
PROPERTIES
    AttemptAnswered
    BytesGoOut
    CallsReturn
\* A deleted object stops.
CHECK_DEADLOCK FALSE
