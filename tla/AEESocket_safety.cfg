\* Three attempts, so that an answer of the first or the second can reach a
\* later one; frames up to one byte longer than the receive buffer; nesting deep
\* enough for a send() that fails inside onHandler and a close() inside that.
SPECIFICATION Spec
CONSTANTS
    Byte = {a, b}
    SendMax = 2
    RecvMax = 2
    MaxFrame = 3
    MaxAttempts = 3
    StreamBound = 4
    MaxDepth = 6
INVARIANTS
    TypeOK
    StreamIntegrity
    NoLostWakeup
    DeafOnlyIfFull
    NoFrameLeft
    NothingStray
PROPERTIES
    PipeSpec
\* A deleted object stops.
CHECK_DEADLOCK FALSE
