\* The server sends a part of a frame.
SPECIFICATION PhoneSpec
CONSTANTS
    m1 = m1
    m2 = m2
    v = v
    Byte <- MCByte
    Magic1 = m1
    Magic2 = m2
    Video = v
    Letters = 2
    SendMax = 7
    RecvMax = 3
    MaxFrame = 1
    MaxAttempts = 1
    StreamBound = 10
    MaxDepth = 4
    Server = {m1, m2, v}
    Signals = {}
    MaxCalls = 0
INVARIANT DecodeOkIsComplete
CHECK_DEADLOCK FALSE
