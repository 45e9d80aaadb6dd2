\* The server sends anything; call() may add the transport a second time.
SPECIFICATION PhoneFairSpec
CONSTANTS
    m1 = m1
    m2 = m2
    v = v
    Byte <- MCByte
    Magic1 = m1
    Magic2 = m2
    Video = v
    Letters = 2
    SendMax = 7
    RecvMax = 3
    MaxFrame = 1
    MaxAttempts = 1
    StreamBound = 10
    MaxDepth = 4
    Server = {m1, m2, v}
    Signals = {"incoming", "reject"}
    MaxCalls = 1
INVARIANTS
    WholeFrames
    CaptureHasBuffer
PROPERTY CaptureGoesOn
CHECK_DEADLOCK FALSE
