\* A heap with an int of eight bits, where the request 253 wraps; the bounds
\* of the other parts are in the module.
SPECIFICATION LibrarySpec
CONSTANTS
    Memory = 1
    Size = 55
    Word = 256
    Requests = {0, 3, 8, 20, 253}
INVARIANTS
    Tiling
    Granted
    NoLeak
    FailsOnlyIfFull
    ContainersKept
    CodecsKept
\* A part that is done stops.
CHECK_DEADLOCK FALSE
