\* A resource of three pieces.
SPECIFICATION FairSpec
CONSTANTS
    Size = 3
INVARIANTS
    PrefixKept
    TargetWhole
    EventsHaveHandler
PROPERTIES
    ResumedGetsDone
