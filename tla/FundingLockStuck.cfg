\* The peer refuses a channel, or disconnects, before it is funded.
SPECIFICATION Spec
CONSTANTS
    Channels = {a, b, c}
    Colored = {a, b}
    Faults = {}
    MaxCrashes = 0
    MaxFailures = 1
    None = None
CHECK_DEADLOCK FALSE
INVARIANT
    LockMeansOpening
