\* F1r3node refuses the transfer once, after the broadcast.
SPECIFICATION Spec
CONSTANTS
    Channels = {a, b, c}
    Colored = {a, b}
    Faults = {"transfer"}
    MaxCrashes = 0
    MaxFailures = 1
    None = None
CHECK_DEADLOCK FALSE
INVARIANT
    SkippedWasTransferred
