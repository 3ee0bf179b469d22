\* One client that locks and unlocks, one with every other request, the shutdown
\* future, crashes; a start may succeed, fail early, be refused late or panic.
\* The liveness properties.
SPECIFICATION Spec
CONSTANTS
    Operators = {c1}
    Users = {c2}
    Daemon = daemon
    Instances = {i1, i2}
    Seeds = {s1}
    Passwords = {p1}
    StartOutcomes = {"ok", "early_error", "announce_error", "panic"}
    Absent = Absent
    Torn = Torn
    None = None
PROPERTIES
    ChangeEnds
    LockTakesEffect
    ShutdownCompletes
