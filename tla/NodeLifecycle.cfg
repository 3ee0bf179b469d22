\* Two clients that send every request, locks and unlocks that overlap included, the
\* shutdown future, crashes; a start may succeed, fail early, be refused late or panic.
SPECIFICATION Spec
CONSTANTS
    Operators = {c1, c2}
    Users = {c1, c2}
    Daemon = daemon
    Instances = {i1, i2}
    Seeds = {s1, s2}
    Passwords = {p1}
    StartOutcomes = {"ok", "early_error", "announce_error", "panic"}
    Absent = Absent
    Torn = Torn
    None = None
SYMMETRY Symmetry
INVARIANTS
    TypeOK
    GuardedView
    SeedKept
    OneNode
    
