\* One swap, one payment for it, one crash of either node, terms that match.  The
\* clock has a time before and one after the expiry.
SPECIFICATION Spec
CONSTANTS
    Swaps = {h1}
    Terms = {t1}
    Offered = {t1}
    Lifetime = 0
    PendingLimit = 0
    MaxTime = 1
    MaxTries = 1
    MaxCrashes = 1
    None = None
CHECK_DEADLOCK FALSE
PROPERTIES
    PaidIsReported
    PendingEnds
