\* One swap, two payments for it, one crash of either node, terms that match
\* and terms that do not.  The clock stands still: nothing expires.
SPECIFICATION Spec
CONSTANTS
    Swaps = {h1}
    Terms = {t1, t2}
    Offered = {t1}
    Lifetime = 0
    PendingLimit = 0
    MaxTime = 0
    MaxTries = 2
    MaxCrashes = 1
    None = None
CHECK_DEADLOCK FALSE
INVARIANTS
    TypeOK
    SucceededWasPaid
    PendingMatchesHtlc
PROPERTIES
    KeepsTerms
