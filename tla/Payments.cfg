\* An invoice paid twice, an offer, one payment received, one forwarded, one
\* restart at any moment.
SPECIFICATION Spec
CONSTANTS
    Invoices = {p1}
    Fresh = {}
    Offers = {o1}
    Inbound = {i1}
    Forwards = {f1}
    MaxTries = 2
    MaxRestarts = 1
    None = None
CHECK_DEADLOCK FALSE
INVARIANTS
    TypeOK
    StoredBeforeSent
    SucceededIsCounted
    PaidAtMostOnce
    AmountsMatchPayments
PROPERTIES
    PendingSettles
    ClaimedIsReported
