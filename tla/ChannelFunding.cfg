\* Two coloured channels and a plain one, one crash, one failing call.
SPECIFICATION Spec
CONSTANTS
    Channels = {a, b, c}
    Colored = {a, b}
    Faults = {"begin", "create", "post", "broadcast", "transfer", "save"}
    MaxCrashes = 1
    MaxFailures = 1
    None = None
CHECK_DEADLOCK FALSE
INVARIANTS
    TypeOK
    OneOpening
    TransferMatchesChannel
    OneTransferPerBroadcast
    FundedHasAsset
PROPERTIES
    KeepsTurns
    SignedGetsFunded
