\* Two peers, addresses that work and that do not, one crash at any moment.
SPECIFICATION Spec
CONSTANTS
    Peers = {p1, p2}
    Right = right
    Wrong = wrong
    MaxCrashes = 1
    None = None
CHECK_DEADLOCK FALSE
INVARIANTS
    TypeOK
    OpenedPeerIsStored
PROPERTIES
    FileIsBook
    ChannelPeerReconnects
