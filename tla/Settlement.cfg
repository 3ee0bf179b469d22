\* A channel this node opened and one it accepted, two outputs to claim to, one
\* crash at any moment.
SPECIFICATION Spec
CONSTANTS
    Channels = {c1, c2}
    Opened = {c1}
    Peers = {p1, p2}
    Peer <- MCPeer
    Outputs = {u1, u2}
    MaxCrashes = 1
    Us = us
    None = None
    c1 = c1
    c2 = c2
    p1 = p1
    p2 = p2
CHECK_DEADLOCK FALSE
INVARIANTS
    TypeOK
    InfoUntilClaimed
    RecordsMatchNode
PROPERTIES
    KeepsCustody
    ClosedIsClaimed
