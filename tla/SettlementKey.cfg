\* Two channels this node opened, with different peers; no crash.
SPECIFICATION Spec
CONSTANTS
    Channels = {c1, c2}
    Opened = {c1, c2}
    Peers = {p1, p2}
    Peer <- MCPeer
    Outputs = {u1, u2}
    MaxCrashes = 0
    Us = us
    None = None
    c1 = c1
    c2 = c2
    p1 = p1
    p2 = p2
CHECK_DEADLOCK FALSE
INVARIANTS
    CounterpartyRegistered
