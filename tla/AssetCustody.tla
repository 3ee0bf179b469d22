---------------------------- MODULE AssetCustody ----------------------------
(***************************************************************************)
(* What the close of a channel promises about the asset this node has in   *)
(* it, without outputs or events: the share goes from the channel to a     *)
(* witness id of its own and from there to the wallet, each step once and  *)
(* none back, and the asset counts as locked in the channel until it has   *)
(* been claimed.  The locks are one file: a write of it that is cut off,   *)
(* when one is made or released, loses them all.  Settlement implements    *)
(* it.                                                                     *)
(***************************************************************************)
CONSTANT Channels

VARIABLES
    place,          \* where the share of this node is, on F1r3node
    locked          \* channels whose asset counts as locked

custodyVars == <<place, locked>>

Places == {"none", "channel", "witness", "nothing", "claimed"}

Init ==
    /\ place = [c \in Channels |-> "none"]
    /\ locked = {}

Move(c, from, to) == place[c] = from /\ place' = [place EXCEPT ![c] = to]

\* Only the opener tracks the lock
Open(c) ==
    /\ Move(c, "none", "channel")
    /\ locked' \in {locked, locked \cup {c}, {}}

\* There may be no share left for this node
Settle(c) ==
    /\ Move(c, "channel", "witness") \/ Move(c, "channel", "nothing")
    /\ UNCHANGED locked

Claim(c) ==
    /\ Move(c, "witness", "claimed")
    /\ UNCHANGED locked

Release(c) ==
    /\ place[c] = "claimed"
    /\ locked' \in {locked \ {c}, {}}
    /\ UNCHANGED place

Next == \E c \in Channels : Open(c) \/ Settle(c) \/ Claim(c) \/ Release(c)

Spec == Init /\ [][Next]_custodyVars
=============================================================================
