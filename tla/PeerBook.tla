------------------------------ MODULE PeerBook ------------------------------
(***************************************************************************)
(* What the file of channel peers promises: a map from peers to addresses  *)
(* in which one entry at a time is stored or deleted, at once and without  *)
(* any effect on the others, whenever the node stops.                      *)
(***************************************************************************)
CONSTANTS Peers, Addresses, None

VARIABLE book

Init == book = [p \in Peers |-> None]

Store(p, a) == book' = [book EXCEPT ![p] = a]

Delete(p) == book' = [book EXCEPT ![p] = None]

Next == \E p \in Peers : Delete(p) \/ \E a \in Addresses : Store(p, a)

Spec == Init /\ [][Next]_book
=============================================================================
