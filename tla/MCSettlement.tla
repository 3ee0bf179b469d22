---------------------------- MODULE MCSettlement ----------------------------
(***************************************************************************)
(* Settlement for TLC: two channels with different peers.                  *)
(***************************************************************************)
EXTENDS Settlement

CONSTANTS c1, c2, p1, p2

MCPeer == [c \in Channels |-> IF c = c1 THEN p1 ELSE p2]
=============================================================================
