----------------------------- MODULE EventQueue -----------------------------
(***************************************************************************)
(* LDK's pending events as this node sees them: a sequence whose first     *)
(* event is handled next, and which LDK rebuilds after a restart from the  *)
(* events that are still of use, in their order.                           *)
(***************************************************************************)
EXTENDS Naturals, Sequences, FiniteSets

\* The events of a queue
Members(s) == {s[i] : i \in 1 .. Len(s)}

\* The k-th smallest of a set of places
Place(P, k) == CHOOSE i \in P : Cardinality({j \in P : j <= i}) = k

\* The events at the places P, in their order
Pick(s, P) == [k \in 1 .. Cardinality(P) |-> s[Place(P, k)]]
=============================================================================
