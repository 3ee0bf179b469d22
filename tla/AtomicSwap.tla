----------------------------- MODULE AtomicSwap -----------------------------
(***************************************************************************)
(* What the taker is promised about a swap, without queues, statuses,      *)
(* lists, timeouts or crashes: it is bound only by terms it accepted when  *)
(* it looked at what it is asked for, they do not change while it is       *)
(* bound, and a swap that the maker was paid for ends with the taker paid, *)
(* never with the maker's payment kept and the taker's withdrawn.  Swaps   *)
(* implements it.                                                          *)
(***************************************************************************)
CONSTANTS Swaps, Terms, None

VARIABLES
    accepted,       \* the terms the taker accepts for a swap
    agreed,         \* those it found an offer to have, and is not yet bound by
    phase,          \* whether the taker is bound, and the maker paid
    bound,          \* the terms the taker is bound by
    paid            \* swaps the maker was paid for at least once

swapVars == <<accepted, agreed, phase, bound, paid>>

Init ==
    /\ accepted = [h \in Swaps |-> None]
    /\ agreed = [h \in Swaps |-> None]
    /\ phase = [h \in Swaps |-> "open"]
    /\ bound = [h \in Swaps |-> None]
    /\ paid = {}

\* What the taker has agreed to or is bound by stays as it is
Accept(h, t) ==
    /\ accepted' = [accepted EXCEPT ![h] = t]
    /\ UNCHANGED <<agreed, phase, bound, paid>>

Agree(h) ==
    /\ phase[h] = "open"
    /\ accepted[h] \in Terms
    /\ agreed' = [agreed EXCEPT ![h] = accepted[h]]
    /\ UNCHANGED <<accepted, phase, bound, paid>>

Bind(h) ==
    /\ agreed[h] \in Terms
    /\ agreed' = [agreed EXCEPT ![h] = None]
    /\ phase' = [phase EXCEPT ![h] = "bound"]
    /\ bound' = [bound EXCEPT ![h] = agreed[h]]
    /\ UNCHANGED <<accepted, paid>>

Settle(h) ==
    /\ phase[h] = "bound"
    /\ phase' = [phase EXCEPT ![h] = "settled"]
    /\ paid' = paid \cup {h}
    /\ UNCHANGED <<accepted, agreed, bound>>

\* The taker is free again: of swaps that came to nothing, or of one that is paid
Free(H) ==
    /\ agreed' = [h \in Swaps |-> IF h \in H THEN None ELSE agreed[h]]
    /\ phase' = [h \in Swaps |-> IF h \in H THEN "open" ELSE phase[h]]
    /\ bound' = [h \in Swaps |-> IF h \in H THEN None ELSE bound[h]]
    /\ UNCHANGED <<accepted, paid>>

Withdraw(H) == (\A h \in H : phase[h] # "settled") /\ Free(H)

Complete(h) == phase[h] = "settled" /\ Free({h})

Next ==
    \/ \E h \in Swaps : \/ Agree(h) \/ Bind(h) \/ Settle(h) \/ Complete(h)
                        \/ \E t \in Terms : Accept(h, t)
    \/ \E H \in SUBSET Swaps : Withdraw(H)

Spec == Init /\ [][Next]_swapVars
=============================================================================
