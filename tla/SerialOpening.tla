--------------------------- MODULE SerialOpening ---------------------------
(***************************************************************************)
(* What the openings of channels promise, without events, files and locks: *)
(* one channel at a time is served; its funding transaction is sent and    *)
(* its own asset moved onto it in its turn, in that order; each time the   *)
(* transaction is accepted may be answered by one move, and no move        *)
(* happens without; it counts as funded only with the transaction sent,    *)
(* and is given up only without.  A crash ends the turns: after it moves   *)
(* still answer a transaction that was accepted, one each, but whose asset *)
(* is moved is not promised.  ChannelFunding implements it.                *)
(***************************************************************************)
EXTENDS Naturals, Sequences

CONSTANT Channels

VARIABLES
    serving,        \* the channel whose turn it is, if any: a set of at most one
    sent,           \* how often the funding transaction of each was accepted
    due,            \* those for which a move may answer that
    moved,          \* the assets moved onto funding outputs, in order
    funded,         \* those that count as funded
    disturbed       \* there was a crash

serialVars == <<serving, sent, due, moved, funded, disturbed>>

Init ==
    /\ serving = {} /\ funded = {} /\ disturbed = FALSE
    /\ sent = [c \in Channels |-> 0] /\ due = {} /\ moved = <<>>

Begin(c) ==
    /\ serving = {} /\ ~disturbed
    /\ serving' = {c}
    /\ UNCHANGED <<sent, due, moved, funded, disturbed>>

\* A channel with an asset has a move due then
Send(c) ==
    /\ serving = {c} \/ disturbed
    /\ sent' = [sent EXCEPT ![c] = @ + 1]
    /\ due' \in {due, due \cup {c}}
    /\ UNCHANGED <<serving, moved, funded, disturbed>>

Move(c, a) ==
    /\ (serving = {c} /\ a = c) \/ disturbed
    /\ c \in due /\ due' = due \ {c}
    /\ moved' = Append(moved, [to |-> c, asset |-> a])
    /\ UNCHANGED <<serving, sent, funded, disturbed>>

\* The move is refused, and no other comes for what was accepted then
Miss(c) ==
    /\ c \in due /\ due' = due \ {c}
    /\ UNCHANGED <<serving, sent, moved, funded, disturbed>>

Finish(c) ==
    /\ serving = {c}
    /\ sent[c] > 0 /\ c \notin due
    /\ serving' = {} /\ funded' = funded \cup {c}
    /\ UNCHANGED <<sent, due, moved, disturbed>>

GiveUp(c) ==
    /\ serving = {c}
    /\ sent[c] = 0
    /\ serving' = {}
    /\ UNCHANGED <<sent, due, moved, funded, disturbed>>

Crash ==
    /\ serving' = {} /\ funded' = {} /\ due' = {} /\ disturbed' = TRUE
    /\ UNCHANGED <<sent, moved>>

Next ==
    \/ \E c \in Channels : Begin(c) \/ Send(c) \/ Miss(c) \/ Finish(c) \/ GiveUp(c)
    \/ \E c, a \in Channels : Move(c, a)
    \/ Crash

Spec == Init /\ [][Next]_serialVars
=============================================================================
