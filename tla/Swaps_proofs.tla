---------------------------- MODULE Swaps_proofs ----------------------------
(***************************************************************************)
(* For any swaps, terms, clock, payments and crashes, in four parts, each  *)
(* of which may use the one before:                                        *)
(*   Paid     types, and what the events that wait or may be delivered     *)
(*            again stand for: SucceededWasPaid;                           *)
(*   Ordered  of a swap's interceptions at most the last is of the payment *)
(*            that is on its way, and then the taker is not bound yet;     *)
(*   IInv     what the taker found when it compared the terms:             *)
(*            PendingMatchesHtlc;                                          *)
(*   and the refinement of AtomicSwap by the steps of maker and taker.     *)
(***************************************************************************)
EXTENDS Swaps, EventQueue_proofs

----------------------------------------------------------------------------
(* Types, and what a swap that is called Succeeded rests on *)

\* Every event of a node that may be handled from now on.
Coming(n) == Members(queue[n]) \cup Members(handled[n])

\* The events that make a store call a swap Succeeded.
Paying == {"PaymentClaimed", "PaymentSent", "PaymentForwarded"}

\* What an event of a node stands for: the maker knows the swap of each of its
\* events, an event that tells of a payment comes after the claim, and HTLCs are
\* intercepted by the taker.
Grounded(n, e) ==
    /\ e \in Events
    /\ e.kind = "HTLCIntercepted" => n = "taker" /\ e.terms \in Terms
    /\ n = "maker" => Known("maker", e.swap)
    /\ e.kind \in Paying => e.swap \in paid

\* The invariant, by the variables its parts are about.
StoreOK ==
    /\ now \in 0 .. MaxTime
    /\ store \in [Nodes -> SwapMap]
    /\ copy \in [Nodes -> SwapMap]

ApiOK ==
    /\ api \in [Nodes -> {"idle", "send", "refused", "list"}]
    /\ target \in Swaps \cup {None}
    /\ asked \in Terms \cup {None}
    /\ todo \in [Nodes -> SUBSET Swaps]
    /\ \A n \in Nodes : api[n] = "list" <=> todo[n] # {}
    /\ \A n \in Nodes, h \in Swaps : h \in todo[n] => Known(n, h)
    /\ api["maker"] \in {"send", "refused"} =>
          target \in Swaps /\ asked \in Terms /\ Known("maker", target)

QueueOK ==
    /\ queue \in [Nodes -> Seq(Events)]
    /\ handled \in [Nodes -> Seq(Events)]
    /\ \A n \in Nodes : \A e \in Coming(n) : Grounded(n, e)

LegOK ==
    /\ leg \in [Swaps -> Legs]
    /\ legTerms \in [Swaps -> Terms \cup {None}]
    /\ tries \in [Swaps -> 0 .. MaxTries]
    /\ paid \subseteq Swaps
    /\ \A h \in Swaps : leg[h] # "none" => Known("maker", h) /\ legTerms[h] \in Terms
    /\ \A h \in Swaps : leg[h] \in {"claimed", "returning", "done"} => h \in paid

\* A verdict is about the first event of the taker, and a swap it knows.
HandlerOK ==
    /\ verdict \in Verdicts
    /\ crossed \subseteq Swaps
    /\ verdict # "none" =>
          /\ queue["taker"] # <<>>
          /\ Head(queue["taker"]).kind = "HTLCIntercepted"
          /\ Known("taker", Head(queue["taker"]).swap)

RestOK == poisoned \subseteq Nodes /\ dead \subseteq Nodes /\ crashes \in 0 .. MaxCrashes

Paid == StoreOK /\ ApiOK /\ QueueOK /\ LegOK /\ HandlerOK /\ RestOK /\ SucceededWasPaid

\* No swap is forgotten, and no payment.
Remembers ==
    /\ \A n \in Nodes, h \in Swaps : Known(n, h) => Known(n, h)'
    /\ paid \subseteq paid'

\* Events and HTLCs are left alone; only the history of the terms may grow.
EventsKept ==
    UNCHANGED <<queue, handled, verdict, legVars>> /\ crossed' \subseteq crossed \cup Swaps

\* An update of a known swap changes its status only, and no terms.
LEMMA UpdateKnown ==
    ASSUME StoreOK, NEW n \in Nodes, NEW h \in Swaps, NEW s \in Statuses,
           Known(n, h), UpdateStatus(n, h, s)
    PROVE  /\ store' \in [Nodes -> SwapMap]
           /\ \A m \in Nodes, g \in Swaps :
                /\ store'[m][g].terms = store[m][g].terms
                /\ store'[m][g].status = IF m = n /\ g = h THEN s ELSE store[m][g].status
<1> DEFINE d == store[n][h]
           e == [terms |-> d.terms, expiry |-> d.expiry, status |-> s,
                 since |-> IF s = "Pending" THEN now ELSE d.since]
<1>1. store[n] \in SwapMap /\ d \in SwapData
  <2>1. store[n] \in SwapMap /\ d \in SwapData \cup {NoSwap}
    BY DEF StoreOK, SwapMap
  <2>2. d.status # "none"
    BY DEF Known
  <2>3. QED BY <2>1, <2>2 DEF NoSwap
<1>2. e \in SwapData /\ e.status = s /\ e.terms = d.terms
  BY <1>1 DEF StoreOK, SwapData
<1>3. store' = [store EXCEPT ![n][h] = e]
  BY DEF UpdateStatus
<1> HIDE DEF e
<1>4. QED BY <1>1, <1>2, <1>3 DEF StoreOK, SwapMap

\* A new swap is Waiting, with the terms it was stored with.
LEMMA AddKnown ==
    ASSUME StoreOK, NEW n \in Nodes, NEW h \in Swaps, NEW t \in Terms, NEW x \in Nat,
           AddSwap(n, h, t, x)
    PROVE  /\ store' \in [Nodes -> SwapMap]
           /\ \A m \in Nodes, g \in Swaps :
                /\ store'[m][g].terms = IF m = n /\ g = h THEN t ELSE store[m][g].terms
                /\ store'[m][g].status =
                     IF m = n /\ g = h THEN "Waiting" ELSE store[m][g].status
<1> DEFINE e == [terms |-> t, expiry |-> x, status |-> "Waiting", since |-> 0]
<1>1. e \in SwapData /\ e.status = "Waiting" /\ e.terms = t
  BY DEF SwapData, Statuses
<1>2. store' = [store EXCEPT ![n][h] = e]
  BY DEF AddSwap
<1> HIDE DEF e
<1>3. QED BY <1>1, <1>2 DEF StoreOK, SwapMap

\* A step that writes a store writes Succeeded only for a swap that was paid.
LEMMA StoreKept ==
    ASSUME Paid, UNCHANGED store, paid' = paid \/ \E h \in Swaps : paid' = paid \cup {h}
    PROVE  store' \in [Nodes -> SwapMap] /\ Remembers /\ SucceededWasPaid'
BY DEF Paid, StoreOK, Remembers, Known, SucceededWasPaid

\* An update writes Succeeded only for a swap that was paid.
LEMMA StoreUpdated ==
    ASSUME Paid, NEW n \in Nodes, NEW h \in Swaps, NEW s \in Statuses,
           Known(n, h), UpdateStatus(n, h, s), s = "Succeeded" => h \in paid,
           UNCHANGED paid
    PROVE  store' \in [Nodes -> SwapMap] /\ Remembers /\ SucceededWasPaid'
<1>1. /\ store' \in [Nodes -> SwapMap]
      /\ \A m \in Nodes, g \in Swaps :
           store'[m][g].status = IF m = n /\ g = h THEN s ELSE store[m][g].status
  BY UpdateKnown DEF Paid
<1>2. s # "none"
  BY DEF Statuses
<1>3. QED BY <1>1, <1>2 DEF Paid, Remembers, Known, SucceededWasPaid

\* A new swap does not succeed.
LEMMA StoreAdded ==
    ASSUME Paid, NEW n \in Nodes, NEW h \in Swaps, NEW t \in Terms, NEW x \in Nat,
           AddSwap(n, h, t, x), UNCHANGED paid
    PROVE  store' \in [Nodes -> SwapMap] /\ Remembers /\ SucceededWasPaid'
<1>1. /\ store' \in [Nodes -> SwapMap]
      /\ \A m \in Nodes, g \in Swaps :
           store'[m][g].status = IF m = n /\ g = h THEN "Waiting" ELSE store[m][g].status
  BY AddKnown DEF Paid
<1>2. QED BY <1>1 DEF Paid, Remembers, Known, SucceededWasPaid

\* An event keeps what it stands for.
LEMMA GroundedKept ==
    ASSUME Remembers, NEW n \in Nodes, NEW e, Grounded(n, e)
    PROVE  Grounded(n, e)'
<1>1. e.swap \in Swaps
  BY DEF Grounded, Events
<1>2. QED BY <1>1 DEF Grounded, Remembers, Nodes

\* The parts of the invariant a step leaves alone.
LEMMA ApiKept ==
    ASSUME Paid, Remembers, UNCHANGED <<api, target, asked, todo>>
    PROVE  ApiOK'
BY DEF Paid, ApiOK, Remembers, Nodes

LEMMA QueueKept ==
    ASSUME Paid, Remembers, UNCHANGED <<queue, handled>>
    PROVE  QueueOK'
<1>1. \A n \in Nodes : \A e \in Coming(n) : Grounded(n, e)'
  BY GroundedKept DEF Paid, QueueOK
<1>2. \A n \in Nodes : Coming(n)' = Coming(n)
  BY DEF Coming
<1>3. QED BY <1>1, <1>2 DEF Paid, QueueOK

LEMMA LegKept ==
    ASSUME Paid, Remembers, UNCHANGED <<leg, legTerms, tries, paid>>
    PROVE  LegOK'
BY DEF Paid, LegOK, Remembers, Nodes

\* What is queued comes after the first event of the taker, and the maker has its own.
LEMMA FirstKept ==
    ASSUME Paid, queue["taker"] # <<>>,
           \/ UNCHANGED queue
           \/ \E e : Push("taker", e) \/ Push("maker", e)
           \/ \E q : queue' = [queue EXCEPT !["maker"] = q]
    PROVE  /\ queue'["taker"] # <<>> /\ Head(queue'["taker"]) = Head(queue["taker"])
           /\ Head(queue["taker"]) \in Events
<1>1. queue["taker"] \in Seq(Events)
  BY DEF Paid, QueueOK, Nodes
<1>2. \/ queue'["taker"] = queue["taker"]
      \/ \E e : queue'["taker"] = Append(queue["taker"], e)
  BY DEF Push, Paid, QueueOK, Nodes
<1>3. queue'["taker"] # <<>> /\ Head(queue'["taker"]) = Head(queue["taker"])
  BY <1>1, <1>2
<1>4. Head(queue["taker"]) \in Events
  BY <1>1, MembersOfTail
<1>5. QED BY <1>3, <1>4

\* The handler of HTLCIntercepted got no further: its event is still the first.
LEMMA HandlerKept ==
    ASSUME Paid, Remembers, UNCHANGED verdict, crossed' \subseteq crossed \cup Swaps,
           \/ UNCHANGED queue
           \/ \E e : Push("taker", e) \/ Push("maker", e)
           \/ \E q : queue' = [queue EXCEPT !["maker"] = q]
    PROVE  HandlerOK'
<1>1. CASE queue["taker"] = <<>>
  BY <1>1 DEF Paid, HandlerOK
<1>2. CASE queue["taker"] # <<>>
  <2>1. /\ queue'["taker"] # <<>> /\ Head(queue'["taker"]) = Head(queue["taker"])
        /\ Head(queue["taker"]) \in Events
    BY <1>2, FirstKept
  <2>2. Head(queue["taker"]).swap \in Swaps
    BY <2>1 DEF Events
  <2>3. QED BY <2>1, <2>2 DEF Paid, HandlerOK, Remembers, Nodes
<1>3. QED BY <1>1, <1>2

\* The taker's handler of the first event ends.
LEMMA HandlerDone ==
    ASSUME Paid, Handled("taker"), UNCHANGED crossed
    PROVE  HandlerOK'
BY DEF Paid, HandlerOK, Handled, HandledWith, Verdicts

\* LDK queues an event that stands for something.
LEMMA QueuePushed ==
    ASSUME Paid, Remembers, NEW n \in Nodes, NEW e, Grounded(n, e)',
           Push(n, e), UNCHANGED handled
    PROVE  QueueOK'
<1>1. queue[n] \in Seq(Events) /\ e \in Events
  BY DEF Paid, QueueOK, Grounded
<1>2. Append(queue[n], e) \in Seq(Events)
      /\ Members(Append(queue[n], e)) = Members(queue[n]) \cup {e}
  BY <1>1, MembersOfAppend
<1>3. /\ queue' \in [Nodes -> Seq(Events)]
      /\ \A m \in Nodes : queue'[m] = IF m = n THEN Append(queue[n], e) ELSE queue[m]
  BY <1>2 DEF Paid, QueueOK, Push
<1>4. \A m \in Nodes : Coming(m)' \subseteq Coming(m) \cup (IF m = n THEN {e} ELSE {})
  BY <1>2, <1>3 DEF Coming
<1>5. \A m \in Nodes : \A d \in Coming(m) : Grounded(m, d)'
  BY GroundedKept DEF Paid, QueueOK
<1>6. \A m \in Nodes : \A d \in Coming(m)' : Grounded(m, d)'
  BY <1>4, <1>5
<1>7. QED BY <1>3, <1>6 DEF Paid, QueueOK

\* The handler of an event ends, and what it made LDK queue stands for something.
LEMMA QueueHandled ==
    ASSUME Paid, Remembers, NEW n \in Nodes, NEW more \in Seq(Events),
           queue[n] # <<>>, HandledWith(n, more),
           \A e \in Members(more) : Grounded(n, e)'
    PROVE  QueueOK'
<1>1. queue[n] \in Seq(Events) /\ handled[n] \in Seq(Events)
  BY DEF Paid, QueueOK
<1> DEFINE q == Tail(queue[n]) \o more
           g == Append(handled[n], Head(queue[n]))
<1>2. /\ Tail(queue[n]) \in Seq(Events) /\ Head(queue[n]) \in Events
      /\ Members(Tail(queue[n])) \subseteq Members(queue[n])
      /\ Head(queue[n]) \in Members(queue[n])
  BY <1>1, MembersOfTail
<1>3. q \in Seq(Events) /\ Members(q) \subseteq Members(queue[n]) \cup Members(more)
  BY <1>2, MembersOfConcat
<1>4. g \in Seq(Events) /\ Members(g) \subseteq Members(handled[n]) \cup Members(queue[n])
  BY <1>1, <1>2, MembersOfAppend
<1>5. /\ queue' = [queue EXCEPT ![n] = q]
      /\ handled' = [handled EXCEPT ![n] = g] \/ handled' = handled
  BY DEF HandledWith
<1> HIDE DEF q, g
<1>6. queue' \in [Nodes -> Seq(Events)] /\ handled' \in [Nodes -> Seq(Events)]
  BY <1>3, <1>4, <1>5 DEF Paid, QueueOK
<1>7. \A m \in Nodes : Coming(m)' \subseteq Coming(m) \cup (IF m = n THEN Members(more) ELSE {})
  <2>1. \A m \in Nodes : queue'[m] = IF m = n THEN q ELSE queue[m]
    BY <1>5 DEF Paid, QueueOK
  <2>2. \A m \in Nodes : handled'[m] = handled[m] \/ (m = n /\ handled'[m] = g)
    BY <1>5 DEF Paid, QueueOK
  <2>3. QED BY <1>3, <1>4, <2>1, <2>2 DEF Coming
<1>8. \A m \in Nodes : \A d \in Coming(m) : Grounded(m, d)'
  BY GroundedKept DEF Paid, QueueOK
<1>9. \A m \in Nodes : \A d \in Coming(m)' : Grounded(m, d)'
  BY <1>7, <1>8
<1>10. QED BY <1>6, <1>9 DEF QueueOK

\* The handler of an event ends.
LEMMA QueueDone ==
    ASSUME Paid, Remembers, NEW n \in Nodes, queue[n] # <<>>, Handled(n)
    PROVE  QueueOK'
<1>1. <<>> \in Seq(Events) /\ Members(<<>>) = {}
  BY EmptySeq DEF Members
<1>2. QED BY <1>1, QueueHandled DEF Handled

\* The first event of a node is one of those that come.
LEMMA ReadyIsComing ==
    ASSUME Paid, NEW n \in Nodes, NEW k, NEW h \in Swaps, Ready(n, k, h)
    PROVE  /\ queue[n] # <<>>
           /\ n = "maker" => Known("maker", h)
           /\ k \in Paying => h \in paid
<1>1. queue[n] \in Seq(Events) /\ queue[n] # <<>>
  BY DEF Paid, QueueOK, Ready
<1>2. Head(queue[n]) \in Coming(n)
  BY <1>1, MembersOfTail DEF Coming
<1>3. Grounded(n, Head(queue[n]))
  BY <1>2 DEF Paid, QueueOK
<1>4. QED BY <1>1, <1>3 DEF Grounded, Ready

\* An event that LDK makes.
LEMMA EventIsTyped ==
    ASSUME Paid, NEW k \in Kinds, NEW h \in Swaps
    PROVE  /\ Event(k, h) \in Events /\ Event(k, h).swap = h /\ Event(k, h).kind = k
           /\ Event(k, h).try = tries[h]
           /\ k = "HTLCIntercepted" => Event(k, h).terms = legTerms[h]
<1>1. tries[h] \in Nat /\ legTerms[h] \in Terms \cup {None}
  BY SwapsAssumption DEF Paid, LegOK, SwapsAssumption
<1>2. QED BY <1>1 DEF Event, Events

\* A step that leaves events and HTLCs alone, and the handlers of the API.
LEMMA RestKept ==
    ASSUME Paid, Remembers, EventsKept
    PROVE  QueueOK' /\ LegOK' /\ HandlerOK'
BY QueueKept, LegKept, HandlerKept DEF EventsKept, legVars

----------------------------------------------------------------------------
(* The steps *)

\* The requests that write at once.
LEMMA RequestPaid ==
    ASSUME SwapsAssumption, Paid, NEW h \in Swaps, Request(h)
    PROVE  Paid'
<1> USE DEF Nodes, Statuses
<1>1. ASSUME NEW t \in Offered, MakerInit(h, t) PROVE Paid'
  <2>1. now + Lifetime \in Nat /\ t \in Terms
    BY SwapsAssumption DEF SwapsAssumption, Paid, StoreOK
  <2>2. store' \in [Nodes -> SwapMap] /\ Remembers /\ SucceededWasPaid'
    BY <1>1, <2>1, StoreAdded DEF MakerInit, legVars
  <2>3. /\ UNCHANGED <<now, copy>> /\ UNCHANGED <<api, target, asked, todo>>
        /\ EventsKept /\ UNCHANGED <<poisoned, dead, crashes>>
    BY <1>1 DEF EventsKept, MakerInit, apiVars, eventVars
  <2>4. QED BY <2>2, <2>3, ApiKept, RestKept DEF Paid, StoreOK, RestOK
<1>2. ASSUME NEW t \in Terms, Taker(h, t) PROVE Paid'
  <2>1. store["maker"][h].expiry \in Nat
    BY DEF Paid, StoreOK, SwapMap, SwapData, NoSwap
  <2>2. store' \in [Nodes -> SwapMap] /\ Remembers /\ SucceededWasPaid'
    BY <1>2, <2>1, StoreAdded DEF Taker, legVars
  <2>3. /\ UNCHANGED <<now, copy>> /\ UNCHANGED <<api, target, asked, todo>>
        /\ EventsKept /\ UNCHANGED <<poisoned, dead, crashes>>
    BY <1>2 DEF EventsKept, Taker, apiVars, eventVars
  <2>4. QED BY <2>2, <2>3, ApiKept, RestKept DEF Paid, StoreOK, RestOK
<1>3. ASSUME NEW t \in Terms, ExecutePending(h, t) PROVE Paid'
  <2>1. store' \in [Nodes -> SwapMap] /\ Remembers /\ SucceededWasPaid'
    BY <1>3, StoreUpdated DEF ExecutePending, legVars
  <2>2. /\ UNCHANGED <<now, copy>> /\ EventsKept
        /\ UNCHANGED <<poisoned, dead, crashes>>
    BY <1>3 DEF EventsKept, ExecutePending, eventVars
  <2>3. ApiOK'
    <3>1. /\ api["maker"] = "idle" /\ Known("maker", h)
          /\ api' = [api EXCEPT !["maker"] = "send"] /\ UNCHANGED todo
          /\ target' = h /\ asked' = t
      BY <1>3 DEF ExecutePending, ApiFree
    <3>2. QED BY <2>1, <3>1 DEF Paid, ApiOK, Remembers
  <2>4. QED BY <2>1, <2>2, <2>3, RestKept DEF Paid, StoreOK, RestOK
<1>4. CASE ExecuteExpired(h)
  <2>1. store' \in [Nodes -> SwapMap] /\ Remembers /\ SucceededWasPaid'
    BY <1>4, StoreUpdated DEF ExecuteExpired, legVars
  <2>2. /\ UNCHANGED <<now, copy>> /\ UNCHANGED <<api, target, asked, todo>>
        /\ EventsKept /\ UNCHANGED <<poisoned, dead, crashes>>
    BY <1>4 DEF EventsKept, ExecuteExpired, apiVars, eventVars
  <2>3. QED BY <2>1, <2>2, ApiKept, RestKept DEF Paid, StoreOK, RestOK
<1>5. QED BY <1>1, <1>2, <1>3, <1>4 DEF Request

\* The rest of /makerexecute.
LEMMA FinishPaid ==
    ASSUME Paid, FinishMaker
    PROVE  Paid'
<1> USE DEF Nodes, Statuses
<1>0. FinishMaker => /\ target \in Swaps /\ asked \in Terms /\ Known("maker", target)
                     /\ UNCHANGED <<now, copy, todo, queue, handled, verdict, crossed,
                                    poisoned, dead, crashes, paid>>
  BY DEF FinishMaker, ExecuteSend, ExecuteSendFails, ExecuteFailed, Paid, ApiOK,
         eventVars, legVars
<1>1. CASE ExecuteSend
  <2>1. store' \in [Nodes -> SwapMap] /\ Remembers /\ SucceededWasPaid'
    BY <1>0, <1>1, StoreKept DEF ExecuteSend
  <2>2. QueueOK'
    BY <1>0, <2>1, QueueKept
  <2>3. HandlerOK'
    BY <1>0, <2>1, HandlerKept
  <2>4. LegOK'
    <3>1. /\ leg' = [leg EXCEPT ![target] = "toTaker"]
          /\ legTerms' = [legTerms EXCEPT ![target] = asked]
          /\ tries' = [tries EXCEPT ![target] = @ + 1]
          /\ tries[target] < MaxTries
      BY <1>1 DEF ExecuteSend
    <3>2. tries[target] + 1 \in 0 .. MaxTries
      BY <1>0, <3>1, SwapsAssumption DEF Paid, LegOK, SwapsAssumption
    <3>3. /\ leg' \in [Swaps -> Legs] /\ legTerms' \in [Swaps -> Terms \cup {None}]
          /\ tries' \in [Swaps -> 0 .. MaxTries]
      BY <1>0, <3>1, <3>2 DEF Paid, LegOK, Legs
    <3>4. \A g \in Swaps : /\ leg'[g] = IF g = target THEN "toTaker" ELSE leg[g]
                           /\ legTerms'[g] = IF g = target THEN asked ELSE legTerms[g]
      BY <1>0, <3>1 DEF Paid, LegOK
    <3>5. QED BY <1>0, <2>1, <3>3, <3>4 DEF Paid, LegOK, Remembers
  <2>5. ApiOK'
    BY <1>0, <1>1, <2>1 DEF ExecuteSend, Paid, ApiOK, Remembers
  <2>6. QED BY <1>0, <2>1, <2>2, <2>3, <2>4, <2>5 DEF Paid, StoreOK, RestOK
<1>2. CASE ExecuteSendFails
  <2>1. store' \in [Nodes -> SwapMap] /\ Remembers /\ SucceededWasPaid'
    BY <1>0, <1>2, StoreKept DEF ExecuteSendFails
  <2>2. QueueOK' /\ LegOK' /\ HandlerOK'
    BY <1>0, <1>2, <2>1, RestKept DEF ExecuteSendFails, EventsKept
  <2>3. ApiOK'
    BY <1>0, <1>2, <2>1 DEF ExecuteSendFails, Paid, ApiOK, Remembers
  <2>4. QED BY <1>0, <2>1, <2>2, <2>3 DEF Paid, StoreOK, RestOK
<1>3. CASE ExecuteFailed
  <2>1. store' \in [Nodes -> SwapMap] /\ Remembers /\ SucceededWasPaid'
    BY <1>0, <1>3, StoreUpdated DEF ExecuteFailed
  <2>2. QueueOK' /\ LegOK' /\ HandlerOK'
    BY <1>0, <1>3, <2>1, RestKept DEF ExecuteFailed, EventsKept
  <2>3. ApiOK'
    BY <1>0, <1>3, <2>1 DEF ExecuteFailed, Paid, ApiOK, Remembers
  <2>4. QED BY <1>0, <2>1, <2>2, <2>3 DEF Paid, StoreOK, RestOK
<1>4. QED BY <1>1, <1>2, <1>3 DEF FinishMaker

\* /listswaps and /getswap: they write Expired or Failed, of a swap they have seen.
LEMMA ListPaid ==
    ASSUME Paid, NEW n \in Nodes, FinishList(n) \/ \E hs \in SUBSET Swaps : ListSwaps(n, hs)
    PROVE  Paid'
<1>1. ASSUME NEW h \in Swaps, MapSwap(n, h) PROVE Paid'
  <2> DEFINE s == Aged(copy[n][h])
  <2>1. /\ UNCHANGED <<now, target, asked>> /\ EventsKept
        /\ UNCHANGED <<poisoned, dead, crashes>> /\ UNCHANGED paid
        /\ h \in todo[n] /\ ListEnds(n, h)
    BY <1>1 DEF EventsKept, MapSwap, eventVars, legVars
  <2>2. store' \in [Nodes -> SwapMap] /\ Remembers /\ SucceededWasPaid'
    <3>1. CASE s # copy[n][h].status /\ n \notin poisoned
      <4>1. UpdateStatus(n, h, s)
        BY <1>1, <3>1 DEF MapSwap
      <4>2. s \in {"Expired", "Failed"}
        BY <3>1 DEF Aged
      <4>3. Known(n, h)
        BY <2>1 DEF Paid, ApiOK
      <4> HIDE DEF s
      <4>4. QED BY <2>1, <4>1, <4>2, <4>3, StoreUpdated DEF Statuses
    <3>2. CASE ~(s # copy[n][h].status /\ n \notin poisoned)
      <4>1. UNCHANGED store
        BY <1>1, <3>2 DEF MapSwap
      <4>2. QED BY <2>1, <4>1, StoreKept
    <3>3. QED BY <3>1, <3>2
  <2> HIDE DEF s
  <2>3. copy' \in [Nodes -> SwapMap]
    <3>1. Empty \in SwapMap
      BY DEF Empty, SwapMap
    <3>2. copy' = copy \/ copy' = [copy EXCEPT ![n] = Empty]
      BY <2>1 DEF ListEnds
    <3>3. QED BY <3>1, <3>2 DEF Paid, StoreOK
  <2>4. ApiOK'
    <3>1. /\ todo' = [todo EXCEPT ![n] = @ \ {h}]
          /\ \/ todo[n] = {h} /\ api' = [api EXCEPT ![n] = "idle"]
             \/ todo[n] # {h} /\ api' = api
      BY <2>1 DEF ListEnds
    <3>2. api[n] = "list"
      BY <2>1 DEF Paid, ApiOK
    <3>3. /\ api' \in [Nodes -> {"idle", "send", "refused", "list"}]
          /\ todo' \in [Nodes -> SUBSET Swaps]
      BY <3>1 DEF Paid, ApiOK
    <3>4. \A m \in Nodes : todo'[m] = IF m = n THEN todo[n] \ {h} ELSE todo[m]
      BY <3>1 DEF Paid, ApiOK
    <3>5. \A m \in Nodes : m # n => api'[m] = api[m]
      BY <3>1 DEF Paid, ApiOK
    <3>6. api'[n] = IF todo[n] = {h} THEN "idle" ELSE "list"
      BY <3>1, <3>2 DEF Paid, ApiOK
    <3>7. \A m \in Nodes : api'[m] = "list" <=> todo'[m] # {}
      BY <2>1, <3>4, <3>5, <3>6 DEF Paid, ApiOK
    <3>8. api'["maker"] \in {"send", "refused"} => api["maker"] \in {"send", "refused"}
      BY <3>5, <3>6 DEF Nodes
    <3>9. QED BY <2>1, <2>2, <3>3, <3>4, <3>7, <3>8 DEF Paid, ApiOK, Remembers, Nodes
  <2>5. QED BY <2>1, <2>2, <2>3, <2>4, RestKept DEF Paid, StoreOK, RestOK
<1>2. ASSUME NEW hs \in SUBSET Swaps, ListSwaps(n, hs) PROVE Paid'
  <2>1. /\ UNCHANGED <<now, target, asked>> /\ EventsKept
        /\ UNCHANGED <<poisoned, dead, crashes>> /\ UNCHANGED <<store, paid>>
        /\ copy' = [copy EXCEPT ![n] = store[n]]
        /\ todo' = [todo EXCEPT ![n] = hs] /\ hs # {}
        /\ api[n] = "idle" /\ api' = [api EXCEPT ![n] = "list"]
        /\ \A h \in hs : Known(n, h)
    BY <1>2 DEF EventsKept, ListSwaps, ApiFree, eventVars, legVars
  <2>2. store' \in [Nodes -> SwapMap] /\ Remembers /\ SucceededWasPaid'
    BY <2>1, StoreKept
  <2>3. copy' \in [Nodes -> SwapMap]
    BY <2>1 DEF Paid, StoreOK
  <2>4. ApiOK'
    <3>1. /\ api' \in [Nodes -> {"idle", "send", "refused", "list"}]
          /\ todo' \in [Nodes -> SUBSET Swaps]
          /\ \A m \in Nodes : todo'[m] = IF m = n THEN hs ELSE todo[m]
          /\ \A m \in Nodes : api'[m] = IF m = n THEN "list" ELSE api[m]
      BY <2>1 DEF Paid, ApiOK
    <3>2. QED BY <2>1, <2>2, <3>1 DEF Paid, ApiOK, Remembers, Nodes
  <2>5. QED BY <2>1, <2>2, <2>3, <2>4, RestKept DEF Paid, StoreOK, RestOK
<1>3. QED BY <1>1, <1>2 DEF FinishList

\* An answer of the taker: the HTLC is failed or forwarded, the event is done.
LEMMA AnswerPaid ==
    ASSUME Paid, NEW h \in Swaps, NEW v, Intercepting(h, v), Handled("taker"),
           NEW to \in {"failing", "toMaker"}, leg' = [leg EXCEPT ![h] = to], leg[h] = "held",
           UNCHANGED <<now, store, apiVars, poisoned, legTerms, tries, paid, crossed, crashes>>
    PROVE  Paid'
<1>1. /\ queue["taker"] # <<>>
      /\ UNCHANGED <<now, copy>> /\ UNCHANGED <<api, target, asked, todo>>
      /\ UNCHANGED <<legTerms, tries, paid>> /\ UNCHANGED <<poisoned, dead, crashes>>
  BY DEF Intercepting, Ready, apiVars, Handled, HandledWith
<1>2. store' \in [Nodes -> SwapMap] /\ Remembers /\ SucceededWasPaid'
  BY StoreKept
<1>3. QueueOK'
  BY <1>1, <1>2, QueueDone DEF Nodes
<1>4. HandlerOK'
  BY HandlerDone
<1>5. LegOK'
  <2>1. /\ leg' \in [Swaps -> Legs]
        /\ \A g \in Swaps : leg'[g] = IF g = h THEN to ELSE leg[g]
    BY DEF Paid, LegOK, Legs
  <2>2. QED BY <1>1, <1>2, <2>1 DEF Paid, LegOK, Remembers, Nodes
<1>6. QED BY <1>1, <1>2, <1>3, <1>4, <1>5, ApiKept DEF Paid, StoreOK, RestOK

\* A step of the taker's handler that leaves the event the first.
LEMMA HandlingPaid ==
    ASSUME Paid, NEW h \in Swaps, NEW v, Intercepting(h, v), NEW w \in Verdicts,
           verdict' = w, w # "none" => Known("taker", h),
           crossed' \subseteq crossed, dead' \subseteq Nodes, poisoned' \subseteq Nodes,
           UNCHANGED <<now, apiVars, queue, handled, legVars, crashes>>,
           store' \in [Nodes -> SwapMap], Remembers, SucceededWasPaid'
    PROVE  Paid'
<1>1. /\ UNCHANGED <<now, copy>> /\ UNCHANGED <<api, target, asked, todo>>
      /\ UNCHANGED <<leg, legTerms, tries, paid>> /\ UNCHANGED <<queue, handled>>
  BY DEF apiVars, legVars
<1>2. HandlerOK'
  BY <1>1 DEF Paid, HandlerOK, Intercepting, Ready, Remembers, Nodes
<1>3. QED BY <1>1, <1>2, ApiKept, QueueKept, LegKept DEF Paid, StoreOK, RestOK

\* The taker's events: it takes a swap for done only after PaymentForwarded.
LEMMA TakerPaid ==
    ASSUME Paid, NEW h \in Swaps, HandleTaker(h)
    PROVE  Paid'
<1> USE DEF Nodes, Statuses
<1>1. CASE InterceptUnknown(h)
  BY <1>1, AnswerPaid DEF InterceptUnknown, StillHeld
<1>2. CASE InterceptAnswer(h)
  <2>1. CASE InterceptAnswers(h, "pending", "toMaker")
    BY <2>1, AnswerPaid DEF InterceptAnswers, StillHeld
  <2>2. CASE InterceptAnswers(h, "failed", "failing")
    BY <2>2, AnswerPaid DEF InterceptAnswers, StillHeld
  <2>3. QED BY <1>2, <2>1, <2>2 DEF InterceptAnswer
<1>3. CASE InterceptUnknownLate(h)
  <2>1. /\ Intercepting(h, "none") /\ UNCHANGED <<store, paid, verdict, crossed>>
        /\ UNCHANGED <<now, apiVars, queue, handled, legVars, crashes>>
        /\ dead' \subseteq Nodes /\ poisoned' \subseteq Nodes /\ verdict = "none"
    BY <1>3 DEF InterceptUnknownLate, Intercepting, legVars, Paid, RestOK
  <2>2. store' \in [Nodes -> SwapMap] /\ Remembers /\ SucceededWasPaid'
    BY <2>1, StoreKept
  <2>3. QED BY <2>1, <2>2, HandlingPaid DEF Verdicts
<1>4. CASE InterceptCompare(h)
  <2>1. /\ Intercepting(h, "none") /\ Known("taker", h) /\ UNCHANGED <<store, paid>>
        /\ verdict' \in Verdicts /\ crossed' \subseteq crossed
        /\ UNCHANGED <<now, apiVars, queue, handled, legVars, crashes>>
        /\ dead' \subseteq Nodes /\ poisoned' \subseteq Nodes
    BY <1>4 DEF InterceptCompare, legVars, Paid, RestOK, Verdicts
  <2>2. store' \in [Nodes -> SwapMap] /\ Remembers /\ SucceededWasPaid'
    BY <2>1, StoreKept
  <2>3. QED BY <2>1, <2>2, HandlingPaid
<1>5. CASE InterceptWrite(h)
  <2>1. PICK v \in Verdicts \ {"none"}, s \in {"Pending", "Failed"},
             w \in {"pending", "failed"} : InterceptWrites(h, v, s, w)
    BY <1>5 DEF InterceptWrite, Verdicts
  <2>2. Known("taker", h)
    BY <2>1 DEF InterceptWrites, Intercepting, Ready, Paid, HandlerOK
  <2>3. /\ Intercepting(h, v) /\ verdict' = w /\ UNCHANGED <<paid, crossed>>
        /\ UNCHANGED <<now, apiVars, queue, handled, legVars, crashes>>
        /\ dead' \subseteq Nodes /\ poisoned' \subseteq Nodes
    BY <2>1 DEF InterceptWrites, legVars, Paid, RestOK
  <2>4. store' \in [Nodes -> SwapMap] /\ Remembers /\ SucceededWasPaid'
    BY <2>1, <2>2, <2>3, StoreUpdated DEF InterceptWrites
  <2>5. QED BY <2>2, <2>3, <2>4, HandlingPaid DEF Verdicts
<1>6. CASE InterceptLate(h)
  <2>1. PICK v : Intercepting(h, v)
    BY <1>6 DEF InterceptLate
  <2>2. /\ UNCHANGED <<store, paid, crossed>> /\ verdict' = "none"
        /\ UNCHANGED <<now, apiVars, queue, handled, legVars, crashes>>
        /\ dead' \subseteq Nodes /\ poisoned' \subseteq Nodes
    BY <1>6 DEF InterceptLate, legVars, Paid, RestOK
  <2>3. store' \in [Nodes -> SwapMap] /\ Remembers /\ SucceededWasPaid'
    BY <2>2, StoreKept
  <2>4. QED BY <2>1, <2>2, <2>3, HandlingPaid DEF Verdicts
<1>7. CASE PaymentForwarded(h)
  <2>1. /\ UNCHANGED <<now, copy>> /\ UNCHANGED <<api, target, asked, todo>>
        /\ UNCHANGED <<leg, legTerms, tries, paid>>
        /\ UNCHANGED <<poisoned, dead, crossed, crashes>>
        /\ Handled("taker") /\ Ready("taker", "PaymentForwarded", h)
    BY <1>7 DEF PaymentForwarded, apiVars, legVars, Handled, HandledWith
  <2>2. queue["taker"] # <<>> /\ h \in paid
    BY <2>1, ReadyIsComing DEF Paying
  <2>3. store' \in [Nodes -> SwapMap] /\ Remembers /\ SucceededWasPaid'
    <3>1. CASE Known("taker", h)
      BY <1>7, <2>1, <2>2, <3>1, StoreUpdated DEF PaymentForwarded
    <3>2. CASE ~Known("taker", h)
      BY <1>7, <2>1, <3>2, StoreKept DEF PaymentForwarded
    <3>3. QED BY <3>1, <3>2
  <2>4. QueueOK'
    BY <2>1, <2>2, <2>3, QueueDone
  <2>5. QED BY <2>1, <2>3, <2>4, ApiKept, LegKept, HandlerDone DEF Paid, StoreOK, RestOK
<1>8. QED BY <1>1, <1>2, <1>3, <1>4, <1>5, <1>6, <1>7 DEF HandleTaker

\* The maker's events: PaymentClaimed follows the claim.
LEMMA MakerPaid ==
    ASSUME Paid, NEW h \in Swaps, HandleMaker(h)
    PROVE  Paid'
<1> USE DEF Nodes, Statuses
<1>1. CASE PaymentClaimable(h)
  <2>1. /\ UNCHANGED <<now, store, copy>> /\ UNCHANGED <<api, target, asked, todo>>
        /\ UNCHANGED <<legTerms, tries>> /\ UNCHANGED <<poisoned, dead, verdict, crossed, crashes>>
        /\ \E q : queue' = [queue EXCEPT !["maker"] = q]
        /\ Ready("maker", "PaymentClaimable", h)
    BY <1>1 DEF PaymentClaimable, apiVars, Handled, HandledWith
  <2>2. queue["maker"] # <<>> /\ Known("maker", h)
    BY <2>1, ReadyIsComing
  <2>3. CASE leg[h] = "arrived"
    <3>1. /\ leg' = [leg EXCEPT ![h] = "claimed"] /\ paid' = paid \cup {h}
          /\ HandledWith("maker", <<Event("PaymentClaimed", h)>>)
      BY <1>1, <2>3 DEF PaymentClaimable
    <3>2. store' \in [Nodes -> SwapMap] /\ Remembers /\ SucceededWasPaid'
      BY <2>1, <3>1, StoreKept
    <3>3. QueueOK'
      <4>0. PICK e : e = Event("PaymentClaimed", h)
        OBVIOUS
      <4>1. e \in Events /\ e.swap = h /\ e.kind = "PaymentClaimed"
        BY <4>0, EventIsTyped DEF Kinds
      <4>2. <<e>> \in Seq(Events) /\ Members(<<e>>) = {e}
        BY <4>1 DEF Members
      <4>3. Grounded("maker", e)'
        BY <2>2, <3>1, <3>2, <4>1 DEF Grounded, Remembers
      <4>4. HandledWith("maker", <<e>>)
        BY <3>1, <4>0
      <4>5. QED BY <2>2, <3>2, <4>2, <4>3, <4>4, QueueHandled
    <3>4. LegOK'
      <4>1. /\ leg' \in [Swaps -> Legs]
            /\ \A g \in Swaps : leg'[g] = IF g = h THEN "claimed" ELSE leg[g]
        BY <3>1 DEF Paid, LegOK, Legs
      <4>2. legTerms[h] \in Terms
        BY <2>3 DEF Paid, LegOK
      <4>3. QED BY <2>1, <2>2, <3>1, <3>2, <4>1, <4>2 DEF Paid, LegOK, Remembers
    <3>5. QED BY <2>1, <3>2, <3>3, <3>4, ApiKept, HandlerKept DEF Paid, StoreOK, RestOK
  <2>4. CASE leg[h] # "arrived"
    <3>1. Handled("maker") /\ UNCHANGED <<leg, legTerms, tries, paid>>
      BY <1>1, <2>4 DEF PaymentClaimable
    <3>2. store' \in [Nodes -> SwapMap] /\ Remembers /\ SucceededWasPaid'
      BY <2>1, <3>1, StoreKept
    <3>3. QueueOK'
      BY <2>2, <3>1, <3>2, QueueDone
    <3>4. QED BY <2>1, <3>1, <3>2, <3>3, ApiKept, LegKept, HandlerKept DEF Paid, StoreOK, RestOK
  <2>5. QED BY <2>3, <2>4
<1>2. ASSUME NEW k \in {"PaymentClaimed", "PaymentSent", "PaymentFailed"},
             NEW s \in {"Succeeded", "Failed"},
             Ready("maker", k, h), s = "Succeeded" => k # "PaymentFailed",
             UpdateStatus("maker", h, s), Handled("maker"),
             UNCHANGED <<now, apiVars, poisoned, legVars, crossed, crashes>>
      PROVE  Paid'
  <2>1. queue["maker"] # <<>> /\ Known("maker", h) /\ s = "Succeeded" => h \in paid
    BY <1>2, ReadyIsComing DEF Paying
  <2>2. queue["maker"] # <<>> /\ Known("maker", h)
    BY <1>2, ReadyIsComing
  <2>3. /\ UNCHANGED <<now, copy>> /\ UNCHANGED <<api, target, asked, todo>>
        /\ UNCHANGED <<leg, legTerms, tries, paid>>
        /\ UNCHANGED <<poisoned, dead, verdict, crossed, crashes>>
        /\ \E q : queue' = [queue EXCEPT !["maker"] = q]
    BY <1>2 DEF apiVars, legVars, Handled, HandledWith
  <2>4. store' \in [Nodes -> SwapMap] /\ Remembers /\ SucceededWasPaid'
    BY <1>2, <2>1, <2>2, <2>3, StoreUpdated
  <2>5. QueueOK'
    BY <1>2, <2>2, <2>4, QueueDone
  <2>6. QED BY <2>3, <2>4, <2>5, ApiKept, LegKept, HandlerKept DEF Paid, StoreOK, RestOK
<1>3. CASE PaymentSucceeded(h)
  <2>1. PICK k \in {"PaymentClaimed", "PaymentSent"} : Ready("maker", k, h)
    BY <1>3 DEF PaymentSucceeded
  <2>2. QED BY <1>2, <1>3, <2>1 DEF PaymentSucceeded
<1>4. CASE PaymentFailed(h)
  BY <1>2, <1>4 DEF PaymentFailed
<1>5. CASE PoisonedStore(h)
  <2>1. /\ UNCHANGED <<now, store, copy>> /\ UNCHANGED <<api, target, asked, todo>>
        /\ EventsKept /\ UNCHANGED <<paid, poisoned, crashes>>
        /\ dead' = dead \cup {"maker"}
    BY <1>5 DEF EventsKept, PoisonedStore, apiVars, legVars
  <2>2. store' \in [Nodes -> SwapMap] /\ Remembers /\ SucceededWasPaid'
    BY <2>1, StoreKept
  <2>3. QED BY <2>1, <2>2, ApiKept, RestKept DEF Paid, StoreOK, RestOK
<1>6. QED BY <1>1, <1>3, <1>4, <1>5 DEF HandleMaker

\* LDK moves the HTLC: it returns only when it was claimed.
LEMMA NetworkPaid ==
    ASSUME Paid, NEW h \in Swaps, Network(h)
    PROVE  Paid'
<1>1. /\ UNCHANGED <<now, store, copy>> /\ UNCHANGED <<api, target, asked, todo>>
      /\ UNCHANGED <<handled, legTerms, tries, paid>>
      /\ UNCHANGED <<poisoned, dead, verdict, crossed, crashes>>
  BY DEF Network, apiVars
<1>2. store' \in [Nodes -> SwapMap] /\ Remembers /\ SucceededWasPaid'
  BY <1>1, StoreKept
<1>3. PICK to \in Legs :
        /\ leg' = [leg EXCEPT ![h] = to]
        /\ to \in {"returning", "done"} => leg[h] \in {"claimed", "returning"}
        /\ to # "claimed" /\ leg[h] # "none"
  BY DEF Network, InterceptHtlc, HtlcFails, HtlcArrives, FulfilTaker, FulfilMaker,
         FailMaker, Forget, Moves, Legs
<1>4. LegOK'
  <2>1. /\ leg' \in [Swaps -> Legs]
        /\ \A g \in Swaps : leg'[g] = IF g = h THEN to ELSE leg[g]
    BY <1>3 DEF Paid, LegOK
  <2>2. QED BY <1>1, <1>2, <1>3, <2>1 DEF Paid, LegOK, Remembers, Nodes
<1>5. Known("maker", h) /\ legTerms[h] \in Terms
  BY <1>3 DEF Paid, LegOK
<1>6. ASSUME NEW n \in Nodes, NEW k \in Kinds, Push(n, Event(k, h)),
             k \in Paying => h \in paid, k = "HTLCIntercepted" => n = "taker"
      PROVE  QueueOK' /\ HandlerOK'
  <2>1. /\ Event(k, h) \in Events /\ Event(k, h).swap = h /\ Event(k, h).kind = k
        /\ k = "HTLCIntercepted" => Event(k, h).terms = legTerms[h]
    BY EventIsTyped
  <2>2. PICK e : /\ e \in Events /\ e.swap = h /\ e.kind = k /\ Push(n, e)
                 /\ k = "HTLCIntercepted" => e.terms \in Terms
    <3>1. PICK e : e = Event(k, h)
      OBVIOUS
    <3>2. QED BY <1>5, <1>6, <2>1, <3>1
  <2>3. Grounded(n, e)'
    BY <1>1, <1>2, <1>5, <1>6, <2>2 DEF Grounded, Remembers, Nodes
  <2>4. HandlerOK'
    BY <1>1, <1>2, <2>2, HandlerKept DEF Nodes
  <2>5. QED BY <1>1, <1>2, <2>2, <2>3, <2>4, QueuePushed
<1>7. QueueOK' /\ HandlerOK'
  <2>1. CASE UNCHANGED queue
    BY <1>1, <1>2, <2>1, QueueKept, HandlerKept
  <2>2. CASE InterceptHtlc(h)
    BY <1>6, <2>2 DEF InterceptHtlc, Nodes, Kinds, Paying
  <2>3. CASE HtlcArrives(h)
    BY <1>6, <2>3 DEF HtlcArrives, Nodes, Kinds, Paying
  <2>4. CASE FulfilTaker(h)
    <3>1. h \in paid
      BY <2>4 DEF FulfilTaker, Moves, Paid, LegOK
    <3>2. QED BY <1>6, <2>4, <3>1 DEF FulfilTaker, Nodes, Kinds
  <2>5. CASE FulfilMaker(h)
    <3>1. h \in paid
      BY <2>5 DEF FulfilMaker, Moves, Paid, LegOK
    <3>2. QED BY <1>6, <2>5, <3>1 DEF FulfilMaker, Nodes, Kinds
  <2>6. CASE FailMaker(h)
    BY <1>6, <2>6 DEF FailMaker, Nodes, Kinds, Paying
  <2>7. QED BY <2>1, <2>2, <2>3, <2>4, <2>5, <2>6 DEF Network, HtlcFails, Forget
<1>8. QED BY <1>1, <1>2, <1>4, <1>7, ApiKept DEF Paid, StoreOK, RestOK

\* A restart: what is delivered again was handled before, and an HTLC it brings back
\* to the taker was there.
LEMMA CrashPaid ==
    ASSUME SwapsAssumption, Paid, NEW n \in Nodes, Crash(n)
    PROVE  Paid'
<1> DEFINE Unanswered(e) == /\ e.kind = "HTLCIntercepted" /\ e.try = tries[e.swap]
                            /\ leg[e.swap] \in {"toMaker", "failing"}
           kept == {i \in DOMAIN handled[n] : handled[n][i].kind = "HTLCIntercepted"
                                              => Unanswered(handled[n][i])}
           again == Pick(handled[n], kept)
           held == {e.swap : e \in {d \in Members(again) : Unanswered(d)}}
<1>1. /\ UNCHANGED <<now, store, legTerms, tries, paid>>
      /\ crashes < MaxCrashes /\ crashes' = crashes + 1
      /\ queue' = [queue EXCEPT ![n] = again \o @]
      /\ leg' = [h \in Swaps |-> IF h \in held THEN "held" ELSE leg[h]]
      /\ handled' = [m \in Nodes |->
                    IF m = n \/ crashes + 1 = MaxCrashes THEN <<>> ELSE handled[m]]
      /\ dead' = dead \ {n} /\ poisoned' = poisoned \ {n}
      /\ api' = [api EXCEPT ![n] = "idle"]
      /\ copy' = [copy EXCEPT ![n] = Empty] /\ todo' = [todo EXCEPT ![n] = {}]
      /\ \/ n = "maker" /\ target' = None /\ asked' = None
         \/ n # "maker" /\ UNCHANGED <<target, asked>>
      /\ verdict' = (IF n = "taker" THEN "none" ELSE verdict) /\ UNCHANGED crossed
  BY DEF Crash
<1>2. store' \in [Nodes -> SwapMap] /\ Remembers /\ SucceededWasPaid'
  BY <1>1, StoreKept
<1>3. copy' \in [Nodes -> SwapMap]
  <2>1. Empty \in SwapMap
    BY DEF Empty, SwapMap
  <2>2. QED BY <1>1, <2>1 DEF Paid, StoreOK
<1>4. again \in Seq(Events) /\ Members(again) \subseteq Members(handled[n])
  <2>1. handled[n] \in Seq(Events)
    BY DEF Paid, QueueOK
  <2>2. kept \in SUBSET (1 .. Len(handled[n]))
    BY <2>1
  <2> HIDE DEF kept
  <2>3. /\ Pick(handled[n], kept) \in Seq(Events)
        /\ Members(Pick(handled[n], kept)) = {handled[n][i] : i \in kept}
    BY <2>1, <2>2, PickProperties
  <2>4. QED BY <2>2, <2>3 DEF Members
<1>5. \A h \in held : h \in Swaps /\ leg[h] # "none"
  <2>1. \A e \in Members(again) : e.swap \in Swaps
    <3> HIDE DEF again
    <3>1. Members(again) \subseteq Coming(n)
      BY <1>4 DEF Coming
    <3>2. QED BY <3>1 DEF Paid, QueueOK, Grounded, Events
  <2> HIDE DEF again
  <2>2. QED BY <2>1
<1> HIDE DEF held, again, kept, Unanswered
<1>6. LegOK'
  <2>1. leg' \in [Swaps -> Legs]
    BY <1>1 DEF Paid, LegOK, Legs
  <2>2. QED BY <1>1, <1>2, <1>5, <2>1 DEF Paid, LegOK, Remembers, Nodes
<1>7. QueueOK'
  <2>1. queue[n] \in Seq(Events)
    BY DEF Paid, QueueOK
  <2>2. /\ again \o queue[n] \in Seq(Events)
        /\ Members(again \o queue[n]) \subseteq Coming(n)
    BY <1>4, <2>1, MembersOfConcat DEF Coming
  <2>3. /\ queue' \in [Nodes -> Seq(Events)]
        /\ \A m \in Nodes : queue'[m] = IF m = n THEN again \o queue[n] ELSE queue[m]
    BY <1>1, <2>2 DEF Paid, QueueOK
  <2>4. <<>> \in Seq(Events) /\ Members(<<>>) = {}
    BY EmptySeq DEF Members
  <2>5. /\ handled' \in [Nodes -> Seq(Events)]
        /\ \A m \in Nodes : handled'[m] \in {<<>>, handled[m]}
    BY <1>1, <2>4 DEF Paid, QueueOK
  <2>6. \A m \in Nodes : Members(handled'[m]) \subseteq Members(handled[m])
    BY <2>4, <2>5
  <2>7. \A m \in Nodes : Coming(m)' \subseteq Coming(m)
    BY <2>2, <2>3, <2>6 DEF Coming
  <2>8. QED BY <1>2, <2>3, <2>5, <2>7, GroundedKept DEF Paid, QueueOK
<1>8. ApiOK'
  <2>1. /\ api' \in [Nodes -> {"idle", "send", "refused", "list"}]
        /\ todo' \in [Nodes -> SUBSET Swaps]
        /\ \A m \in Nodes : todo'[m] = IF m = n THEN {} ELSE todo[m]
        /\ \A m \in Nodes : api'[m] = IF m = n THEN "idle" ELSE api[m]
    BY <1>1 DEF Paid, ApiOK
  <2>2. QED BY <1>1, <1>2, <2>1 DEF Paid, ApiOK, Remembers, Nodes
<1>9. RestOK'
  BY <1>1 DEF Paid, RestOK, SwapsAssumption
<1>10. HandlerOK'
  <2>1. CASE n = "taker"
    BY <1>1, <2>1 DEF Paid, HandlerOK, Verdicts
  <2>2. CASE n = "maker"
    <3>1. UNCHANGED verdict /\ UNCHANGED crossed
      BY <1>1, <2>2
    <3>2. \E q : queue' = [queue EXCEPT !["maker"] = q]
      BY <1>1, <2>2
    <3>3. QED BY <1>2, <3>1, <3>2, HandlerKept
  <2>3. QED BY <2>1, <2>2 DEF Nodes
<1>11. QED BY <1>1, <1>2, <1>3, <1>6, <1>7, <1>8, <1>9, <1>10 DEF Paid, StoreOK

----------------------------------------------------------------------------
LEMMA InitPaid == SwapsAssumption /\ Init => Paid
<1> SUFFICES ASSUME SwapsAssumption, Init
             PROVE  Paid
  OBVIOUS
<1> USE DEF Nodes
<1>1. Empty \in SwapMap /\ \A h \in Swaps : Empty[h].status = "none"
  BY DEF Empty, SwapMap, NoSwap
<1>2. StoreOK
  BY <1>1 DEF Init, StoreOK, SwapsAssumption
<1>3. ApiOK
  BY DEF Init, ApiOK
<1>4. QueueOK
  <2>1. <<>> \in Seq(Events) /\ Members(<<>>) = {}
    BY EmptySeq DEF Members
  <2>2. QED BY <2>1 DEF Init, QueueOK, Coming
<1>5. LegOK
  BY DEF Init, LegOK, Legs, SwapsAssumption
<1>6. RestOK /\ HandlerOK
  BY DEF Init, RestOK, HandlerOK, Verdicts, SwapsAssumption
<1>7. SucceededWasPaid
  BY <1>1 DEF Init, SucceededWasPaid
<1>8. QED BY <1>2, <1>3, <1>4, <1>5, <1>6, <1>7 DEF Paid

LEMMA StepPaid == SwapsAssumption /\ Paid /\ [Next]_vars => Paid'
<1> SUFFICES ASSUME SwapsAssumption, Paid, [Next]_vars
             PROVE  Paid'
  OBVIOUS
<1>1. ASSUME NEW h \in Swaps, Request(h) \/ HandleTaker(h) \/ HandleMaker(h) \/ Network(h)
      PROVE  Paid'
  BY <1>1, RequestPaid, TakerPaid, MakerPaid, NetworkPaid
<1>2. CASE ExecuteUnknown
  <2>1. /\ UNCHANGED <<now, store, copy>> /\ UNCHANGED <<api, target, asked, todo>>
        /\ EventsKept /\ UNCHANGED <<paid, dead, crashes>>
        /\ poisoned' = poisoned \cup {"maker"}
    BY <1>2 DEF EventsKept, ExecuteUnknown, apiVars, eventVars, legVars
  <2>2. store' \in [Nodes -> SwapMap] /\ Remembers /\ SucceededWasPaid'
    BY <2>1, StoreKept
  <2>3. QED BY <2>1, <2>2, ApiKept, RestKept DEF Paid, StoreOK, RestOK, Nodes
<1>3. CASE FinishMaker
  BY <1>3, FinishPaid
<1>4. ASSUME NEW n \in Nodes, FinishList(n) \/ \E hs \in SUBSET Swaps : ListSwaps(n, hs)
      PROVE  Paid'
  BY <1>4, ListPaid
<1>5. ASSUME NEW n \in Nodes, Persist(n) PROVE Paid'
  <2>1. /\ UNCHANGED <<now, store, copy>> /\ UNCHANGED <<api, target, asked, todo>>
        /\ UNCHANGED <<leg, legTerms, tries, paid>>
        /\ UNCHANGED <<poisoned, dead, verdict, crossed, crashes, queue>>
        /\ handled' = [handled EXCEPT ![n] = <<>>]
    BY <1>5 DEF Persist, apiVars, legVars
  <2>2. store' \in [Nodes -> SwapMap] /\ Remembers /\ SucceededWasPaid'
    BY <2>1, StoreKept
  <2>3. QueueOK'
    <3>1. <<>> \in Seq(Events) /\ Members(<<>>) = {}
      BY EmptySeq DEF Members
    <3>2. /\ handled' \in [Nodes -> Seq(Events)]
          /\ \A m \in Nodes : handled'[m] \in {<<>>, handled[m]}
      BY <2>1, <3>1 DEF Paid, QueueOK
    <3>3. \A m \in Nodes : Coming(m)' \subseteq Coming(m)
      BY <2>1, <3>1, <3>2 DEF Coming
    <3>4. QED BY <2>1, <2>2, <3>2, <3>3, GroundedKept DEF Paid, QueueOK
  <2>4. QED BY <2>1, <2>2, <2>3, ApiKept, LegKept, HandlerKept DEF Paid, StoreOK, RestOK
<1>6. ASSUME NEW n \in Nodes, Crash(n) PROVE Paid'
  BY <1>6, CrashPaid
<1>7. CASE Tick
  <2>1. /\ UNCHANGED <<store, copy>> /\ UNCHANGED <<api, target, asked, todo>>
        /\ EventsKept /\ UNCHANGED <<paid, poisoned, dead, crashes>>
        /\ now < MaxTime /\ now' = now + 1
    BY <1>7 DEF EventsKept, Tick, apiVars, eventVars, legVars
  <2>2. store' \in [Nodes -> SwapMap] /\ Remembers /\ SucceededWasPaid'
    BY <2>1, StoreKept
  <2>3. now' \in 0 .. MaxTime
    BY <2>1 DEF Paid, StoreOK, SwapsAssumption
  <2>4. QED BY <2>1, <2>2, <2>3, ApiKept, RestKept DEF Paid, StoreOK, RestOK
<1>8. CASE UNCHANGED vars
  <2>1. /\ UNCHANGED <<now, store, copy>> /\ UNCHANGED <<api, target, asked, todo>>
        /\ EventsKept
        /\ UNCHANGED <<paid, poisoned, dead, crashes>>
    BY <1>8 DEF EventsKept, vars, apiVars, eventVars, legVars
  <2>2. store' \in [Nodes -> SwapMap] /\ Remembers /\ SucceededWasPaid'
    BY <2>1, StoreKept
  <2>3. QED BY <2>1, <2>2, ApiKept, RestKept DEF Paid, StoreOK, RestOK
<1>9. QED
  BY <1>1, <1>2, <1>3, <1>4, <1>5, <1>6, <1>7, <1>8 DEF Next

LEMMA InvariantPaid == Spec => []Paid
<1>1. Init => Paid
  BY InitPaid, SwapsAssumption
<1>2. Paid /\ [Next]_vars => Paid'
  BY StepPaid, SwapsAssumption
<1>3. QED BY <1>1, <1>2, PTL DEF Spec

\* Every reachable state is well typed: in particular a status is only ever written
\* to a swap that the store has, so update_maker_swap_status and
\* update_taker_swap_status find the entry they unwrap wherever the model calls them.
THEOREM TypeCorrect == Spec => []TypeOK
<1>1. Paid => TypeOK
  BY DEF Paid, TypeOK, StoreOK, ApiOK, QueueOK, LegOK, HandlerOK, RestOK
<1>2. QED BY <1>1, InvariantPaid, PTL

\* Neither store calls a swap Succeeded unless the HTLC was claimed, for any swaps,
\* interleavings of the three writers of a store, redelivered events and crashes.
THEOREM SucceededWasPaidHolds == Spec => []SucceededWasPaid
<1>1. Paid => SucceededWasPaid
  BY DEF Paid
<1>2. QED BY <1>1, InvariantPaid, PTL

----------------------------------------------------------------------------
(* The order of the interceptions of a swap *)

Intercepted(e) == e.kind = "HTLCIntercepted"

\* Of two interceptions of a swap the earlier is of an earlier payment.
Before(d, e) == Intercepted(d) /\ Intercepted(e) /\ d.swap = e.swap => d.try < e.try

Increasing(s) == \A i, j \in 1 .. Len(s) : i < j => Before(s[i], s[j])

Precedes(s, t) == \A d \in Members(s), e \in Members(t) : Before(d, e)

\* No two interceptions of a payment, none of a payment that has not reached the taker,
\* and none left of one the taker has answered.
Ordered ==
    /\ Increasing(queue["taker"]) /\ Increasing(handled["taker"])
    /\ Precedes(handled["taker"], queue["taker"])
    /\ \A e \in Coming("taker") : Intercepted(e) =>
          /\ e.try <= tries[e.swap]
          /\ e.try = tries[e.swap] => leg[e.swap] # "toTaker" /\ e.terms = legTerms[e.swap]
    /\ \A e \in Members(queue["taker"]) : Intercepted(e) => ~Bound(e.swap)

\* The order is kept by an event that comes last, by taking the first one away, by two
\* queues of which one precedes the other, and by the events that are delivered again.
LEMMA IncreasingAppend ==
    ASSUME NEW s \in Seq(Events), NEW e \in Events, Increasing(s),
           \A d \in Members(s) : Before(d, e)
    PROVE  Increasing(Append(s, e))
<1>1. /\ Len(Append(s, e)) = Len(s) + 1 /\ Len(s) \in Nat
      /\ \A i \in 1 .. Len(s) : Append(s, e)[i] = s[i]
      /\ Append(s, e)[Len(s) + 1] = e
  OBVIOUS
<1>2. QED BY <1>1 DEF Increasing, Members

LEMMA IncreasingTail ==
    ASSUME NEW s \in Seq(Events), s # <<>>, Increasing(s)
    PROVE  Increasing(Tail(s)) /\ \A e \in Members(Tail(s)) : Before(Head(s), e)
<1>1. /\ Len(Tail(s)) = Len(s) - 1 /\ Len(s) \in Nat \ {0}
      /\ \A i \in 1 .. Len(Tail(s)) : Tail(s)[i] = s[i + 1]
      /\ Head(s) = s[1]
  BY HeadTailProperties, EmptySeq
<1>2. \A i \in 1 .. Len(Tail(s)) : i + 1 \in 1 .. Len(s) /\ 1 < i + 1
  BY <1>1
<1>3. \A i, j \in 1 .. Len(Tail(s)) : i < j => i + 1 < j + 1
  BY <1>1
<1>4. QED BY <1>1, <1>2, <1>3 DEF Increasing, Members

LEMMA IncreasingConcat ==
    ASSUME NEW s \in Seq(Events), NEW t \in Seq(Events),
           Increasing(s), Increasing(t), Precedes(s, t)
    PROVE  Increasing(s \o t)
<1>1. /\ Len(s) \in Nat /\ Len(t) \in Nat /\ Len(s \o t) = Len(s) + Len(t)
      /\ \A i \in 1 .. Len(s) + Len(t) :
            (s \o t)[i] = IF i <= Len(s) THEN s[i] ELSE t[i - Len(s)]
  BY ConcatProperties
<1>2. SUFFICES ASSUME NEW i \in 1 .. Len(s) + Len(t), NEW j \in 1 .. Len(s) + Len(t), i < j
               PROVE  Before((s \o t)[i], (s \o t)[j])
  BY <1>1 DEF Increasing
<1>3. CASE j <= Len(s)
  BY <1>1, <1>2, <1>3 DEF Increasing
<1>4. CASE i <= Len(s) /\ ~(j <= Len(s))
  <2>1. j - Len(s) \in 1 .. Len(t)
    BY <1>1, <1>2, <1>4
  <2>2. s[i] \in Members(s) /\ t[j - Len(s)] \in Members(t)
    BY <1>1, <1>4, <2>1 DEF Members
  <2>3. QED BY <1>1, <1>4, <2>2 DEF Precedes
<1>5. CASE ~(i <= Len(s))
  <2>1. i - Len(s) \in 1 .. Len(t) /\ j - Len(s) \in 1 .. Len(t) /\ i - Len(s) < j - Len(s)
    BY <1>1, <1>2, <1>5
  <2>2. ~(j <= Len(s))
    BY <1>1, <1>2, <1>5
  <2>3. QED BY <1>1, <1>5, <2>1, <2>2 DEF Increasing
<1>6. QED BY <1>1, <1>3, <1>4, <1>5

LEMMA IncreasingPick ==
    ASSUME NEW s \in Seq(Events), NEW P \in SUBSET (1 .. Len(s)), Increasing(s)
    PROVE  Increasing(Pick(s, P))
<1>1. /\ \A k \in 1 .. Len(Pick(s, P)) : Place(P, k) \in P /\ Pick(s, P)[k] = s[Place(P, k)]
      /\ \A k, m \in 1 .. Len(Pick(s, P)) : k < m => Place(P, k) < Place(P, m)
  <2>1. Len(s) \in Nat
    OBVIOUS
  <2>2. Cardinality(P) \in Nat
    <3>1. Len(s) \in Int
      BY <2>1
    <3>2. QED BY <2>1, <3>1, UpToIsFinite
  <2>3. Len(Pick(s, P)) = Cardinality(P)
    BY <2>2 DEF Pick
  <2>4. \A k \in 1 .. Cardinality(P) : Place(P, k) \in P /\ Pick(s, P)[k] = s[Place(P, k)]
    BY <2>1, PlaceProperties DEF Pick
  <2>5. QED BY <2>3, <2>4, PickProperties
<1>2. QED BY <1>1 DEF Increasing

\* How HTLCs move without the taker's answer: a bound one was bound before, and another
\* payment starts elsewhere.
MovesOn(g) ==
    \/ /\ tries'[g] = tries[g] /\ legTerms'[g] = legTerms[g]
       /\ Bound(g)' => Bound(g)
       /\ leg'[g] = "toTaker" => leg[g] = "toTaker"
    \/ tries'[g] = tries[g] + 1 /\ ~Bound(g)'

\* What an interception says of its swap stays so while HTLCs move on.
LEMMA InterceptionKept ==
    ASSUME Paid, Ordered, \A g \in Swaps : MovesOn(g), NEW e \in Coming("taker"), Intercepted(e)
    PROVE  /\ e.swap \in Swaps /\ e.try \in Nat /\ tries[e.swap] \in Nat
           /\ e.try <= tries'[e.swap]
           /\ e.try = tries'[e.swap] => leg'[e.swap] # "toTaker" /\ e.terms = legTerms'[e.swap]
           /\ e \in Members(queue["taker"]) => ~Bound(e.swap)'
<1>1. e \in Events
  BY DEF Paid, QueueOK, Grounded, Nodes
<1>2. e.swap \in Swaps /\ e.try \in Nat
  BY <1>1 DEF Events
<1>3. tries[e.swap] \in Nat
  BY <1>2, SwapsAssumption DEF Paid, LegOK, SwapsAssumption
<1>4. QED BY <1>2, <1>3 DEF Ordered, MovesOn

\* The taker's events stay, or those handled need not be delivered again.
LEMMA OrderedKept ==
    ASSUME Paid, Ordered, queue'["taker"] = queue["taker"],
           handled'["taker"] = handled["taker"] \/ handled'["taker"] = <<>>,
           \A g \in Swaps : MovesOn(g)
    PROVE  Ordered'
<1>1. Members(<<>>) = {} /\ Increasing(<<>>)
  BY DEF Members, Increasing
<1>2. /\ Increasing(handled'["taker"]) /\ Precedes(handled'["taker"], queue'["taker"])
      /\ Increasing(queue'["taker"]) /\ Members(queue'["taker"]) = Members(queue["taker"])
      /\ Coming("taker")' \subseteq Coming("taker")
  BY <1>1 DEF Ordered, Precedes, Coming
<1>3. \A e \in Coming("taker") : Intercepted(e) =>
         /\ e.try <= tries'[e.swap]
         /\ e.try = tries'[e.swap] => leg'[e.swap] # "toTaker" /\ e.terms = legTerms'[e.swap]
         /\ e \in Members(queue["taker"]) => ~Bound(e.swap)'
  BY InterceptionKept
<1>4. Members(queue["taker"]) \subseteq Coming("taker")
  BY DEF Coming
<1>5. QED BY <1>2, <1>3, <1>4 DEF Ordered, Intercepted

\* A step that leaves events and HTLCs alone.
LEMMA OrderedRests ==
    ASSUME Paid, Ordered, UNCHANGED <<queue, handled, legVars>>
    PROVE  Ordered'
<1>1. \A g \in Swaps : MovesOn(g)
  BY DEF legVars, MovesOn, Bound
<1>2. QED BY <1>1, OrderedKept

\* The taker is done with its first event, and may have forwarded the HTLC it is about.
LEMMA OrderedDone ==
    ASSUME Paid, Ordered, queue["taker"] # <<>>, Handled("taker"),
           UNCHANGED <<tries, legTerms>>,
           \A g \in Swaps :
              /\ leg'[g] = "toTaker" => leg[g] = "toTaker"
              /\ \/ Bound(g)' => Bound(g)
                 \/ LET e == Head(queue["taker"])
                    IN Intercepted(e) /\ e.swap = g /\ e.try = tries[g]
    PROVE  Ordered'
<1> DEFINE q == queue["taker"]
           g == handled["taker"]
           f == Head(q)
<1>1. q \in Seq(Events) /\ g \in Seq(Events) /\ q # <<>>
  BY DEF Paid, QueueOK, Nodes
<1>2. /\ Tail(q) \in Seq(Events) /\ f \in Events /\ f \in Members(q)
      /\ Members(Tail(q)) \subseteq Members(q)
  BY <1>1, MembersOfTail
<1>3. queue'["taker"] = Tail(q)
  <2>1. queue'["taker"] = Tail(q) \o <<>>
    BY DEF Handled, HandledWith, Paid, QueueOK, Nodes
  <2>2. QED BY <1>2, <2>1, ConcatEmptySeq
<1>4. handled'["taker"] = g \/ handled'["taker"] = Append(g, f)
  BY DEF Handled, HandledWith, Paid, QueueOK, Nodes
<1>5. Increasing(Tail(q)) /\ \A e \in Members(Tail(q)) : Before(f, e)
  BY <1>1, IncreasingTail DEF Ordered
<1>6. \A d \in Members(g), e \in Members(q) : Before(d, e)
  BY DEF Ordered, Precedes
<1>7. Increasing(Append(g, f)) /\ Members(Append(g, f)) = Members(g) \cup {f}
  BY <1>1, <1>2, <1>6, IncreasingAppend, MembersOfAppend DEF Ordered
<1>8. Increasing(handled'["taker"]) /\ Precedes(handled'["taker"], Tail(q))
  BY <1>2, <1>4, <1>5, <1>6, <1>7 DEF Precedes, Ordered
<1>9. Coming("taker")' \subseteq Coming("taker")
  BY <1>2, <1>3, <1>4, <1>7 DEF Coming
<1>10. ASSUME NEW e \in Coming("taker"), Intercepted(e)
       PROVE  /\ e.swap \in Swaps /\ e.try \in Nat /\ e.try <= tries[e.swap]
              /\ e.try = tries[e.swap] => leg[e.swap] # "toTaker" /\ e.terms = legTerms[e.swap]
  <2>1. e \in Events
    BY DEF Paid, QueueOK, Grounded, Nodes
  <2>2. QED BY <1>10, <2>1 DEF Ordered, Events
<1>11. ASSUME NEW e \in Members(Tail(q)), Intercepted(e)
       PROVE  ~Bound(e.swap)'
  <2>1. e \in Members(q) /\ e \in Coming("taker")
    BY <1>2 DEF Coming
  <2>2. e.swap \in Swaps /\ e.try \in Nat /\ e.try <= tries[e.swap] /\ ~Bound(e.swap)
    BY <1>10, <1>11, <2>1 DEF Ordered
  <2>3. tries[e.swap] \in Nat
    BY <2>2, SwapsAssumption DEF Paid, LegOK, SwapsAssumption
  <2>4. ~(Intercepted(f) /\ f.swap = e.swap /\ f.try = tries[e.swap])
    BY <1>5, <1>11, <2>2, <2>3 DEF Before
  <2>5. QED BY <2>2, <2>4
<1> HIDE DEF q, g, f
<1>12. \A e \in Coming("taker")' : Intercepted(e) =>
          /\ e.try <= tries'[e.swap]
          /\ e.try = tries'[e.swap] => leg'[e.swap] # "toTaker" /\ e.terms = legTerms'[e.swap]
  BY <1>9, <1>10
<1>13. QED BY <1>3, <1>5, <1>8, <1>11, <1>12 DEF Ordered, Intercepted

\* LDK queues an event for the taker: an interception is the first of its payment.
LEMMA OrderedPushed ==
    ASSUME Paid, Ordered, NEW e \in Events, Push("taker", e), UNCHANGED handled,
           \A g \in Swaps : MovesOn(g),
           Intercepted(e) => /\ leg[e.swap] = "toTaker" /\ leg'[e.swap] = "held"
                             /\ e.try = tries[e.swap] /\ UNCHANGED tries
                             /\ e.terms = legTerms'[e.swap]
    PROVE  Ordered'
<1> DEFINE q == queue["taker"]
<1>1. q \in Seq(Events) /\ queue'["taker"] = Append(q, e)
  BY DEF Push, Paid, QueueOK, Nodes
<1>2. Members(Append(q, e)) = Members(q) \cup {e}
  BY <1>1, MembersOfAppend
<1>3. \A d \in Coming("taker") : Before(d, e)
  <2>1. SUFFICES ASSUME NEW d \in Coming("taker"), Intercepted(d), Intercepted(e),
                        d.swap = e.swap
                 PROVE  d.try < e.try
    BY DEF Before
  <2>2. d.swap \in Swaps /\ d.try \in Nat /\ tries[d.swap] \in Nat
    BY <2>1, InterceptionKept
  <2>3. d.try <= tries[d.swap] /\ d.try # tries[d.swap]
    BY <2>1 DEF Ordered
  <2>4. QED BY <2>1, <2>2, <2>3
<1>4. Members(q) \subseteq Coming("taker") /\ Members(handled["taker"]) \subseteq Coming("taker")
  BY DEF Coming
<1>5. Increasing(Append(q, e)) /\ Precedes(handled["taker"], Append(q, e))
  BY <1>1, <1>2, <1>3, <1>4, IncreasingAppend DEF Ordered, Precedes
<1>6. Coming("taker")' \subseteq Coming("taker") \cup {e}
  BY <1>1, <1>2 DEF Coming
<1>7. e.swap \in Swaps /\ e.try \in Nat
  BY DEF Events
<1>8. ASSUME NEW d \in Coming("taker") \cup {e}, Intercepted(d)
      PROVE  /\ d.try <= tries'[d.swap]
             /\ d.try = tries'[d.swap] => leg'[d.swap] # "toTaker" /\ d.terms = legTerms'[d.swap]
             /\ d \in Members(q) \cup {e} => ~Bound(d.swap)'
  <2>1. CASE d = e
    BY <1>7, <1>8, <2>1 DEF Bound
  <2>2. CASE d # e
    BY <1>8, <2>2, InterceptionKept
  <2>3. QED BY <2>1, <2>2
<1>9. \A d \in Coming("taker")' : Intercepted(d) =>
         /\ d.try <= tries'[d.swap]
         /\ d.try = tries'[d.swap] => leg'[d.swap] # "toTaker" /\ d.terms = legTerms'[d.swap]
  BY <1>6, <1>8
<1>10. \A d \in Members(queue'["taker"]) : Intercepted(d) => ~Bound(d.swap)'
  BY <1>1, <1>2, <1>4, <1>8
<1>11. Increasing(queue'["taker"]) /\ Increasing(handled'["taker"])
       /\ Precedes(handled'["taker"], queue'["taker"])
  BY <1>1, <1>5 DEF Ordered
<1>12. QED BY <1>9, <1>10, <1>11 DEF Ordered, Intercepted

\* What the taker's events are after a restart.
LEMMA OrderedCrash ==
    ASSUME SwapsAssumption, Paid, Ordered, Crash("taker")
    PROVE  Ordered'
<1> DEFINE q == queue["taker"]
           s == handled["taker"]
           Unanswered(e) == /\ e.kind = "HTLCIntercepted" /\ e.try = tries[e.swap]
                            /\ leg[e.swap] \in {"toMaker", "failing"}
           kept == {i \in DOMAIN s : s[i].kind = "HTLCIntercepted" => Unanswered(s[i])}
           again == Pick(s, kept)
           held == {e.swap : e \in {d \in Members(again) : Unanswered(d)}}
<1>1. q \in Seq(Events) /\ s \in Seq(Events)
  BY DEF Paid, QueueOK, Nodes
<1>2. /\ queue'["taker"] = again \o q /\ UNCHANGED <<legTerms, tries>>
      /\ leg' = [h \in Swaps |-> IF h \in held THEN "held" ELSE leg[h]]
      /\ handled'["taker"] = <<>>
  <2>1. /\ queue' = [queue EXCEPT !["taker"] = again \o @]
        /\ leg' = [h \in Swaps |-> IF h \in held THEN "held" ELSE leg[h]]
        /\ handled' = [m \in Nodes |->
              IF m = "taker" \/ crashes + 1 = MaxCrashes THEN <<>> ELSE handled[m]]
        /\ UNCHANGED <<legTerms, tries>>
    BY DEF Crash
  <2> HIDE DEF again, held
  <2>2. QED BY <2>1 DEF Paid, QueueOK, Nodes
<1>3. kept \in SUBSET (1 .. Len(s))
  BY <1>1
<1>4. /\ again \in Seq(Events) /\ Increasing(again)
      /\ Members(again) = {s[i] : i \in kept}
  <2> HIDE DEF kept
  <2>1. QED BY <1>1, <1>3, PickProperties, IncreasingPick DEF Ordered
<1>5. /\ Members(again) \subseteq Members(s)
      /\ \A e \in Members(again) : Intercepted(e) => Unanswered(e)
  <2>1. \A i \in kept : s[i] \in Members(s) /\ (Intercepted(s[i]) => Unanswered(s[i]))
    BY <1>3 DEF Members, Intercepted
  <2> HIDE DEF kept, Unanswered
  <2>2. QED BY <1>4, <2>1
<1>6. \A e \in Members(again) : Intercepted(e) => e.swap \in held
  BY <1>5
<1> HIDE DEF again, held, kept, Unanswered
<1>7. Precedes(again, q)
  BY <1>5 DEF Ordered, Precedes
<1>8. Increasing(again \o q) /\ Members(again \o q) \subseteq Members(again) \cup Members(q)
  BY <1>1, <1>4, <1>7, IncreasingConcat, MembersOfConcat DEF Ordered
<1>9. Members(<<>>) = {} /\ Increasing(<<>>)
  BY DEF Members, Increasing
<1>10. \A g \in Swaps : MovesOn(g)
  BY <1>2 DEF MovesOn, Bound
<1>11. Coming("taker")' \subseteq Coming("taker")
  BY <1>2, <1>5, <1>8, <1>9 DEF Coming
<1>12. ASSUME NEW e \in Coming("taker"), Intercepted(e)
       PROVE  /\ e.swap \in Swaps /\ e.try <= tries'[e.swap]
              /\ e.try = tries'[e.swap] => leg'[e.swap] # "toTaker" /\ e.terms = legTerms'[e.swap]
              /\ e \in Members(q) => ~Bound(e.swap)'
  BY <1>10, <1>12, InterceptionKept
<1>13. ASSUME NEW e \in Members(again) \cup Members(q), Intercepted(e)
       PROVE  ~Bound(e.swap)'
  <2>1. CASE e \in Members(q)
    BY <1>12, <1>13, <2>1 DEF Coming
  <2>2. CASE e \in Members(again)
    <3>1. e.swap \in held /\ e.swap \in Swaps
      BY <1>5, <1>6, <1>12, <1>13, <2>2 DEF Coming
    <3>2. leg'[e.swap] = "held"
      BY <1>2, <3>1
    <3>3. QED BY <3>2 DEF Bound
  <2>3. QED BY <1>13, <2>1, <2>2
<1> HIDE DEF q, s
<1>14. \A e \in Coming("taker")' : Intercepted(e) =>
          /\ e.try <= tries'[e.swap]
          /\ e.try = tries'[e.swap] => leg'[e.swap] # "toTaker" /\ e.terms = legTerms'[e.swap]
  BY <1>11, <1>12
<1>15. Precedes(<<>>, again \o q)
  BY <1>9 DEF Precedes
<1>16. QED BY <1>2, <1>8, <1>9, <1>13, <1>14, <1>15 DEF Ordered, Intercepted

\* LDK moves an HTLC, and tells the taker of it.
LEMMA NetworkOrdered ==
    ASSUME Paid, Ordered, NEW h \in Swaps, Network(h)
    PROVE  Ordered'
<1>1. UNCHANGED <<handled, legTerms, tries>>
  BY DEF Network
<1>2. \A g \in Swaps : MovesOn(g)
  BY DEF Network, InterceptHtlc, HtlcFails, HtlcArrives, FulfilTaker, FulfilMaker, FailMaker,
         Forget, Moves, MovesOn, Bound, Paid, LegOK
<1>3. CASE InterceptHtlc(h)
  <2>1. /\ leg[h] = "toTaker" /\ leg'[h] = "held" /\ legTerms'[h] = legTerms[h]
        /\ Push("taker", Event("HTLCIntercepted", h))
    BY <1>1, <1>3 DEF InterceptHtlc, Moves, Paid, LegOK
  <2>2. PICK e : e = Event("HTLCIntercepted", h)
    OBVIOUS
  <2>3. /\ e \in Events /\ e.swap = h /\ e.try = tries[h] /\ e.terms = legTerms[h]
    BY <2>2, EventIsTyped DEF Kinds
  <2>4. QED BY <1>1, <1>2, <2>1, <2>2, <2>3, OrderedPushed
<1>4. CASE FulfilTaker(h)
  <2>1. PICK e : e = Event("PaymentForwarded", h)
    OBVIOUS
  <2>2. e \in Events /\ ~Intercepted(e) /\ Push("taker", e)
    BY <1>4, <2>1, EventIsTyped DEF Kinds, FulfilTaker, Intercepted
  <2>3. QED BY <1>1, <1>2, <2>2, OrderedPushed
<1>5. CASE HtlcFails(h) \/ HtlcArrives(h) \/ FulfilMaker(h) \/ FailMaker(h) \/ Forget(h)
  <2>1. queue'["taker"] = queue["taker"]
    BY <1>5 DEF HtlcFails, HtlcArrives, FulfilMaker, FailMaker, Forget, Push,
                Paid, QueueOK, Nodes
  <2>2. QED BY <1>1, <1>2, <2>1, OrderedKept
<1>6. QED BY <1>3, <1>4, <1>5 DEF Network

\* The taker's handler.
LEMMA TakerOrdered ==
    ASSUME Paid, Ordered, NEW h \in Swaps, HandleTaker(h)
    PROVE  Ordered'
<1>1. CASE InterceptUnknownLate(h) \/ InterceptCompare(h) \/ InterceptWrite(h) \/ InterceptLate(h)
  BY <1>1, OrderedRests DEF InterceptUnknownLate, InterceptCompare, InterceptWrite,
                            InterceptWrites, InterceptLate
<1>2. ASSUME NEW v, NEW to \in {"failing", "toMaker"}, Intercepting(h, v), StillHeld(h),
             leg' = [leg EXCEPT ![h] = to], Handled("taker"), UNCHANGED <<tries, legTerms>>
      PROVE  Ordered'
  <2>1. /\ queue["taker"] # <<>> /\ Intercepted(Head(queue["taker"]))
        /\ Head(queue["taker"]).swap = h /\ Head(queue["taker"]).try = tries[h]
    BY <1>2 DEF Intercepting, Ready, StillHeld, Intercepted
  <2>2. \A g \in Swaps : /\ leg'[g] = "toTaker" => leg[g] = "toTaker"
                         /\ (Bound(g)' => Bound(g)) \/ g = h
    BY <1>2 DEF Bound, Paid, LegOK
  <2>3. QED BY <1>2, <2>1, <2>2, OrderedDone
<1>3. CASE InterceptUnknown(h)
  BY <1>2, <1>3 DEF InterceptUnknown
<1>4. CASE InterceptAnswer(h)
  <2>1. CASE InterceptAnswers(h, "pending", "toMaker")
    BY <1>2, <2>1 DEF InterceptAnswers
  <2>2. CASE InterceptAnswers(h, "failed", "failing")
    BY <1>2, <2>2 DEF InterceptAnswers
  <2>3. QED BY <1>4, <2>1, <2>2 DEF InterceptAnswer
<1>5. CASE PaymentForwarded(h)
  <2>1. /\ queue["taker"] # <<>> /\ Handled("taker") /\ UNCHANGED <<leg, tries, legTerms>>
    BY <1>5 DEF PaymentForwarded, Ready, legVars
  <2>2. QED BY <2>1, OrderedDone DEF Bound
<1>6. QED BY <1>1, <1>3, <1>4, <1>5 DEF HandleTaker

\* The maker's handler: it claims an HTLC that has arrived.
LEMMA MakerOrdered ==
    ASSUME Paid, Ordered, NEW h \in Swaps, HandleMaker(h)
    PROVE  Ordered'
<1>1. queue'["taker"] = queue["taker"] /\ handled'["taker"] = handled["taker"]
  BY DEF HandleMaker, PaymentClaimable, PaymentSucceeded, PaymentFailed, PoisonedStore,
         Handled, HandledWith, Paid, QueueOK, Nodes
<1>2. /\ UNCHANGED <<tries, legTerms>>
      /\ \/ UNCHANGED leg
         \/ leg[h] = "arrived" /\ leg' = [leg EXCEPT ![h] = "claimed"]
  BY DEF HandleMaker, PaymentClaimable, PaymentSucceeded, PaymentFailed, PoisonedStore, legVars
<1>3. \A g \in Swaps : MovesOn(g)
  BY <1>2 DEF MovesOn, Bound, Paid, LegOK
<1>4. QED BY <1>1, <1>3, OrderedKept

\* The rest of /makerexecute: another payment starts, or none.
LEMMA FinishOrdered ==
    ASSUME Paid, Ordered, FinishMaker
    PROVE  Ordered'
<1>1. CASE ExecuteSend
  <2>1. /\ target \in Swaps
        /\ leg' = [leg EXCEPT ![target] = "toTaker"]
        /\ legTerms' = [legTerms EXCEPT ![target] = asked]
        /\ tries' = [tries EXCEPT ![target] = @ + 1]
        /\ UNCHANGED <<queue, handled>>
    BY <1>1 DEF ExecuteSend, Paid, ApiOK, eventVars
  <2>2. \A g \in Swaps : MovesOn(g)
    BY <2>1 DEF MovesOn, Bound, Paid, LegOK
  <2>3. QED BY <2>1, <2>2, OrderedKept
<1>2. CASE ExecuteSendFails \/ ExecuteFailed
  BY <1>2, OrderedRests DEF ExecuteSendFails, ExecuteFailed, eventVars
<1>3. QED BY <1>1, <1>2 DEF FinishMaker

LEMMA InitOrdered == Init => Ordered
<1>1. Members(<<>>) = {} /\ Increasing(<<>>)
  BY DEF Members, Increasing
<1>2. QED BY <1>1 DEF Init, Ordered, Precedes, Coming, Nodes

LEMMA StepOrdered == SwapsAssumption /\ Paid /\ Ordered /\ [Next]_vars => Ordered'
<1> SUFFICES ASSUME SwapsAssumption, Paid, Ordered, [Next]_vars
             PROVE  Ordered'
  OBVIOUS
<1>1. ASSUME NEW h \in Swaps, Request(h) PROVE Ordered'
  BY <1>1, OrderedRests DEF Request, MakerInit, Taker, ExecutePending, ExecuteExpired, eventVars
<1>2. ASSUME NEW n \in Nodes, FinishList(n) \/ \E hs \in SUBSET Swaps : ListSwaps(n, hs)
      PROVE  Ordered'
  BY <1>2, OrderedRests DEF FinishList, MapSwap, ListSwaps, eventVars
<1>3. ASSUME NEW n \in Nodes, Persist(n) PROVE Ordered'
  <2>1. /\ queue' = queue /\ UNCHANGED legVars
        /\ handled'["taker"] = handled["taker"] \/ handled'["taker"] = <<>>
    BY <1>3 DEF Persist, Paid, QueueOK, Nodes
  <2>2. \A g \in Swaps : MovesOn(g)
    BY <2>1 DEF MovesOn, Bound, legVars
  <2>3. QED BY <2>1, <2>2, OrderedKept
<1>4. CASE Crash("maker")
  <2>1. /\ queue'["taker"] = queue["taker"] /\ UNCHANGED <<tries, legTerms>>
        /\ handled'["taker"] = handled["taker"] \/ handled'["taker"] = <<>>
    BY <1>4 DEF Crash, Paid, QueueOK, Nodes
  <2>2. \A g \in Swaps : leg'[g] \in {leg[g], "held"}
    BY <1>4 DEF Crash
  <2>3. \A g \in Swaps : MovesOn(g)
    BY <2>1, <2>2 DEF MovesOn, Bound
  <2>4. QED BY <2>1, <2>3, OrderedKept
<1>5. CASE ExecuteUnknown \/ Tick \/ UNCHANGED vars
  BY <1>5, OrderedRests DEF ExecuteUnknown, Tick, vars, eventVars
<1>6. ASSUME NEW h \in Swaps, HandleTaker(h) \/ HandleMaker(h) \/ Network(h)
      PROVE  Ordered'
  BY <1>6, TakerOrdered, MakerOrdered, NetworkOrdered
<1>7. QED
  BY <1>1, <1>2, <1>3, <1>4, <1>5, <1>6, FinishOrdered, OrderedCrash DEF Next, Nodes

LEMMA InvariantOrdered == Spec => []Ordered
<1>1. Init => Ordered
  BY InitOrdered
<1>2. Paid /\ Ordered /\ [Next]_vars => Ordered'
  BY StepOrdered, SwapsAssumption
<1>3. QED BY <1>1, <1>2, InvariantPaid, PTL DEF Spec

----------------------------------------------------------------------------
(* The terms of a swap that is Pending *)

\* A handler that found a match: the store shows the terms of its event, at the latest
\* until /taker comes between the comparison and the update of the status.
Judged ==
    LET e == Head(queue["taker"])
    IN /\ verdict \in {"match", "pending"}
       /\ verdict = "match" \/ store["taker"][e.swap].status = "Pending"
       => e.swap \in crossed \/ store["taker"][e.swap].terms = e.terms

IInv == Judged /\ PendingMatchesHtlc

LEMMA InitHolds == Init => IInv
BY DEF Init, IInv, Judged, Empty, NoSwap, PendingMatchesHtlc, Nodes

\* The handler of the taker's first event goes on with the same event.
SameEvent ==
    /\ UNCHANGED verdict
    /\ \/ UNCHANGED queue
       \/ \E e : Push("taker", e) \/ Push("maker", e)
       \/ \E q : queue' = [queue EXCEPT !["maker"] = q]

\* A step that writes no terms, makes no swap of the taker Pending and judges nothing.
LEMMA Keeps ==
    ASSUME Paid, IInv, crossed \subseteq crossed',
           SameEvent \/ verdict' \notin {"match", "pending"},
           \A g \in Swaps :
              /\ MovesOn(g)
              /\ store'["taker"][g].terms = store["taker"][g].terms
              /\ store'["taker"][g].status = "Pending" => store["taker"][g].status = "Pending"
    PROVE  IInv'
<1>1. PendingMatchesHtlc'
  BY DEF IInv, PendingMatchesHtlc, MovesOn, Bound
<1>2. CASE verdict' \in {"match", "pending"}
  <2> DEFINE f == Head(queue["taker"])
  <2>1. /\ verdict' = verdict /\ verdict \in {"match", "pending"} /\ f \in Events
        /\ Head(queue'["taker"]) = f
    BY <1>2, FirstKept DEF SameEvent, Paid, HandlerOK
  <2>2. f.swap \in Swaps
    BY <2>1 DEF Events
  <2>3. QED BY <1>1, <2>1, <2>2 DEF IInv, Judged
<1>3. QED BY <1>1, <1>2 DEF IInv, Judged

\* A step that leaves the HTLCs and the taker's events alone, and the terms.
LEMMA KeepsHtlcs ==
    ASSUME Paid, IInv, UNCHANGED <<queue, legVars, crossed>>,
           UNCHANGED verdict \/ verdict' \notin {"match", "pending"},
           \A g \in Swaps :
              /\ store'["taker"][g].terms = store["taker"][g].terms
              /\ store'["taker"][g].status = "Pending" => store["taker"][g].status = "Pending"
    PROVE  IInv'
<1>1. \A g \in Swaps : MovesOn(g)
  BY DEF legVars, MovesOn, Bound
<1>2. QED BY <1>1, Keeps DEF SameEvent

\* An update of the maker's store, or of the taker's to another status than Pending.
LEMMA Updates ==
    ASSUME Paid, IInv, NEW n \in Nodes, NEW h \in Swaps, NEW s \in Statuses,
           Known(n, h), UpdateStatus(n, h, s), n = "maker" \/ s # "Pending",
           UNCHANGED <<queue, legVars, crossed>>,
           UNCHANGED verdict \/ verdict' \notin {"match", "pending"}
    PROVE  IInv'
<1>1. \A m \in Nodes, g \in Swaps :
         /\ store'[m][g].terms = store[m][g].terms
         /\ store'[m][g].status = IF m = n /\ g = h THEN s ELSE store[m][g].status
  BY UpdateKnown DEF Paid
<1>2. QED BY <1>1, KeepsHtlcs DEF Nodes

\* /taker: a new swap is Waiting, and one that is being judged has new terms.
LEMMA TakerReplaces ==
    ASSUME Paid, IInv, NEW h \in Swaps, NEW t \in Terms, Taker(h, t)
    PROVE  IInv'
<1> USE DEF Nodes
<1>1. store["maker"][h].expiry \in Nat
  BY DEF Paid, StoreOK, SwapMap, SwapData, NoSwap
<1>2. /\ \A g \in Swaps : g # h => /\ store'["taker"][g].terms = store["taker"][g].terms
                                   /\ store'["taker"][g].status = store["taker"][g].status
      /\ store'["taker"][h].status = "Waiting"
  BY <1>1, AddKnown DEF Paid, Taker
<1>3. /\ UNCHANGED <<leg, legTerms, tries, queue, verdict>>
      /\ \A g \in Swaps : g \in crossed => g \in crossed' \/ g = h
      /\ verdict = "match" /\ Head(queue["taker"]).swap = h => h \in crossed'
  BY DEF Taker, legVars, eventVars
<1>4. PendingMatchesHtlc'
  BY <1>2, <1>3 DEF IInv, PendingMatchesHtlc
<1>5. CASE verdict \in {"match", "pending"}
  <2> DEFINE f == Head(queue["taker"])
  <2>1. f.swap \in Swaps
    <3>1. f \in Events
      BY <1>5, MembersOfTail DEF Paid, QueueOK, HandlerOK
    <3>2. QED BY <3>1 DEF Events
  <2>2. Judged'
    BY <1>2, <1>3, <2>1 DEF IInv, Judged
  <2>3. QED BY <1>4, <2>2 DEF IInv
<1>6. QED BY <1>3, <1>4, <1>5 DEF IInv, Judged

\* The requests that write at once.
LEMMA RequestStep ==
    ASSUME Paid, IInv, NEW h \in Swaps, Request(h)
    PROVE  IInv'
<1> USE DEF Nodes, Statuses
<1>1. ASSUME NEW t \in Offered, MakerInit(h, t) PROVE IInv'
  <2>1. \A g \in Swaps : store'["taker"][g] = store["taker"][g]
    BY <1>1 DEF MakerInit, AddSwap, Paid, StoreOK
  <2>2. QED BY <1>1, <2>1, KeepsHtlcs DEF MakerInit, eventVars
<1>2. ASSUME NEW t \in Terms, ExecutePending(h, t) PROVE IInv'
  BY <1>2, Updates DEF ExecutePending, eventVars
<1>3. CASE ExecuteExpired(h)
  BY <1>3, Updates DEF ExecuteExpired, eventVars
<1>4. QED BY <1>1, <1>2, <1>3, TakerReplaces DEF Request

\* The rest of /makerexecute: another payment starts, or none.
LEMMA FinishStep ==
    ASSUME Paid, IInv, FinishMaker
    PROVE  IInv'
<1>1. target \in Swaps /\ Known("maker", target)
  BY DEF FinishMaker, ExecuteSend, ExecuteSendFails, ExecuteFailed, Paid, ApiOK
<1>2. CASE ExecuteSend
  <2>1. /\ leg' = [leg EXCEPT ![target] = "toTaker"]
        /\ legTerms' = [legTerms EXCEPT ![target] = asked]
        /\ tries' = [tries EXCEPT ![target] = @ + 1]
        /\ UNCHANGED <<queue, verdict, crossed, store>>
    BY <1>2 DEF ExecuteSend, eventVars
  <2>2. \A g \in Swaps : MovesOn(g)
    BY <1>1, <2>1 DEF MovesOn, Bound, Paid, LegOK
  <2>3. QED BY <2>1, <2>2, Keeps DEF SameEvent
<1>3. CASE ExecuteSendFails
  BY <1>3, KeepsHtlcs DEF ExecuteSendFails, eventVars
<1>4. CASE ExecuteFailed
  BY <1>1, <1>4, Updates DEF ExecuteFailed, Nodes, Statuses, eventVars
<1>5. QED BY <1>2, <1>3, <1>4 DEF FinishMaker

\* What /listswaps writes is never Pending.
LEMMA ListStep ==
    ASSUME Paid, IInv, NEW n \in Nodes, NEW h \in Swaps, MapSwap(n, h)
    PROVE  IInv'
<1> DEFINE s == Aged(copy[n][h])
<1>1. UNCHANGED <<queue, verdict, legVars, crossed>>
  BY DEF MapSwap, eventVars
<1>2. CASE s # copy[n][h].status /\ n \notin poisoned
  <2>1. s \in {"Expired", "Failed"}
    BY <1>2 DEF Aged
  <2>2. UpdateStatus(n, h, s) /\ Known(n, h)
    BY <1>2 DEF MapSwap, Paid, ApiOK
  <2> HIDE DEF s
  <2>3. QED BY <1>1, <2>1, <2>2, Updates DEF Statuses
<1>3. CASE ~(s # copy[n][h].status /\ n \notin poisoned)
  BY <1>1, <1>3, KeepsHtlcs DEF MapSwap
<1>4. QED BY <1>2, <1>3

\* The first event of the taker, when its handler is at an interception.
LEMMA InterceptingFirst ==
    ASSUME Paid, Ordered, NEW h \in Swaps, NEW v, Intercepting(h, v)
    PROVE  LET e == Head(queue["taker"])
           IN /\ e.swap = h /\ verdict = v /\ ~Bound(h)
              /\ StillHeld(h) => e.terms = legTerms[h] /\ legTerms[h] \in Terms
              /\ v # "none" => Known("taker", h)
<1> DEFINE e == Head(queue["taker"])
<1>1. queue["taker"] \in Seq(Events) /\ queue["taker"] # <<>> /\ Intercepted(e) /\ e.swap = h
  BY DEF Paid, QueueOK, Intercepting, Ready, Intercepted, Nodes
<1>2. e \in Members(queue["taker"]) /\ e \in Coming("taker")
  BY <1>1, MembersOfTail DEF Coming
<1> HIDE DEF e
<1>3. ~Bound(h) /\ (e.try = tries[h] => e.terms = legTerms[h])
  BY <1>1, <1>2 DEF Ordered
<1>4. leg[h] = "held" => legTerms[h] \in Terms
  BY DEF Paid, LegOK
<1>5. verdict = v /\ (v # "none" => Known("taker", h))
  BY <1>1 DEF Intercepting, Paid, HandlerOK, e
<1>6. QED BY <1>1, <1>3, <1>4, <1>5 DEF StillHeld, e

\* The taker compares, and a match is a match then.
LEMMA CompareStep ==
    ASSUME Paid, Ordered, IInv, NEW h \in Swaps, InterceptCompare(h)
    PROVE  IInv'
<1> DEFINE e == Head(queue["taker"])
<1>1. /\ Intercepting(h, "none") /\ crossed' = crossed \ {h}
      /\ UNCHANGED <<store, queue, leg, legTerms>>
      /\ \/ verdict' = "match" /\ store["taker"][h].terms = e.terms
         \/ verdict' = "mismatch"
  BY DEF InterceptCompare, legVars, Matches
<1>2. e.swap = h /\ ~Bound(h)
  BY <1>1, InterceptingFirst
<1>3. Judged'
  BY <1>1, <1>2 DEF Judged
<1>4. PendingMatchesHtlc'
  BY <1>1, <1>2 DEF IInv, PendingMatchesHtlc, Bound
<1>5. QED BY <1>3, <1>4 DEF IInv

\* The taker updates the status: Pending is what was compared, or /taker came between.
LEMMA WriteStep ==
    ASSUME Paid, Ordered, IInv, NEW h \in Swaps, InterceptWrite(h)
    PROVE  IInv'
<1> USE DEF Nodes, Statuses
<1>1. CASE InterceptWrites(h, "match", "Pending", "pending")
  <2>1. /\ Intercepting(h, "match") /\ UpdateStatus("taker", h, "Pending")
        /\ verdict' = "pending" /\ UNCHANGED <<queue, leg, legTerms, crossed>>
    BY <1>1 DEF InterceptWrites, legVars
  <2>2. /\ Head(queue["taker"]).swap = h /\ ~Bound(h) /\ verdict = "match"
        /\ Known("taker", h)
    BY <2>1, InterceptingFirst
  <2>3. \A g \in Swaps :
           /\ store'["taker"][g].terms = store["taker"][g].terms
           /\ g # h => store'["taker"][g].status = store["taker"][g].status
    BY <2>1, <2>2, UpdateKnown DEF Paid
  <2>4. Judged'
    BY <2>1, <2>2, <2>3 DEF IInv, Judged
  <2>5. PendingMatchesHtlc'
    BY <2>1, <2>2, <2>3 DEF IInv, PendingMatchesHtlc, Bound
  <2>6. QED BY <2>4, <2>5 DEF IInv
<1>2. CASE InterceptWrites(h, "mismatch", "Failed", "failed")
  <2>1. Intercepting(h, "mismatch")
    BY <1>2 DEF InterceptWrites
  <2>2. Known("taker", h)
    BY <2>1, InterceptingFirst
  <2>3. QED BY <1>2, <2>2, Updates DEF InterceptWrites
<1>3. QED BY <1>1, <1>2 DEF InterceptWrite

\* The taker forwards what it called Pending, or fails the HTLC.
LEMMA AnswerStep ==
    ASSUME Paid, Ordered, IInv, NEW h \in Swaps, InterceptAnswer(h)
    PROVE  IInv'
<1>1. CASE InterceptAnswers(h, "pending", "toMaker")
  <2>1. /\ Intercepting(h, "pending") /\ StillHeld(h) /\ leg' = [leg EXCEPT ![h] = "toMaker"]
        /\ UNCHANGED <<store, legTerms, crossed>> /\ verdict' = "none"
    BY <1>1 DEF InterceptAnswers, Handled, HandledWith
  <2>2. store["taker"][h].status = "Pending"
           => h \in crossed \/ store["taker"][h].terms = legTerms[h]
    BY <2>1, InterceptingFirst DEF IInv, Judged
  <2>3. PendingMatchesHtlc'
    BY <2>1, <2>2 DEF IInv, PendingMatchesHtlc, Paid, LegOK
  <2>4. QED BY <2>1, <2>3 DEF IInv, Judged
<1>2. CASE InterceptAnswers(h, "failed", "failing")
  <2>1. /\ leg' = [leg EXCEPT ![h] = "failing"]
        /\ UNCHANGED <<store, tries, legTerms, crossed>> /\ verdict' = "none"
    BY <1>2 DEF InterceptAnswers, Handled, HandledWith
  <2>2. \A g \in Swaps : MovesOn(g)
    BY <2>1 DEF MovesOn, Bound, Paid, LegOK
  <2>3. QED BY <2>1, <2>2, Keeps
<1>3. QED BY <1>1, <1>2 DEF InterceptAnswer

\* The taker's handler.
LEMMA TakerStep ==
    ASSUME Paid, Ordered, IInv, NEW h \in Swaps, HandleTaker(h)
    PROVE  IInv'
<1>1. CASE InterceptUnknown(h)
  <2>1. /\ leg' = [leg EXCEPT ![h] = "failing"]
        /\ UNCHANGED <<store, tries, legTerms, crossed>> /\ verdict' = "none"
    BY <1>1 DEF InterceptUnknown, Handled, HandledWith
  <2>2. \A g \in Swaps : MovesOn(g)
    BY <2>1 DEF MovesOn, Bound, Paid, LegOK
  <2>3. QED BY <2>1, <2>2, Keeps
<1>2. CASE InterceptUnknownLate(h) \/ InterceptLate(h)
  BY <1>2, KeepsHtlcs DEF InterceptUnknownLate, InterceptLate
<1>3. CASE PaymentForwarded(h)
  <2>1. UNCHANGED legVars /\ UNCHANGED <<crossed>> /\ verdict' = "none"
    BY <1>3 DEF PaymentForwarded, Handled, HandledWith
  <2>2. \A g \in Swaps : /\ store'["taker"][g].terms = store["taker"][g].terms
                         /\ store'["taker"][g].status = "Pending"
                               => store["taker"][g].status = "Pending"
    <3>1. CASE Known("taker", h)
      BY <1>3, <3>1, UpdateKnown DEF PaymentForwarded, Paid, Nodes, Statuses
    <3>2. CASE ~Known("taker", h)
      BY <1>3, <3>2 DEF PaymentForwarded
    <3>3. QED BY <3>1, <3>2
  <2>3. \A g \in Swaps : MovesOn(g)
    BY <2>1 DEF legVars, MovesOn, Bound
  <2>4. QED BY <2>1, <2>2, <2>3, Keeps
<1>4. QED BY <1>1, <1>2, <1>3, CompareStep, WriteStep, AnswerStep DEF HandleTaker

\* The maker's handler: it claims an HTLC that has arrived.
LEMMA MakerStep ==
    ASSUME Paid, IInv, NEW h \in Swaps, HandleMaker(h)
    PROVE  IInv'
<1>1. /\ UNCHANGED <<tries, legTerms, crossed, verdict>>
      /\ UNCHANGED leg \/ (leg[h] = "arrived" /\ leg' = [leg EXCEPT ![h] = "claimed"])
      /\ UNCHANGED queue \/ \E q : queue' = [queue EXCEPT !["maker"] = q]
  BY DEF HandleMaker, PaymentClaimable, PaymentSucceeded, PaymentFailed, PoisonedStore,
         Handled, HandledWith, legVars
<1>2. \A g \in Swaps : MovesOn(g)
  BY <1>1 DEF MovesOn, Bound, Paid, LegOK
<1>3. \A g \in Swaps : store'["taker"][g] = store["taker"][g]
  BY DEF HandleMaker, PaymentClaimable, PaymentSucceeded, PaymentFailed, PoisonedStore,
         UpdateStatus, Paid, StoreOK, Nodes
<1>4. QED BY <1>1, <1>2, <1>3, Keeps DEF SameEvent

\* LDK moves the HTLC.
LEMMA NetworkStep ==
    ASSUME Paid, IInv, NEW h \in Swaps, Network(h)
    PROVE  IInv'
<1>1. UNCHANGED <<store, legTerms, tries, verdict, crossed>>
  BY DEF Network
<1>2. \A g \in Swaps : MovesOn(g)
  BY DEF Network, InterceptHtlc, HtlcFails, HtlcArrives, FulfilTaker, FulfilMaker, FailMaker,
         Forget, Moves, MovesOn, Bound, Paid, LegOK
<1>3. UNCHANGED queue \/ \E e : Push("taker", e) \/ Push("maker", e)
  BY DEF Network, InterceptHtlc, HtlcFails, HtlcArrives, FulfilTaker, FulfilMaker, FailMaker,
         Forget
<1>4. QED BY <1>1, <1>2, <1>3, Keeps DEF SameEvent

\* A restart brings HTLCs back, and what the taker's handler had found is lost.
LEMMA CrashStep ==
    ASSUME Paid, IInv, NEW n \in Nodes, Crash(n)
    PROVE  IInv'
<1>1. /\ UNCHANGED <<store, legTerms, tries, crossed>>
      /\ n = "taker" => verdict' = "none"
      /\ n = "maker" => verdict' = verdict /\ \E q : queue' = [queue EXCEPT !["maker"] = q]
  BY DEF Crash
<1>2. \A g \in Swaps : leg'[g] \in {leg[g], "held"}
  BY DEF Crash
<1>3. \A g \in Swaps : MovesOn(g)
  BY <1>1, <1>2 DEF MovesOn, Bound
<1>4. QED BY <1>1, <1>3, Keeps DEF SameEvent, Nodes

LEMMA StepHolds == SwapsAssumption /\ Paid /\ Ordered /\ IInv /\ [Next]_vars => IInv'
<1> SUFFICES ASSUME SwapsAssumption, Paid, Ordered, IInv, [Next]_vars
             PROVE  IInv'
  OBVIOUS
<1>1. ASSUME NEW n \in Nodes, NEW hs, ListSwaps(n, hs) \/ Persist(n)
      PROVE  IInv'
  BY <1>1, KeepsHtlcs DEF ListSwaps, Persist, eventVars
<1>2. CASE ExecuteUnknown \/ Tick \/ UNCHANGED vars
  BY <1>2, KeepsHtlcs DEF ExecuteUnknown, Tick, vars, eventVars
<1>3. QED
  BY <1>1, <1>2, RequestStep, FinishStep, ListStep, TakerStep, MakerStep, NetworkStep, CrashStep
     DEF Next, FinishList

LEMMA InvariantHolds == Spec => []IInv
<1>1. Paid /\ Ordered /\ IInv /\ [Next]_vars => IInv'
  BY StepHolds, SwapsAssumption
<1>2. QED BY <1>1, InitHolds, InvariantPaid, InvariantOrdered, PTL DEF Spec

\* A swap that is Pending at the taker and bound carries what the store shows, for any
\* swaps, terms, requests, redelivered interceptions and crashes, unless /taker replaced
\* the terms between the comparison and the update of the status.
THEOREM PendingMatchesHtlcHolds == Spec => []PendingMatchesHtlc
<1>1. IInv => PendingMatchesHtlc
  BY DEF IInv
<1>2. QED BY <1>1, InvariantHolds, PTL

----------------------------------------------------------------------------
(* The refinement *)

\* The state as AtomicSwap has it
Accepted == [h \in Swaps |-> store["taker"][h].terms]
AgreedTo == [h \in Swaps |-> IF Agreed(h) THEN legTerms[h] ELSE None]
PhaseOf(h) == IF ~Bound(h) THEN "open"
              ELSE IF leg[h] \in {"claimed", "returning"} THEN "settled"
              ELSE "bound"
Phase == [h \in Swaps |-> PhaseOf(h)]
BoundBy == [h \in Swaps |-> IF Bound(h) THEN legTerms[h] ELSE None]

Abstract == <<Accepted, AgreedTo, Phase, BoundBy, paid>>

\* What AtomicSwap sees of a swap stays.
SameLeg(h) ==
    /\ \/ leg'[h] = leg[h] /\ legTerms'[h] = legTerms[h]
       \/ ~Bound(h) /\ ~Bound(h)'
       \/ PhaseOf(h)' = PhaseOf(h) /\ Bound(h) /\ legTerms'[h] = legTerms[h]
    /\ Agreed(h)' <=> Agreed(h)
    /\ Agreed(h) => legTerms'[h] = legTerms[h]

\* A step that neither accepts terms nor moves the HTLC of a bound taker, or to one.
LEMMA Hidden ==
    ASSUME \A h \in Swaps : SameLeg(h) /\ store'["taker"][h].terms = store["taker"][h].terms,
           UNCHANGED paid
    PROVE  UNCHANGED Abstract
<1>1. \A h \in Swaps : /\ Bound(h)' <=> Bound(h)
                       /\ PhaseOf(h)' = PhaseOf(h)
                       /\ Bound(h) => legTerms'[h] = legTerms[h]
  BY DEF SameLeg, Bound, PhaseOf
<1>2. Accepted' = Accepted
  BY DEF Accepted
<1>3. AgreedTo' = AgreedTo
  BY DEF AgreedTo, SameLeg
<1>4. Phase' = Phase
  BY <1>1 DEF Phase
<1>5. BoundBy' = BoundBy
  BY <1>1 DEF BoundBy
<1>6. QED BY <1>2, <1>3, <1>4, <1>5 DEF Abstract

\* Only what is held is agreed to, and nothing without a match.
LEMMA AgreedIsHeld ==
    ASSUME NEW h \in Swaps, Agreed(h)
    PROVE  leg[h] = "held" /\ ~Bound(h) /\ verdict \in {"match", "pending"}
BY DEF Agreed, StillHeld, Bound

\* The handler of the first event went no further, and what it is about is still held.
LEMMA AgreedKept ==
    ASSUME Paid, Ordered, SameEvent, NEW h \in Swaps,
           leg[h] = "held" => leg'[h] = "held",
           leg'[h] = "held" => leg[h] \in {"held", "toTaker"},
           leg[h] \in {"held", "toTaker"} => tries'[h] = tries[h]
    PROVE  Agreed(h)' <=> Agreed(h)
<1> DEFINE e == Head(queue["taker"])
<1>1. CASE verdict \in {"match", "pending"}
  <2>1. /\ queue["taker"] # <<>> /\ Intercepted(e) /\ queue["taker"] \in Seq(Events)
        /\ verdict' = verdict
    BY <1>1 DEF Paid, HandlerOK, QueueOK, Intercepted, SameEvent, Nodes
  <2>2. Head(queue'["taker"]) = e
    BY <2>1, FirstKept DEF SameEvent
  <2>3. e \in Coming("taker")
    BY <2>1, MembersOfTail DEF Coming
  <2> HIDE DEF e
  <2>4. e.swap = h /\ e.try = tries[h] => leg[h] # "toTaker"
    BY <2>1, <2>3 DEF Ordered
  <2>5. QED BY <2>1, <2>2, <2>4 DEF Agreed, StillHeld, e
<1>2. CASE verdict \notin {"match", "pending"}
  BY <1>2 DEF Agreed, SameEvent
<1>3. QED BY <1>1, <1>2

\* A step that leaves HTLCs and the taker's handler alone, and the terms.
LEMMA Rests ==
    ASSUME Paid, Ordered, SameEvent, UNCHANGED legVars,
           \A h \in Swaps : store'["taker"][h].terms = store["taker"][h].terms
    PROVE  UNCHANGED Abstract
<1>1. \A h \in Swaps : SameLeg(h)
  BY AgreedKept DEF SameLeg, legVars
<1>2. QED BY <1>1, Hidden DEF legVars

\* A status is not a term.
LEMMA StatusHidden ==
    ASSUME Paid, Ordered, NEW n \in Nodes, NEW h \in Swaps, NEW s \in Statuses,
           Known(n, h), UpdateStatus(n, h, s), SameEvent, UNCHANGED legVars
    PROVE  UNCHANGED Abstract
<1>1. \A g \in Swaps : store'["taker"][g].terms = store["taker"][g].terms
  BY UpdateKnown DEF Paid, Nodes
<1>2. QED BY <1>1, Rests

\* The taker's store has new terms for a swap; the HTLC has its own.
LEMMA TakerSimulates ==
    ASSUME Paid, Ordered, NEW h \in Swaps, NEW t \in Terms, Taker(h, t)
    PROVE  Atomic!Next
<1>1. store["maker"][h].expiry \in Nat
  BY DEF Paid, StoreOK, SwapMap, SwapData, NoSwap, Nodes
<1>2. \A g \in Swaps : store'["taker"][g].terms = IF g = h THEN t ELSE store["taker"][g].terms
  BY <1>1, AddKnown DEF Taker, Paid, Nodes
<1>3. UNCHANGED <<leg, legTerms, tries, paid, queue, verdict>>
  BY DEF Taker, legVars, eventVars
<1>4. Accepted' = [Accepted EXCEPT ![h] = t]
  BY <1>2 DEF Accepted
<1>5. Phase' = Phase /\ BoundBy' = BoundBy
  BY <1>3 DEF Phase, PhaseOf, BoundBy, Bound
<1>6. AgreedTo' = AgreedTo
  BY <1>3, AgreedKept DEF AgreedTo, SameEvent
<1>7. Atomic!Accept(h, t)
  BY <1>3, <1>4, <1>5, <1>6 DEF Atomic!Accept, Accepted, AgreedTo, Phase, PhaseOf, BoundBy
<1>8. QED BY <1>7 DEF Atomic!Next

\* The taker compares: a match agrees, unless the HTLC was given up meanwhile.
LEMMA CompareSimulates ==
    ASSUME Paid, Ordered, NEW h \in Swaps, InterceptCompare(h)
    PROVE  Atomic!Next \/ UNCHANGED Abstract
<1>1. /\ Intercepting(h, "none") /\ UNCHANGED <<store, queue, leg, legTerms, tries, paid>>
      /\ \/ verdict' = "match" /\ store["taker"][h].terms = Head(queue["taker"]).terms
         \/ verdict' = "mismatch"
  BY DEF InterceptCompare, legVars, Matches
<1>2. /\ Head(queue["taker"]).swap = h /\ verdict = "none" /\ ~Bound(h)
      /\ StillHeld(h) => /\ Head(queue["taker"]).terms = legTerms[h]
                         /\ legTerms[h] \in Terms
  BY <1>1, InterceptingFirst
<1>3. \A g \in Swaps : ~Agreed(g) /\ (Agreed(g)' => g = h /\ StillHeld(h) /\ verdict' = "match")
  BY <1>1, <1>2 DEF Agreed, StillHeld
<1>4. CASE Agreed(h)'
  <2>1. StillHeld(h) /\ store["taker"][h].terms = legTerms[h]
    BY <1>1, <1>2, <1>3, <1>4
  <2>2. AgreedTo' = [AgreedTo EXCEPT ![h] = Accepted[h]]
    BY <1>1, <1>3, <1>4, <2>1 DEF AgreedTo, Accepted
  <2>3. Accepted' = Accepted /\ Phase' = Phase /\ BoundBy' = BoundBy
    BY <1>1 DEF Accepted, Phase, PhaseOf, BoundBy, Bound
  <2>4. Phase[h] = "open" /\ Accepted[h] \in Terms
    BY <1>2, <2>1 DEF Phase, PhaseOf, Accepted
  <2>5. Atomic!Agree(h)
    BY <1>1, <2>2, <2>3, <2>4
       DEF Atomic!Agree, Accepted, AgreedTo, Phase, PhaseOf, BoundBy
  <2>6. QED BY <2>5 DEF Atomic!Next
<1>5. CASE ~Agreed(h)'
  <2>1. \A g \in Swaps : SameLeg(g)
    BY <1>1, <1>3, <1>5 DEF SameLeg
  <2>2. QED BY <1>1, <2>1, Hidden
<1>6. QED BY <1>4, <1>5

\* The status is updated between the comparison and the answer.
LEMMA WriteSimulates ==
    ASSUME Paid, Ordered, NEW h \in Swaps, InterceptWrite(h)
    PROVE  UNCHANGED Abstract
<1>1. ASSUME NEW v, NEW s \in Statuses, NEW w, InterceptWrites(h, v, s, w), v # "none",
             v = "match" <=> w = "pending", v # "pending", w # "match"
      PROVE  UNCHANGED Abstract
  <2>1. /\ Intercepting(h, v) /\ UpdateStatus("taker", h, s) /\ verdict' = w
        /\ UNCHANGED <<queue, leg, legTerms, tries, paid>>
    BY <1>1 DEF InterceptWrites, legVars
  <2>2. verdict = v /\ Known("taker", h)
    BY <1>1, <2>1, InterceptingFirst
  <2>3. \A g \in Swaps : store'["taker"][g].terms = store["taker"][g].terms
    BY <2>1, <2>2, UpdateKnown DEF Paid, Nodes
  <2>4. \A g \in Swaps : SameLeg(g)
    BY <1>1, <2>1, <2>2 DEF SameLeg, Agreed, StillHeld
  <2>5. QED BY <2>1, <2>3, <2>4, Hidden
<1>2. CASE InterceptWrites(h, "match", "Pending", "pending")
  BY <1>1, <1>2 DEF Statuses
<1>3. CASE InterceptWrites(h, "mismatch", "Failed", "failed")
  BY <1>1, <1>3 DEF Statuses
<1>4. QED BY <1>2, <1>3 DEF InterceptWrite

\* The taker forwards the HTLC it agreed to.
LEMMA ForwardSimulates ==
    ASSUME Paid, Ordered, NEW h \in Swaps, InterceptAnswers(h, "pending", "toMaker")
    PROVE  Atomic!Next
<1>1. /\ Intercepting(h, "pending") /\ StillHeld(h) /\ leg' = [leg EXCEPT ![h] = "toMaker"]
      /\ UNCHANGED <<store, legTerms, tries, paid>> /\ verdict' = "none"
  BY DEF InterceptAnswers, Handled, HandledWith
<1>2. /\ Head(queue["taker"]).swap = h /\ verdict = "pending" /\ legTerms[h] \in Terms
  BY <1>1, InterceptingFirst
<1>3. \A g \in Swaps : ~Agreed(g)' /\ (Agreed(g) <=> g = h)
  BY <1>1, <1>2 DEF Agreed, StillHeld
<1>4. AgreedTo[h] = legTerms[h] /\ AgreedTo' = [AgreedTo EXCEPT ![h] = None]
  BY <1>1, <1>3 DEF AgreedTo
<1>5. Accepted' = Accepted
  BY <1>1 DEF Accepted
<1>6. Phase' = [Phase EXCEPT ![h] = "bound"] /\ BoundBy' = [BoundBy EXCEPT ![h] = legTerms[h]]
  <2>1. \A g \in Swaps : leg'[g] = IF g = h THEN "toMaker" ELSE leg[g]
    BY <1>1 DEF Paid, LegOK
  <2>2. \A g \in Swaps : PhaseOf(g)' = IF g = h THEN "bound" ELSE PhaseOf(g)
    BY <2>1 DEF PhaseOf, Bound
  <2>3. \A g \in Swaps : Bound(g)' <=> (g = h \/ Bound(g))
    BY <2>1 DEF Bound
  <2>4. Phase' = [Phase EXCEPT ![h] = "bound"]
    BY <2>2 DEF Phase
  <2>5. BoundBy' = [BoundBy EXCEPT ![h] = legTerms[h]]
    BY <1>1, <2>3 DEF BoundBy
  <2>6. QED BY <2>4, <2>5
<1>7. Atomic!Bind(h)
  BY <1>1, <1>2, <1>4, <1>5, <1>6
     DEF Atomic!Bind, Accepted, AgreedTo, Phase, PhaseOf, BoundBy
<1>8. QED BY <1>7 DEF Atomic!Next

\* The taker's handler.
LEMMA TakerEventSimulates ==
    ASSUME Paid, Ordered, NEW h \in Swaps, HandleTaker(h)
    PROVE  Atomic!Next \/ UNCHANGED Abstract
<1>1. ASSUME verdict \notin {"match", "pending"}, verdict' \notin {"match", "pending"},
             \A g \in Swaps : leg'[g] = leg[g] \/ (~Bound(g) /\ ~Bound(g)'),
             UNCHANGED <<legTerms, paid>>,
             \A g \in Swaps : store'["taker"][g].terms = store["taker"][g].terms
      PROVE  UNCHANGED Abstract
  <2>1. \A g \in Swaps : SameLeg(g)
    BY <1>1 DEF SameLeg, Agreed
  <2>2. QED BY <1>1, <2>1, Hidden
<1>2. CASE InterceptUnknown(h)
  <2>1. \A g \in Swaps : leg'[g] = leg[g] \/ (~Bound(g) /\ ~Bound(g)')
    BY <1>2 DEF InterceptUnknown, StillHeld, Bound, Paid, LegOK
  <2>2. QED BY <1>1, <1>2, <2>1
            DEF InterceptUnknown, Intercepting, Handled, HandledWith
<1>3. CASE InterceptUnknownLate(h)
  BY <1>1, <1>3 DEF InterceptUnknownLate, Intercepting, legVars
<1>4. CASE InterceptAnswers(h, "failed", "failing")
  <2>1. \A g \in Swaps : leg'[g] = leg[g] \/ (~Bound(g) /\ ~Bound(g)')
    BY <1>4 DEF InterceptAnswers, StillHeld, Bound, Paid, LegOK
  <2>2. QED BY <1>1, <1>4, <2>1
            DEF InterceptAnswers, Intercepting, Handled, HandledWith
<1>5. CASE InterceptLate(h)
  <2>1. /\ verdict \in {"pending", "failed"} /\ verdict' = "none" /\ ~StillHeld(h)
        /\ Head(queue["taker"]).swap = h /\ UNCHANGED <<store, leg, legTerms, paid>>
    BY <1>5 DEF InterceptLate, Intercepting, Ready, legVars
  <2>2. \A g \in Swaps : SameLeg(g)
    BY <2>1 DEF SameLeg, Agreed
  <2>3. QED BY <2>1, <2>2, Hidden
<1>6. CASE PaymentForwarded(h)
  <2>1. verdict = "none" /\ verdict' = "none" /\ UNCHANGED <<leg, legTerms, paid>>
    BY <1>6 DEF PaymentForwarded, Ready, Handled, HandledWith, Paid, HandlerOK, legVars
  <2>2. \A g \in Swaps : store'["taker"][g].terms = store["taker"][g].terms
    <3>1. CASE Known("taker", h)
      BY <1>6, <3>1, UpdateKnown DEF PaymentForwarded, Paid, Nodes, Statuses
    <3>2. CASE ~Known("taker", h)
      BY <1>6, <3>2 DEF PaymentForwarded
    <3>3. QED BY <3>1, <3>2
  <2>3. QED BY <1>1, <2>1, <2>2
<1>7. QED
  BY <1>2, <1>3, <1>4, <1>5, <1>6, CompareSimulates, WriteSimulates, ForwardSimulates
     DEF HandleTaker, InterceptAnswer

\* PaymentClaimable claims the HTLC that has arrived.
LEMMA ClaimSimulates ==
    ASSUME Paid, Ordered, NEW h \in Swaps, PaymentClaimable(h), leg[h] = "arrived"
    PROVE  Atomic!Next
<1>1. /\ leg' = [leg EXCEPT ![h] = "claimed"] /\ paid' = paid \cup {h}
      /\ UNCHANGED <<store, legTerms, tries>> /\ SameEvent
  BY DEF PaymentClaimable, HandledWith, SameEvent
<1>2. \A g \in Swaps : leg'[g] = IF g = h THEN "claimed" ELSE leg[g]
  BY <1>1 DEF Paid, LegOK
<1>3. Accepted' = Accepted
  BY <1>1 DEF Accepted
<1>4. AgreedTo' = AgreedTo
  <2>1. \A g \in Swaps : Agreed(g)' <=> Agreed(g)
    BY <1>1, <1>2, AgreedKept
  <2>2. QED BY <1>1, <2>1 DEF AgreedTo
<1>5. Phase[h] = "bound" /\ Phase' = [Phase EXCEPT ![h] = "settled"] /\ BoundBy' = BoundBy
  BY <1>1, <1>2 DEF Phase, PhaseOf, BoundBy, Bound
<1>6. Atomic!Settle(h)
  BY <1>1, <1>3, <1>4, <1>5
     DEF Atomic!Settle, Accepted, AgreedTo, Phase, PhaseOf, BoundBy
<1>7. QED BY <1>6 DEF Atomic!Next

\* The maker's handler: it claims, or updates a status.
LEMMA MakerEventSimulates ==
    ASSUME Paid, Ordered, NEW h \in Swaps, HandleMaker(h)
    PROVE  Atomic!Next \/ UNCHANGED Abstract
<1>1. CASE PaymentClaimable(h) /\ leg[h] = "arrived"
  BY <1>1, ClaimSimulates
<1>2. CASE ~(PaymentClaimable(h) /\ leg[h] = "arrived")
  <2>1. SameEvent /\ UNCHANGED legVars
    BY <1>2 DEF HandleMaker, PaymentClaimable, PaymentSucceeded, PaymentFailed, PoisonedStore,
                Handled, HandledWith, SameEvent, legVars
  <2>2. \A g \in Swaps : store'["taker"][g].terms = store["taker"][g].terms
    BY DEF HandleMaker, PaymentClaimable, PaymentSucceeded, PaymentFailed, PoisonedStore,
           UpdateStatus, Paid, StoreOK, Nodes
  <2>3. QED BY <2>1, <2>2, Rests
<1>3. QED BY <1>1, <1>2

\* The HTLCs of some swaps stop binding the taker, or it agrees to them no more.
LEMMA FreeSimulates ==
    ASSUME NEW H \in SUBSET Swaps, UNCHANGED <<store, legTerms, paid>>,
           \A h \in H : ~Bound(h)' /\ ~Agreed(h)',
           \A h \in Swaps \ H : SameLeg(h)
    PROVE  Atomic!Free(H)
<1>1. \A h \in Swaps : /\ PhaseOf(h)' = IF h \in H THEN "open" ELSE PhaseOf(h)
                       /\ h \notin H => (Bound(h)' <=> Bound(h)) /\ (Agreed(h)' <=> Agreed(h))
  BY DEF SameLeg, PhaseOf, Bound
<1>2. Accepted' = Accepted
  BY DEF Accepted
<1>3. Phase' = [h \in Swaps |-> IF h \in H THEN "open" ELSE Phase[h]]
  BY <1>1 DEF Phase
<1>4. BoundBy' = [h \in Swaps |-> IF h \in H THEN None ELSE BoundBy[h]]
  BY <1>1 DEF BoundBy
<1>5. AgreedTo' = [h \in Swaps |-> IF h \in H THEN None ELSE AgreedTo[h]]
  BY <1>1 DEF AgreedTo
<1>6. QED
  BY <1>2, <1>3, <1>4, <1>5 DEF Atomic!Free, Accepted, AgreedTo, Phase, PhaseOf, BoundBy

\* LDK moves the HTLC: it fails before the claim or is fulfilled after it.
LEMMA NetworkSimulates ==
    ASSUME Paid, Ordered, NEW h \in Swaps, Network(h)
    PROVE  Atomic!Next \/ UNCHANGED Abstract
<1>1. UNCHANGED <<store, legTerms, tries, paid>> /\ SameEvent
  BY DEF Network, InterceptHtlc, HtlcFails, HtlcArrives, FulfilTaker, FulfilMaker, FailMaker,
         Forget, SameEvent
<1>2. PICK to \in Legs :
        /\ leg' = [leg EXCEPT ![h] = to]
        /\ \/ InterceptHtlc(h) /\ leg[h] = "toTaker" /\ to = "held"
           \/ HtlcArrives(h) /\ leg[h] = "toMaker" /\ to = "arrived"
           \/ FulfilTaker(h) /\ leg[h] = "claimed" /\ to = "returning"
           \/ FulfilMaker(h) /\ leg[h] = "returning" /\ to = "done"
           \/ FailMaker(h) /\ leg[h] = "failing" /\ to = "failed"
           \/ Forget(h) /\ leg[h] = "done" /\ to = "none"
           \/ /\ HtlcFails(h) /\ to = "failing"
              /\ leg[h] \in {"toTaker", "held", "toMaker", "arrived"}
  BY DEF Network, InterceptHtlc, HtlcFails, HtlcArrives, FulfilTaker, FulfilMaker, FailMaker,
         Forget, Moves, Legs
<1>3. \A g \in Swaps : leg'[g] = IF g = h THEN to ELSE leg[g]
  BY <1>2 DEF Paid, LegOK
<1>4. \A g \in Swaps : (Agreed(g)' <=> Agreed(g)) \/ (g = h /\ HtlcFails(h) /\ leg[h] = "held")
  BY <1>1, <1>2, <1>3, AgreedKept
<1>5. \A g \in Swaps \ {h} : SameLeg(g)
  BY <1>1, <1>3, <1>4 DEF SameLeg
<1>6. CASE SameLeg(h)
  BY <1>1, <1>5, <1>6, Hidden
<1>7. CASE HtlcFails(h)
  <2>1. PhaseOf(h) # "settled" /\ ~Bound(h)' /\ ~Agreed(h)'
    BY <1>2, <1>3, <1>7 DEF HtlcFails, Moves, PhaseOf, Bound, Agreed, StillHeld
  <2>2. Atomic!Free({h})
    BY <1>1, <1>5, <2>1, FreeSimulates
  <2>3. Atomic!Withdraw({h})
    BY <2>1, <2>2 DEF Atomic!Withdraw, PhaseOf
  <2>4. QED BY <2>3 DEF Atomic!Next
<1>8. CASE FulfilMaker(h)
  <2>1. PhaseOf(h) = "settled" /\ ~Bound(h)' /\ ~Agreed(h)'
    BY <1>2, <1>3, <1>8 DEF FulfilMaker, Moves, PhaseOf, Bound, Agreed, StillHeld
  <2>2. Atomic!Free({h})
    BY <1>1, <1>5, <2>1, FreeSimulates
  <2>3. Atomic!Complete(h)
    BY <2>1, <2>2 DEF Atomic!Complete, PhaseOf
  <2>4. QED BY <2>3 DEF Atomic!Next
<1>9. CASE ~HtlcFails(h) /\ ~FulfilMaker(h)
  <2>1. SameLeg(h)
    BY <1>1, <1>2, <1>3, <1>4, <1>9 DEF SameLeg, Bound, PhaseOf
  <2>2. QED BY <1>6, <2>1
<1>10. QED BY <1>7, <1>8, <1>9

\* A crash of the taker brings HTLCs back that were not claimed yet, and what it had
\* agreed to is looked at again; one of the maker brings none back.
LEMMA CrashSimulates ==
    ASSUME Paid, Ordered, NEW n \in Nodes, Crash(n)
    PROVE  Atomic!Next \/ UNCHANGED Abstract
<1>1. UNCHANGED <<store, legTerms, tries, paid>>
  BY DEF Crash
<1>2. PICK held :
        /\ leg' = [h \in Swaps |-> IF h \in held THEN "held" ELSE leg[h]]
        /\ \A h \in held : leg[h] \in {"toMaker", "failing"}
        /\ n = "maker" => held = {}
  <2> DEFINE Unanswered(e) == /\ e.kind = "HTLCIntercepted" /\ e.try = tries[e.swap]
                              /\ leg[e.swap] \in {"toMaker", "failing"}
             kept == {i \in DOMAIN handled[n] : handled[n][i].kind = "HTLCIntercepted"
                                                => Unanswered(handled[n][i])}
             again == Pick(handled[n], kept)
             held == {e.swap : e \in {d \in Members(again) : Unanswered(d)}}
  <2>1. leg' = [h \in Swaps |-> IF h \in held THEN "held" ELSE leg[h]]
    BY DEF Crash
  <2>2. \A h \in held : leg[h] \in {"toMaker", "failing"}
    OBVIOUS
  <2>3. handled[n] \in Seq(Events) /\ kept \in SUBSET (1 .. Len(handled[n]))
    BY DEF Paid, QueueOK
  <2>4. Members(again) \subseteq Members(handled[n])
    <3> HIDE DEF kept
    <3>1. Members(again) = {handled[n][i] : i \in kept}
      BY <2>3, PickProperties
    <3>2. QED BY <2>3, <3>1 DEF Members
  <2>5. \A e \in Members(handled[n]) : e.kind = "HTLCIntercepted" => n = "taker"
    BY DEF Paid, QueueOK, Grounded, Coming
  <2> HIDE DEF again
  <2>6. n = "maker" => held = {}
    BY <2>4, <2>5
  <2> HIDE DEF held
  <2>7. QED BY <2>1, <2>2, <2>6
<1>3. CASE n = "maker"
  <2>1. SameEvent
    BY <1>3 DEF Crash, SameEvent
  <2>2. leg' = leg
    BY <1>2, <1>3 DEF Paid, LegOK
  <2>3. QED BY <1>1, <2>1, <2>2, Rests DEF legVars
<1>4. CASE n = "taker"
  <2>1. PICK H \in SUBSET Swaps :
          \A h \in Swaps : h \in H <=> Agreed(h) \/ (h \in held /\ leg[h] = "toMaker")
    <3>1. WITNESS {h \in Swaps : Agreed(h) \/ (h \in held /\ leg[h] = "toMaker")}
                    \in SUBSET Swaps
    <3>2. QED OBVIOUS
  <2>2. \A h \in Swaps : ~Agreed(h)'
    BY <1>4 DEF Crash, Agreed
  <2>3. \A h \in H : PhaseOf(h) # "settled" /\ ~Bound(h)'
    BY <1>2, <2>1, AgreedIsHeld DEF PhaseOf, Bound
  <2>4. \A h \in Swaps \ H : SameLeg(h)
    BY <1>1, <1>2, <2>1, <2>2 DEF SameLeg, Bound
  <2>5. Atomic!Free(H)
    BY <1>1, <2>2, <2>3, <2>4, FreeSimulates
  <2>6. Atomic!Withdraw(H)
    BY <2>3, <2>5 DEF Atomic!Withdraw, PhaseOf
  <2>7. QED BY <2>6 DEF Atomic!Next
<1>5. QED BY <1>3, <1>4 DEF Nodes

\* The requests that write at once.
LEMMA RequestSimulates ==
    ASSUME Paid, Ordered, NEW h \in Swaps, Request(h)
    PROVE  Atomic!Next \/ UNCHANGED Abstract
<1> USE DEF Nodes, Statuses
<1>1. ASSUME NEW t \in Offered, MakerInit(h, t)
      PROVE  UNCHANGED Abstract
  <2>1. \A g \in Swaps : store'["taker"][g] = store["taker"][g]
    BY <1>1 DEF MakerInit, AddSwap, Paid, StoreOK
  <2>2. QED BY <1>1, <2>1, Rests DEF MakerInit, eventVars, SameEvent
<1>2. ASSUME NEW t \in Terms, ExecutePending(h, t)
      PROVE  UNCHANGED Abstract
  BY <1>2, StatusHidden DEF ExecutePending, eventVars, SameEvent
<1>3. CASE ExecuteExpired(h)
  BY <1>3, StatusHidden DEF ExecuteExpired, eventVars, SameEvent
<1>4. QED BY <1>1, <1>2, <1>3, TakerSimulates DEF Request

\* The rest of /makerexecute: a payment starts at the maker, or none.
LEMMA FinishSimulates ==
    ASSUME Paid, Ordered, FinishMaker
    PROVE  UNCHANGED Abstract
<1>1. target \in Swaps /\ Known("maker", target) /\ SameEvent
  BY DEF FinishMaker, ExecuteSend, ExecuteSendFails, ExecuteFailed, Paid, ApiOK, eventVars,
         SameEvent
<1>2. CASE ExecuteSend
  <2>1. /\ UNCHANGED <<store, paid>> /\ leg[target] \in {"none", "failed"}
        /\ \A g \in Swaps :
              /\ leg'[g] = IF g = target THEN "toTaker" ELSE leg[g]
              /\ g # target => tries'[g] = tries[g] /\ legTerms'[g] = legTerms[g]
    BY <1>1, <1>2 DEF ExecuteSend, Paid, LegOK
  <2>2. \A g \in Swaps : Agreed(g)' <=> Agreed(g)
    BY <1>1, <2>1, AgreedKept
  <2>3. \A g \in Swaps : SameLeg(g)
    BY <2>1, <2>2, AgreedIsHeld DEF SameLeg, Bound
  <2>4. QED BY <2>1, <2>3, Hidden
<1>3. CASE ExecuteSendFails
  BY <1>1, <1>3, Rests DEF ExecuteSendFails
<1>4. CASE ExecuteFailed
  BY <1>1, <1>4, StatusHidden DEF ExecuteFailed, Nodes, Statuses
<1>5. QED BY <1>2, <1>3, <1>4 DEF FinishMaker

\* What /listswaps writes.
LEMMA ListSimulates ==
    ASSUME Paid, Ordered, NEW n \in Nodes, NEW h \in Swaps, MapSwap(n, h)
    PROVE  UNCHANGED Abstract
<1> DEFINE s == Aged(copy[n][h])
<1>1. SameEvent /\ UNCHANGED legVars
  BY DEF MapSwap, eventVars, SameEvent
<1>2. CASE s # copy[n][h].status /\ n \notin poisoned
  <2>1. s \in {"Expired", "Failed"}
    BY <1>2 DEF Aged
  <2>2. UpdateStatus(n, h, s) /\ Known(n, h)
    BY <1>2 DEF MapSwap, Paid, ApiOK
  <2> HIDE DEF s
  <2>3. QED BY <1>1, <2>1, <2>2, StatusHidden DEF Statuses
<1>3. CASE ~(s # copy[n][h].status /\ n \notin poisoned)
  BY <1>1, <1>3, Rests DEF MapSwap
<1>4. QED BY <1>2, <1>3

\* Every step of the two nodes and their HTLCs is one of AtomicSwap, or none.
LEMMA StepSimulates ==
    ASSUME SwapsAssumption, Paid, Ordered, [Next]_vars
    PROVE  Atomic!Next \/ UNCHANGED Abstract
<1>1. ASSUME NEW n \in Nodes, NEW hs, ListSwaps(n, hs) \/ Persist(n)
      PROVE  UNCHANGED Abstract
  BY <1>1, Rests DEF ListSwaps, Persist, eventVars, SameEvent
<1>2. CASE ExecuteUnknown \/ Tick \/ UNCHANGED vars
  BY <1>2, Rests DEF ExecuteUnknown, Tick, vars, eventVars, SameEvent
<1>3. QED
  BY <1>1, <1>2, RequestSimulates, FinishSimulates, ListSimulates, TakerEventSimulates,
     MakerEventSimulates, NetworkSimulates, CrashSimulates
     DEF Next, FinishList

\* The swaps of maker and taker implement AtomicSwap, for any swaps, terms, second
\* executions, timeouts and crashes: what binds the taker are terms it accepted when it
\* compared them, and after the maker was paid there is no way back.
THEOREM KeepsTermsHolds == Spec => KeepsTerms
<1>1. Init => Atomic!Init
  BY DEF Init, Atomic!Init, Bound, Agreed, Empty, NoSwap, Nodes
<1>2. Paid /\ Ordered /\ [Next]_vars => [Atomic!Next]_Atomic!swapVars
  BY StepSimulates, SwapsAssumption
     DEF Abstract, Accepted, AgreedTo, Phase, PhaseOf, BoundBy, Atomic!swapVars
<1>3. QED
  BY <1>1, <1>2, InvariantPaid, InvariantOrdered, PTL DEF Spec, KeepsTerms, Atomic!Spec
=============================================================================
