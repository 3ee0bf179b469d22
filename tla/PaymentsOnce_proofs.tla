------------------------ MODULE PaymentsOnce_proofs ------------------------
(***************************************************************************)
(* PaidAtMostOnce and AmountsMatchPayments, for any payments and attempts. *)
(* Until the first restart there is at most one event for a payment, and   *)
(* what it is, the store, LDK and the amounts are always at one of a few   *)
(* combinations.                                                           *)
(***************************************************************************)
EXTENDS Payments_proofs

Waiting == Members(queue)
About(W, p) == {e \in W : e.id = p}
Ev(k, p) == [kind |-> k, id |-> p]

\* The payment whose amount was applied and whose status was not written yet.
Current == IF counted THEN {Head(queue).id} ELSE {}

Unique(s) == \A i, j \in 1 .. Len(s) : s[i].id = s[j].id => i = j

\* One event for a payment; an amount belongs to the first event.
Ordered == Unique(queue) /\ (counted => queue # <<>>)

OutboundAt(p) ==
    \/ /\ outbound[p] \in {"none", "Failed"} /\ target # p /\ ldk[p] = "none"
       /\ About(Waiting, p) = {} /\ fulfilled[p] = 0 /\ offered[p] = 0
    \/ /\ outbound[p] = "Pending" /\ target = p /\ ldk[p] = "none"
       /\ About(Waiting, p) = {} /\ fulfilled[p] = 0 /\ offered[p] = 0
    \/ /\ outbound[p] = "Pending" /\ target # p /\ ldk[p] \in {"invoice", "inflight"}
       /\ About(Waiting, p) = {} /\ fulfilled[p] = 0 /\ offered[p] = 0
    \/ /\ outbound[p] = "Pending" /\ target # p /\ ldk[p] = "none"
       /\ About(Waiting, p) = {Ev("PaymentFailed", p)} /\ fulfilled[p] = 0 /\ offered[p] = 0
    \/ /\ outbound[p] = "Pending" /\ target # p /\ ldk[p] = "fulfilled"
       /\ About(Waiting, p) = {Ev("PaymentSent", p)} /\ fulfilled[p] = 1
       /\ offered[p] = IF p \in Current /\ p \notin Offers THEN 1 ELSE 0
    \/ /\ outbound[p] = "Succeeded" /\ target # p /\ ldk[p] \in {"fulfilled", "none"}
       /\ About(Waiting, p) = {} /\ fulfilled[p] = 1
       /\ offered[p] = IF p \in Offers THEN 0 ELSE 1

InboundAt(i) ==
    \/ /\ arrived[i] \in {"no", "gone"}
       /\ About(Waiting, i) = {} /\ fulfilled[i] = 0 /\ received[i] = 0
    \/ /\ arrived[i] \in {"claimable", "gone"}
       /\ About(Waiting, i) = {Ev("PaymentClaimable", i)}
       /\ fulfilled[i] = 0 /\ received[i] = 0
    \/ /\ arrived[i] = "claimed"
       /\ About(Waiting, i) = {Ev("PaymentClaimed", i)} /\ fulfilled[i] = 1
       /\ received[i] = IF i \in Current THEN 1 ELSE 0
    \/ /\ arrived[i] = "claimed"
       /\ About(Waiting, i) = {} /\ fulfilled[i] = 1 /\ received[i] = 1

ForwardAt(f) ==
    \/ /\ arrived[f] = "no"
       /\ About(Waiting, f) = {} /\ fulfilled[f] = 0 /\ offered[f] = 0 /\ received[f] = 0
    \/ /\ arrived[f] = "claimed"
       /\ About(Waiting, f) = {Ev("PaymentForwarded", f)} /\ fulfilled[f] = 1
       /\ received[f] = 0 /\ offered[f] = IF f \in Current THEN 1 ELSE 0
    \/ /\ arrived[f] = "claimed"
       /\ About(Waiting, f) = {} /\ fulfilled[f] = 1 /\ offered[f] = 1 /\ received[f] = 1

Accounts ==
    /\ Ordered
    /\ \A p \in Outbound : OutboundAt(p)
    /\ \A i \in Inbound : InboundAt(i)
    /\ \A f \in Forwards : ForwardAt(f)

\* The inductive invariant, next to the types.
Once == restarts = 0 => Accounts

----------------------------------------------------------------------------
(* The queue *)

LEMMA AppendUnique ==
    ASSUME NEW s \in Seq(Event), NEW e \in Event, Unique(s), About(Members(s), e.id) = {}
    PROVE  Unique(Append(s, e))
<1>1. /\ Len(Append(s, e)) = Len(s) + 1 /\ Len(s) \in Nat
      /\ \A i \in 1 .. Len(s) : Append(s, e)[i] = s[i]
      /\ Append(s, e)[Len(s) + 1] = e
  OBVIOUS
<1>2. \A i \in 1 .. Len(s) : s[i].id # e.id
  BY DEF About, Members
<1>3. QED BY <1>1, <1>2 DEF Unique

\* What is left when the first event is taken is not about its payment.
LEMMA TailUnique ==
    ASSUME NEW s \in Seq(Event), s # <<>>, Unique(s)
    PROVE  /\ Tail(s) \in Seq(Event) /\ Unique(Tail(s))
           /\ Head(s) \in Event /\ Head(s) \in Members(s)
           /\ About(Members(s), Head(s).id) = {Head(s)}
           /\ About(Members(Tail(s)), Head(s).id) = {}
           /\ \A p : p # Head(s).id => About(Members(Tail(s)), p) = About(Members(s), p)
<1>1. /\ Tail(s) \in Seq(Event) /\ Len(Tail(s)) = Len(s) - 1 /\ Len(s) \in Nat \ {0}
      /\ \A i \in 1 .. Len(Tail(s)) : Tail(s)[i] = s[i + 1]
      /\ Head(s) = s[1] /\ Head(s) \in Event
  BY HeadTailProperties, EmptySeq
<1>2. Unique(Tail(s))
  BY <1>1 DEF Unique
<1>3. \A i \in 2 .. Len(s) : s[i].id # s[1].id
  BY <1>1 DEF Unique
<1>4. Members(s) = {s[1]} \cup Members(Tail(s))
  <2>1. ASSUME NEW i \in 1 .. Len(s) PROVE s[i] \in {s[1]} \cup Members(Tail(s))
    <3>1. CASE i = 1
      BY <3>1
    <3>2. CASE i # 1
      <4>1. i - 1 \in 1 .. Len(Tail(s)) /\ s[i] = Tail(s)[i - 1]
        BY <1>1, <3>2
      <4>2. QED BY <4>1 DEF Members
    <3>3. QED BY <3>1, <3>2
  <2>2. Members(Tail(s)) \subseteq Members(s) /\ s[1] \in Members(s)
    BY <1>1 DEF Members
  <2>3. QED BY <2>1, <2>2 DEF Members
<1>5. \A e \in Members(Tail(s)) : e.id # s[1].id
  BY <1>1, <1>3 DEF Members
<1>6. QED BY <1>1, <1>2, <1>4, <1>5 DEF About

\* LDK queues the event of a payment that has none.
LEMMA Enqueue ==
    ASSUME TypeOK, Ordered, NEW e \in Event, About(Waiting, e.id) = {},
           queue' = Append(queue, e), counted' = counted
    PROVE  /\ Ordered' /\ Current' = Current
           /\ About(Waiting', e.id) = {e}
           /\ \A p : p # e.id => About(Waiting', p) = About(Waiting, p)
<1>1. Unique(queue')
  BY AppendUnique DEF TypeOK, Ordered, Waiting
<1>2. /\ Waiting' = Waiting \cup {e} /\ queue' # <<>>
      /\ queue # <<>> => Head(queue') = Head(queue)
  BY MembersOfAppend DEF TypeOK, Waiting
<1>3. Ordered' /\ Current' = Current
  BY <1>1, <1>2 DEF Ordered, Current
<1>4. \A p : About(Waiting', p) = About(Waiting, p) \cup IF p = e.id THEN {e} ELSE {}
  BY <1>2 DEF About
<1>5. QED BY <1>3, <1>4

\* The first event: its payment has no other.
LEMMA First ==
    ASSUME TypeOK, Ordered, NEW k, NEW p, Ready(k, p)
    PROVE  /\ queue # <<>> /\ Head(queue).id = p
           /\ About(Waiting, p) = {Ev(k, p)}
           /\ ~counted => Current = {}
           /\ counted => Current = {p}
<1>1. queue # <<>> /\ Head(queue) = Ev(k, p) /\ Ev(k, p).id = p
  BY DEF Ready, Ev
<1>2. Head(queue).id = p
  BY <1>1
<1>3. About(Waiting, p) = {Ev(k, p)}
  BY <1>1, <1>2, TailUnique DEF TypeOK, Ordered, Waiting
<1>4. QED BY <1>1, <1>2, <1>3 DEF Current

\* An amount is written only for a payment that has an event.
LEMMA NotCurrent ==
    ASSUME TypeOK, Ordered, NEW p, About(Waiting, p) = {}
    PROVE  p \notin Current
<1>1. ASSUME counted PROVE Head(queue) \in About(Waiting, Head(queue).id)
  BY <1>1, TailUnique DEF Ordered, TypeOK, Waiting
<1>2. QED BY <1>1 DEF Current

\* The handler of the first event ends.
LEMMA Dequeue ==
    ASSUME TypeOK, Ordered, NEW k, NEW p, Ready(k, p), HandledWith(<<>>)
    PROVE  /\ Ordered' /\ Current' = {}
           /\ About(Waiting', p) = {}
           /\ \A q : q # p => About(Waiting', q) = About(Waiting, q) /\ q \notin Current
<1>1. queue # <<>> /\ Head(queue).id = p
  BY First
<1>2. queue' = Tail(queue)
  BY <1>1, TailUnique, ConcatEmptySeq DEF TypeOK, Ordered, HandledWith
<1>3. QED BY <1>1, <1>2, TailUnique DEF TypeOK, Ordered, HandledWith, Waiting, Current

\* The handler of the first event makes LDK queue another for the same payment.
LEMMA Requeue ==
    ASSUME TypeOK, Ordered, NEW k, NEW p, Ready(k, p), NEW e \in Event, e.id = p,
           HandledWith(<<e>>)
    PROVE  /\ Ordered' /\ Current' = {}
           /\ About(Waiting', p) = {e}
           /\ \A q : q # p => About(Waiting', q) = About(Waiting, q) /\ q \notin Current
<1>1. queue # <<>> /\ Head(queue).id = p
  BY First
<1>2. /\ Tail(queue) \in Seq(Event) /\ Unique(Tail(queue))
      /\ About(Members(Tail(queue)), p) = {}
      /\ \A q : q # p => About(Members(Tail(queue)), q) = About(Waiting, q)
  BY <1>1, TailUnique DEF TypeOK, Ordered, Waiting
<1>3. queue' = Append(Tail(queue), e)
  BY <1>2 DEF HandledWith
<1>4. Unique(queue') /\ Waiting' = Members(Tail(queue)) \cup {e}
  BY <1>2, <1>3, AppendUnique, MembersOfAppend DEF Waiting
<1>5. QED BY <1>1, <1>2, <1>4 DEF Ordered, HandledWith, Current, About

\* The handler of the first event writes the amount.
LEMMA Count ==
    ASSUME TypeOK, Ordered, NEW k, NEW p, Ready(k, p), ~counted,
           counted' = TRUE, queue' = queue
    PROVE  /\ Ordered' /\ Current' = {p}
           /\ Waiting' = Waiting
           /\ Current = {}
<1>1. queue # <<>> /\ Head(queue).id = p
  BY First
<1>2. Ordered'
  BY <1>1 DEF Ordered
<1>3. QED BY <1>1, <1>2 DEF Current, Waiting

----------------------------------------------------------------------------
(* The payments a step is not about *)

LEMMA OutboundFrame ==
    ASSUME NEW p \in Outbound, OutboundAt(p), target' = p <=> target = p,
           outbound'[p] = outbound[p], ldk'[p] = ldk[p],
           fulfilled'[p] = fulfilled[p], offered'[p] = offered[p],
           About(Waiting', p) = About(Waiting, p), p \in Current' <=> p \in Current
    PROVE  OutboundAt(p)'
BY DEF OutboundAt

LEMMA InboundFrame ==
    ASSUME NEW i \in Inbound, InboundAt(i), arrived'[i] = arrived[i],
           fulfilled'[i] = fulfilled[i], received'[i] = received[i],
           About(Waiting', i) = About(Waiting, i), i \in Current' <=> i \in Current
    PROVE  InboundAt(i)'
BY DEF InboundAt

LEMMA ForwardFrame ==
    ASSUME NEW f \in Forwards, ForwardAt(f), arrived'[f] = arrived[f],
           fulfilled'[f] = fulfilled[f], received'[f] = received[f], offered'[f] = offered[f],
           About(Waiting', f) = About(Waiting, f), f \in Current' <=> f \in Current
    PROVE  ForwardAt(f)'
BY DEF ForwardAt

\* A step about the payment m.
LEMMA Others ==
    ASSUME PaymentsAssumption, Accounts, NEW m \in Moved, Ordered',
           \A p \in Moved \ {m} : /\ About(Waiting', p) = About(Waiting, p)
                                  /\ p \in Current' <=> p \in Current
                                  /\ fulfilled'[p] = fulfilled[p],
           \A p \in Outbound \ {m} : /\ target' = p <=> target = p
                                     /\ outbound'[p] = outbound[p] /\ ldk'[p] = ldk[p],
           \A p \in (Outbound \cup Forwards) \ {m} : offered'[p] = offered[p],
           \A p \in (Inbound \cup Forwards) \ {m} :
              received'[p] = received[p] /\ arrived'[p] = arrived[p],
           m \in Outbound => OutboundAt(m)',
           m \in Inbound => InboundAt(m)',
           m \in Forwards => ForwardAt(m)'
    PROVE  Accounts'
<1>1. ASSUME NEW p \in Outbound \ {m} PROVE OutboundAt(p)'
  BY OutboundFrame DEF Accounts, Moved
<1>2. ASSUME NEW p \in Inbound \ {m} PROVE InboundAt(p)'
  BY InboundFrame DEF Accounts, Moved
<1>3. ASSUME NEW p \in Forwards \ {m} PROVE ForwardAt(p)'
  BY ForwardFrame DEF Accounts, Moved
<1>4. QED BY <1>1, <1>2, <1>3 DEF Accounts

\* A step about none.
LEMMA Nothing ==
    ASSUME Accounts,
           UNCHANGED <<outbound, offered, received, target, queue, counted, ldk, arrived,
                       fulfilled>>
    PROVE  Accounts'
<1>1. Waiting' = Waiting /\ Current' = Current /\ Ordered'
  BY DEF Waiting, Current, Ordered, Accounts
<1>2. \A p \in Outbound : OutboundAt(p)'
  BY <1>1, OutboundFrame DEF Accounts
<1>3. \A p \in Inbound : InboundAt(p)'
  BY <1>1, InboundFrame DEF Accounts
<1>4. \A p \in Forwards : ForwardAt(p)'
  BY <1>1, ForwardFrame DEF Accounts
<1>5. QED BY <1>1, <1>2, <1>3, <1>4 DEF Accounts

----------------------------------------------------------------------------
(* The steps *)

LEMMA InitOnce == PaymentsAssumption /\ Init => Once
<1> SUFFICES ASSUME PaymentsAssumption, Init PROVE Accounts
    BY DEF Once
<1>1. queue = <<>> /\ Len(queue) = 0 /\ counted = FALSE
  BY DEF Init
<1>2. Waiting = {} /\ Ordered
  BY <1>1 DEF Waiting, Members, Ordered, Unique
<1>3. \A p : About(Waiting, p) = {}
  BY <1>2 DEF About
<1>4. \A p \in Outbound : target # p
  BY DEF Init, PaymentsAssumption
<1>5. QED
  BY <1>2, <1>3, <1>4 DEF Init, Accounts, OutboundAt, InboundAt, ForwardAt, Moved

\* A payment that is written again, or refused, is one that was never fulfilled.
LEMMA ApiOnce ==
    ASSUME PaymentsAssumption, TypeOK, Accounts,
           \/ \E p \in Outbound : AddOutboundPayment(p)
           \/ Send \/ SendFailed
    PROVE  Accounts'
<1>1. PICK m \in Outbound :
        \/ AddOutboundPayment(m)
        \/ m = target /\ (Send \/ SendFailed)
  BY DEF Send, SendFailed, TypeOK
<1>2. UNCHANGED <<amountVars, eventVars, arrived, fulfilled>>
  BY <1>1 DEF AddOutboundPayment, Send, SendFailed, ldkVars
<1>3. Waiting' = Waiting /\ Current' = Current /\ Ordered'
  BY <1>2 DEF eventVars, Waiting, Current, Ordered, Accounts
<1>4. \A p \in Outbound \ {m} : /\ target' = p <=> target = p
                                /\ outbound'[p] = outbound[p] /\ ldk'[p] = ldk[p]
  BY <1>1
     DEF AddOutboundPayment, Send, SendFailed, TypeOK, PaymentsAssumption, storeVars, ldkVars
<1>5. OutboundAt(m)'
  <2>1. OutboundAt(m)
    BY DEF Accounts
  <2>2. CASE AddOutboundPayment(m)
    <3>1. /\ target = None /\ target' = m /\ outbound[m] \in {"none", "Failed"}
          /\ outbound'[m] = "Pending" /\ ldk' = ldk
      BY <2>2 DEF AddOutboundPayment, CanAdd, TypeOK, ldkVars
    <3>2. QED
      BY <1>2, <1>3, <2>1, <3>1 DEF OutboundAt, amountVars
  <2>3. CASE m = target /\ Send
    <3>1. /\ target' = None /\ m # None /\ outbound' = outbound
          /\ ldk'[m] \in {"invoice", "inflight"}
      BY <2>3 DEF Send, TypeOK, PaymentsAssumption, storeVars
    <3>2. QED
      BY <1>2, <1>3, <2>1, <2>3, <3>1 DEF OutboundAt, amountVars
  <2>4. CASE m = target /\ SendFailed
    <3>1. target' = None /\ m # None /\ outbound'[m] = "Failed" /\ ldk' = ldk
      BY <2>4 DEF SendFailed, TypeOK, PaymentsAssumption, ldkVars
    <3>2. QED
      BY <1>2, <1>3, <2>1, <2>4, <3>1 DEF OutboundAt, amountVars
  <2>5. QED BY <1>1, <2>2, <2>3, <2>4
<1>6. m \in Moved /\ m \notin Inbound /\ m \notin Forwards
  BY DEF PaymentsAssumption, Moved
<1>7. QED
  BY <1>2, <1>3, <1>4, <1>5, <1>6, Others DEF amountVars

\* LDK resolves a payment once: it has an event for it, or forgets it, after the
\* store has it as Succeeded.
LEMMA ResolveOnce ==
    ASSUME PaymentsAssumption, TypeOK, Accounts, NEW m \in Outbound, Resolve(m)
    PROVE  Accounts'
<1>1. UNCHANGED <<storeVars, amountVars, apiVars, handled, counted, arrived>>
  BY DEF Resolve
<1>2. /\ \A p \in Outbound \ {m} : ldk'[p] = ldk[p]
      /\ \A p \in Moved \ {m} : fulfilled'[p] = fulfilled[p]
  BY DEF Resolve, InvoiceComes, Fulfil, Abandon, Forget, TypeOK
<1>3. m \in Moved /\ m \notin Inbound /\ m \notin Forwards
  BY DEF PaymentsAssumption, Moved
<1>4. ASSUME Ordered', OutboundAt(m)', Current' = Current,
             \A p \in Moved \ {m} : About(Waiting', p) = About(Waiting, p)
      PROVE  Accounts'
  BY <1>1, <1>2, <1>3, <1>4, Others DEF storeVars, amountVars, apiVars
<1>5. OutboundAt(m) /\ Ordered
  BY DEF Accounts
<1>6. ASSUME NEW k \in {"PaymentSent", "PaymentFailed"}, Push(k, m), About(Waiting, m) = {}
      PROVE  /\ Ordered' /\ Current' = Current /\ About(Waiting', m) = {Ev(k, m)}
             /\ \A p : p # m => About(Waiting', p) = About(Waiting, p)
  <2>1. /\ Ev(k, m) \in Event /\ Ev(k, m).id = m
        /\ queue' = Append(queue, Ev(k, m)) /\ counted' = counted
    BY <1>1, <1>6 DEF Ev, Event, Push
  <2>2. QED BY <1>5, <1>6, <2>1, Enqueue
<1>7. CASE InvoiceComes(m) \/ Forget(m)
  <2>1. Waiting' = Waiting /\ Current' = Current /\ Ordered' /\ fulfilled' = fulfilled
    BY <1>1, <1>5, <1>7 DEF InvoiceComes, Forget, Waiting, Current, Ordered
  <2>2. OutboundAt(m)'
    <3>1. CASE InvoiceComes(m)
      <4>1. ldk[m] = "invoice" /\ ldk'[m] = "inflight"
        BY <3>1 DEF InvoiceComes, TypeOK
      <4>2. QED
        BY <1>1, <1>5, <2>1, <4>1 DEF OutboundAt, storeVars, amountVars, apiVars
    <3>2. CASE Forget(m)
      <4>1. ldk[m] = "fulfilled" /\ ldk'[m] = "none" /\ Ev("PaymentSent", m) \notin Waiting
        BY <3>2, AnnouncedIsMember DEF Forget, TypeOK, Events, Waiting, Ev
      <4>2. Ev("PaymentSent", m) \in About(Waiting, m) => Ev("PaymentSent", m) \in Waiting
        BY DEF About
      <4>3. QED
        BY <1>1, <1>5, <2>1, <4>1, <4>2 DEF OutboundAt, storeVars, amountVars, apiVars
    <3>3. QED BY <1>7, <3>1, <3>2
  <2>3. QED BY <1>4, <2>1, <2>2
<1>8. CASE Fulfil(m)
  <2>1. /\ ldk[m] = "inflight" /\ ldk'[m] = "fulfilled"
        /\ fulfilled'[m] = fulfilled[m] + 1 /\ Push("PaymentSent", m)
    BY <1>3, <1>8 DEF Fulfil, TypeOK
  <2>2. /\ outbound[m] = "Pending" /\ target # m /\ About(Waiting, m) = {}
        /\ fulfilled[m] = 0 /\ offered[m] = 0
    BY <1>5, <2>1 DEF OutboundAt
  <2>3. m \notin Current
    BY <1>5, <2>2, NotCurrent
  <2>4. /\ Ordered' /\ Current' = Current /\ About(Waiting', m) = {Ev("PaymentSent", m)}
        /\ \A p : p # m => About(Waiting', p) = About(Waiting, p)
    BY <1>6, <2>1, <2>2
  <2>5. OutboundAt(m)'
    BY <1>1, <2>1, <2>2, <2>3, <2>4 DEF OutboundAt, storeVars, amountVars, apiVars
  <2>6. QED BY <1>4, <2>4, <2>5
<1>9. CASE Abandon(m)
  <2>1. /\ ldk[m] \in {"invoice", "inflight"} /\ ldk'[m] = "none"
        /\ fulfilled' = fulfilled /\ Push("PaymentFailed", m)
    BY <1>9 DEF Abandon, TypeOK
  <2>2. /\ outbound[m] = "Pending" /\ target # m /\ About(Waiting, m) = {}
        /\ fulfilled[m] = 0 /\ offered[m] = 0
    BY <1>5, <2>1 DEF OutboundAt
  <2>3. /\ Ordered' /\ Current' = Current /\ About(Waiting', m) = {Ev("PaymentFailed", m)}
        /\ \A p : p # m => About(Waiting', p) = About(Waiting, p)
    BY <1>6, <2>1, <2>2
  <2>4. OutboundAt(m)'
    BY <1>1, <2>1, <2>2, <2>3 DEF OutboundAt, storeVars, amountVars, apiVars
  <2>5. QED BY <1>4, <2>3, <2>4
<1>10. QED BY <1>7, <1>8, <1>9 DEF Resolve

\* The events of outbound payments: the amount is applied once, before the status.
LEMMA OutboundOnce ==
    ASSUME PaymentsAssumption, TypeOK, Accounts, NEW m \in Outbound,
           SentAmount(m) \/ PaymentSent(m) \/ PaymentFailed(m)
    PROVE  Accounts'
<1>1. /\ UNCHANGED <<received, apiVars, ldkVars>>
      /\ \A p \in Outbound \ {m} : outbound'[p] = outbound[p]
      /\ \A p \in (Outbound \cup Forwards) \ {m} : offered'[p] = offered[p]
  BY DEF SentAmount, PaymentSent, PaymentFailed, TypeOK, storeVars, amountVars
<1>2. m \in Moved /\ m \notin Inbound /\ m \notin Forwards
  BY DEF PaymentsAssumption, Moved
<1>3. ASSUME Ordered', OutboundAt(m)',
             \A p \in Moved \ {m} : /\ About(Waiting', p) = About(Waiting, p)
                                    /\ p \in Current' <=> p \in Current
      PROVE  Accounts'
  BY <1>1, <1>2, <1>3, Others DEF apiVars, ldkVars
<1>4. OutboundAt(m) /\ Ordered
  BY DEF Accounts
<1>5. Ev("PaymentSent", m) # Ev("PaymentFailed", m)
  BY DEF Ev
<1>6. CASE SentAmount(m)
  <2>1. /\ Ordered' /\ Current' = {m} /\ Waiting' = Waiting /\ Current = {}
        /\ About(Waiting, m) = {Ev("PaymentSent", m)}
    BY <1>4, <1>6, Count, First DEF SentAmount
  <2>2. /\ outbound[m] = "Pending" /\ target # m /\ ldk[m] = "fulfilled"
        /\ fulfilled[m] = 1 /\ offered[m] = 0
    BY <1>4, <1>5, <2>1 DEF OutboundAt
  <2>3. outbound' = outbound /\ offered'[m] = IF m \in Offers THEN 0 ELSE 1
    BY <1>6, <2>2 DEF SentAmount, TypeOK, storeVars
  <2>4. OutboundAt(m)'
    BY <1>1, <2>1, <2>2, <2>3 DEF OutboundAt, apiVars, ldkVars
  <2>5. QED BY <1>3, <2>1, <2>4
<1>7. CASE PaymentSent(m)
  <2>1. /\ Ready("PaymentSent", m) /\ counted /\ HandledWith(<<>>)
        /\ outbound'[m] = "Succeeded" /\ offered' = offered
    BY <1>7 DEF PaymentSent, TypeOK, amountVars
  <2>2. /\ Ordered' /\ Current' = {} /\ About(Waiting', m) = {}
        /\ \A q : q # m => About(Waiting', q) = About(Waiting, q) /\ q \notin Current
    BY <1>4, <2>1, Dequeue
  <2>3. Current = {m} /\ About(Waiting, m) = {Ev("PaymentSent", m)}
    BY <1>4, <2>1, First
  <2>4. /\ target # m /\ ldk[m] = "fulfilled" /\ fulfilled[m] = 1
        /\ offered[m] = IF m \in Offers THEN 0 ELSE 1
    BY <1>4, <1>5, <2>3 DEF OutboundAt
  <2>5. OutboundAt(m)'
    BY <1>1, <2>1, <2>2, <2>4 DEF OutboundAt, apiVars, ldkVars
  <2>6. QED BY <1>3, <2>2, <2>5
<1>8. CASE PaymentFailed(m)
  <2>1. /\ Ready("PaymentFailed", m) /\ HandledWith(<<>>)
        /\ outbound'[m] = "Failed" /\ offered' = offered
    BY <1>8 DEF PaymentFailed, TypeOK, amountVars
  <2>2. /\ Ordered' /\ Current' = {} /\ About(Waiting', m) = {}
        /\ \A q : q # m => About(Waiting', q) = About(Waiting, q) /\ q \notin Current
    BY <1>4, <2>1, Dequeue
  <2>3. About(Waiting, m) = {Ev("PaymentFailed", m)}
    BY <1>4, <2>1, First
  <2>4. target # m /\ ldk[m] = "none" /\ fulfilled[m] = 0 /\ offered[m] = 0
    BY <1>4, <1>5, <2>3 DEF OutboundAt
  <2>5. OutboundAt(m)'
    BY <1>1, <2>1, <2>2, <2>4 DEF OutboundAt, apiVars, ldkVars
  <2>6. QED BY <1>3, <2>2, <2>5
<1>9. QED BY <1>6, <1>7, <1>8

\* The events of inbound payments: a claim makes one PaymentClaimed.
LEMMA InboundOnce ==
    ASSUME PaymentsAssumption, TypeOK, Accounts, NEW m \in Inbound,
           PaymentClaimable(m) \/ ClaimedAmount(m) \/ PaymentClaimed(m)
    PROVE  Accounts'
<1>1. /\ UNCHANGED <<outbound, offered, apiVars, ldk>>
      /\ \A p \in Moved \ {m} : fulfilled'[p] = fulfilled[p]
      /\ \A p \in (Inbound \cup Forwards) \ {m} :
            received'[p] = received[p] /\ arrived'[p] = arrived[p]
  BY DEF PaymentClaimable, ClaimedAmount, PaymentClaimed, TypeOK, storeVars, amountVars, ldkVars
<1>2. m \in Moved /\ m \notin Outbound /\ m \notin Forwards
  BY DEF PaymentsAssumption, Moved
<1>3. ASSUME Ordered', InboundAt(m)',
             \A p \in Moved \ {m} : /\ About(Waiting', p) = About(Waiting, p)
                                    /\ p \in Current' <=> p \in Current
      PROVE  Accounts'
  BY <1>1, <1>2, <1>3, Others DEF apiVars
<1>4. InboundAt(m) /\ Ordered
  BY DEF Accounts
<1>5. Ev("PaymentClaimable", m) # Ev("PaymentClaimed", m)
  BY DEF Ev
<1>6. CASE PaymentClaimable(m)
  <2>1. Ready("PaymentClaimable", m) /\ received' = received
    BY <1>6 DEF PaymentClaimable, amountVars
  <2>2. About(Waiting, m) = {Ev("PaymentClaimable", m)}
    BY <1>4, <2>1, First
  <2>3. arrived[m] \in {"claimable", "gone"} /\ fulfilled[m] = 0 /\ received[m] = 0
    BY <1>4, <1>5, <2>2 DEF InboundAt
  <2>4. CASE arrived[m] = "claimable"
    <3>1. /\ arrived'[m] = "claimed" /\ fulfilled'[m] = 1
          /\ HandledWith(<<Ev("PaymentClaimed", m)>>)
      BY <1>2, <1>6, <2>3, <2>4 DEF PaymentClaimable, TypeOK, Ev
    <3>2. Ev("PaymentClaimed", m) \in Event /\ Ev("PaymentClaimed", m).id = m
      BY DEF Ev, Event
    <3>3. /\ Ordered' /\ Current' = {} /\ About(Waiting', m) = {Ev("PaymentClaimed", m)}
          /\ \A q : q # m => About(Waiting', q) = About(Waiting, q) /\ q \notin Current
      BY <1>4, <2>1, <3>1, <3>2, Requeue
    <3>4. InboundAt(m)'
      BY <2>1, <2>3, <3>1, <3>3 DEF InboundAt
    <3>5. QED BY <1>3, <3>3, <3>4
  <2>5. CASE arrived[m] = "gone"
    <3>1. UNCHANGED <<arrived, fulfilled>> /\ HandledWith(<<>>)
      BY <1>6, <2>5 DEF PaymentClaimable
    <3>2. /\ Ordered' /\ Current' = {} /\ About(Waiting', m) = {}
          /\ \A q : q # m => About(Waiting', q) = About(Waiting, q) /\ q \notin Current
      BY <1>4, <2>1, <3>1, Dequeue
    <3>3. InboundAt(m)'
      BY <2>1, <2>3, <2>5, <3>1, <3>2 DEF InboundAt
    <3>4. QED BY <1>3, <3>2, <3>3
  <2>6. QED BY <2>3, <2>4, <2>5
<1>7. CASE ClaimedAmount(m)
  <2>1. /\ Ordered' /\ Current' = {m} /\ Waiting' = Waiting /\ Current = {}
        /\ About(Waiting, m) = {Ev("PaymentClaimed", m)}
    BY <1>4, <1>7, Count, First DEF ClaimedAmount
  <2>2. arrived[m] = "claimed" /\ fulfilled[m] = 1 /\ received[m] = 0
    BY <1>4, <1>5, <2>1 DEF InboundAt
  <2>3. received'[m] = 1 /\ arrived' = arrived /\ fulfilled' = fulfilled
    BY <1>7, <2>2 DEF ClaimedAmount, TypeOK, ldkVars
  <2>4. InboundAt(m)'
    BY <2>1, <2>2, <2>3 DEF InboundAt
  <2>5. QED BY <1>3, <2>1, <2>4
<1>8. CASE PaymentClaimed(m)
  <2>1. /\ Ready("PaymentClaimed", m) /\ counted /\ HandledWith(<<>>)
        /\ UNCHANGED <<received, arrived, fulfilled>>
    BY <1>8 DEF PaymentClaimed, amountVars, ldkVars
  <2>2. /\ Ordered' /\ Current' = {} /\ About(Waiting', m) = {}
        /\ \A q : q # m => About(Waiting', q) = About(Waiting, q) /\ q \notin Current
    BY <1>4, <2>1, Dequeue
  <2>3. Current = {m} /\ About(Waiting, m) = {Ev("PaymentClaimed", m)}
    BY <1>4, <2>1, First
  <2>4. arrived[m] = "claimed" /\ fulfilled[m] = 1 /\ received[m] = 1
    BY <1>4, <1>5, <2>3 DEF InboundAt
  <2>5. InboundAt(m)'
    BY <2>1, <2>2, <2>4 DEF InboundAt
  <2>6. QED BY <1>3, <2>2, <2>5
<1>9. QED BY <1>6, <1>7, <1>8

\* The two amounts of a forward: the handler writes one after the other.
LEMMA ForwardOnce ==
    ASSUME PaymentsAssumption, TypeOK, Accounts, NEW m \in Forwards,
           ForwardedAmount(m) \/ PaymentForwarded(m)
    PROVE  Accounts'
<1>1. /\ UNCHANGED <<storeVars, apiVars, ldkVars>>
      /\ \A p \in (Outbound \cup Forwards) \ {m} : offered'[p] = offered[p]
      /\ \A p \in (Inbound \cup Forwards) \ {m} : received'[p] = received[p]
  BY DEF ForwardedAmount, PaymentForwarded, TypeOK
<1>2. m \in Moved /\ m \notin Outbound /\ m \notin Inbound
  BY DEF PaymentsAssumption, Moved
<1>3. ASSUME Ordered', ForwardAt(m)',
             \A p \in Moved \ {m} : /\ About(Waiting', p) = About(Waiting, p)
                                    /\ p \in Current' <=> p \in Current
      PROVE  Accounts'
  BY <1>1, <1>2, <1>3, Others DEF storeVars, apiVars, ldkVars
<1>4. ForwardAt(m) /\ Ordered
  BY DEF Accounts
<1>5. CASE ForwardedAmount(m)
  <2>1. /\ Ordered' /\ Current' = {m} /\ Waiting' = Waiting /\ Current = {}
        /\ About(Waiting, m) = {Ev("PaymentForwarded", m)}
    BY <1>4, <1>5, Count, First DEF ForwardedAmount
  <2>2. arrived[m] = "claimed" /\ fulfilled[m] = 1 /\ received[m] = 0 /\ offered[m] = 0
    BY <1>4, <2>1 DEF ForwardAt
  <2>3. offered'[m] = 1 /\ received' = received
    BY <1>5, <2>2 DEF ForwardedAmount, TypeOK
  <2>4. ForwardAt(m)'
    BY <1>1, <2>1, <2>2, <2>3 DEF ForwardAt, ldkVars
  <2>5. QED BY <1>3, <2>1, <2>4
<1>6. CASE PaymentForwarded(m)
  <2>1. /\ Ready("PaymentForwarded", m) /\ counted /\ HandledWith(<<>>)
        /\ offered' = offered
    BY <1>6 DEF PaymentForwarded
  <2>2. /\ Ordered' /\ Current' = {} /\ About(Waiting', m) = {}
        /\ \A q : q # m => About(Waiting', q) = About(Waiting, q) /\ q \notin Current
    BY <1>4, <2>1, Dequeue
  <2>3. Current = {m} /\ About(Waiting, m) = {Ev("PaymentForwarded", m)}
    BY <1>4, <2>1, First
  <2>4. arrived[m] = "claimed" /\ fulfilled[m] = 1 /\ received[m] = 0 /\ offered[m] = 1
    BY <1>4, <2>3 DEF ForwardAt
  <2>5. received'[m] = 1
    BY <1>6, <2>4 DEF PaymentForwarded, TypeOK
  <2>6. ForwardAt(m)'
    BY <1>1, <2>1, <2>2, <2>4, <2>5 DEF ForwardAt, ldkVars
  <2>7. QED BY <1>3, <2>2, <2>6
<1>7. QED BY <1>5, <1>6

\* A payment from others comes once, and is the only event with its hash.
LEMMA NetworkOnce ==
    ASSUME PaymentsAssumption, TypeOK, Accounts, Network
    PROVE  Accounts'
<1>1. UNCHANGED <<storeVars, amountVars, apiVars, counted, ldk>>
  BY DEF Network
<1>2. PICK m \in Inbound \cup Forwards :
        \/ m \in Inbound /\ (Receive(m) \/ TimesOut(m))
        \/ m \in Forwards /\ Forward(m)
  BY DEF Network
<1>3. /\ \A p \in Moved \ {m} : fulfilled'[p] = fulfilled[p]
      /\ \A p \in (Inbound \cup Forwards) \ {m} : arrived'[p] = arrived[p]
      /\ m \in Moved /\ m \notin Outbound
  BY <1>2 DEF Receive, TimesOut, Forward, TypeOK, Moved, PaymentsAssumption
<1>4. ASSUME Ordered', Current' = Current,
             \A p \in Moved \ {m} : About(Waiting', p) = About(Waiting, p),
             m \in Inbound => InboundAt(m)',
             m \in Forwards => ForwardAt(m)'
      PROVE  Accounts'
  BY <1>1, <1>3, <1>4, Others DEF storeVars, amountVars, apiVars
<1>5. Ordered /\ (m \in Inbound => InboundAt(m)) /\ (m \in Forwards => ForwardAt(m))
  BY DEF Accounts
<1>6. ASSUME NEW k, Ev(k, m) \in Event, Push(k, m), About(Waiting, m) = {}
      PROVE  /\ Ordered' /\ Current' = Current /\ About(Waiting', m) = {Ev(k, m)}
             /\ \A p : p # m => About(Waiting', p) = About(Waiting, p)
             /\ m \notin Current
  <2>1. Ev(k, m).id = m /\ queue' = Append(queue, Ev(k, m)) /\ counted' = counted
    BY <1>1, <1>6 DEF Ev, Push
  <2>2. QED BY <1>5, <1>6, <2>1, Enqueue, NotCurrent
<1>7. CASE m \in Inbound /\ Receive(m)
  <2>1. /\ arrived[m] = "no" /\ arrived'[m] = "claimable" /\ fulfilled' = fulfilled
        /\ Push("PaymentClaimable", m) /\ Ev("PaymentClaimable", m) \in Event
        /\ m \notin Forwards
    BY <1>7 DEF Receive, TypeOK, Ev, Event, PaymentsAssumption
  <2>2. About(Waiting, m) = {} /\ fulfilled[m] = 0 /\ received[m] = 0
    BY <1>5, <1>7, <2>1 DEF InboundAt
  <2>3. /\ Ordered' /\ Current' = Current
        /\ About(Waiting', m) = {Ev("PaymentClaimable", m)}
        /\ \A p : p # m => About(Waiting', p) = About(Waiting, p)
    BY <1>6, <2>1, <2>2
  <2>4. InboundAt(m)'
    BY <1>1, <2>1, <2>2, <2>3 DEF InboundAt, amountVars
  <2>5. QED BY <1>4, <2>1, <2>3, <2>4
<1>8. CASE m \in Inbound /\ TimesOut(m)
  <2>1. /\ arrived[m] = "claimable" /\ arrived'[m] = "gone" /\ UNCHANGED <<queue, fulfilled>>
        /\ m \notin Forwards
    BY <1>8 DEF TimesOut, TypeOK, PaymentsAssumption
  <2>2. Waiting' = Waiting /\ Current' = Current /\ Ordered'
    BY <1>1, <1>5, <2>1 DEF Waiting, Current, Ordered
  <2>3. InboundAt(m)'
    BY <1>1, <1>5, <1>8, <2>1, <2>2 DEF InboundAt, amountVars
  <2>4. QED BY <1>4, <2>1, <2>2, <2>3
<1>9. CASE m \in Forwards /\ Forward(m)
  <2>1. /\ arrived[m] = "no" /\ arrived'[m] = "claimed" /\ fulfilled'[m] = fulfilled[m] + 1
        /\ Push("PaymentForwarded", m) /\ Ev("PaymentForwarded", m) \in Event
        /\ m \notin Inbound
    BY <1>3, <1>9 DEF Forward, TypeOK, Ev, Event, PaymentsAssumption
  <2>2. About(Waiting, m) = {} /\ fulfilled[m] = 0 /\ offered[m] = 0 /\ received[m] = 0
    BY <1>5, <1>9, <2>1 DEF ForwardAt
  <2>3. /\ Ordered' /\ Current' = Current /\ m \notin Current
        /\ About(Waiting', m) = {Ev("PaymentForwarded", m)}
        /\ \A p : p # m => About(Waiting', p) = About(Waiting, p)
    BY <1>6, <2>1, <2>2
  <2>4. ForwardAt(m)'
    BY <1>1, <2>1, <2>2, <2>3 DEF ForwardAt, amountVars
  <2>5. QED BY <1>4, <2>1, <2>3, <2>4
<1>10. QED BY <1>2, <1>7, <1>8, <1>9

LEMMA StepOnce ==
    ASSUME PaymentsAssumption, TypeOK, TypeOK', Once, [Next]_vars
    PROVE  Once'
<1>1. CASE \E lost \in SUBSET Offers : Restart(lost)
  BY <1>1 DEF Restart, Once, TypeOK
<1>2. CASE ~\E lost \in SUBSET Offers : Restart(lost)
  <2>1. restarts' = restarts
    BY <1>2
       DEF Next, vars, AddOutboundPayment, Resolve, LnInvoice, Expire, Finish, Send, SendRefused,
           SendFailed, Handle, SentAmount, PaymentSent, PaymentFailed, PaymentClaimable,
           ClaimedAmount, PaymentClaimed, ForwardedAmount, PaymentForwarded, Network, Persist
  <2> SUFFICES ASSUME Accounts PROVE Accounts'
    BY <2>1 DEF Once
  <2>2. CASE \/ \E i \in Inbound : LnInvoice(i) \/ Expire(i)
             \/ SendRefused \/ Persist \/ UNCHANGED vars
    <3>1. UNCHANGED <<outbound, offered, received, target, queue, counted, ldk, arrived,
                      fulfilled>>
      BY <2>2
         DEF LnInvoice, Expire, SendRefused, Persist, vars, storeVars, amountVars, apiVars,
             eventVars, ldkVars
    <3>2. QED BY <3>1, Nothing
  <2>3. QED
    BY <1>2, <2>2, ApiOnce, ResolveOnce, OutboundOnce, InboundOnce, ForwardOnce, NetworkOnce
       DEF Next, Finish, Handle
<1>3. QED BY <1>1, <1>2

\* What the theorems rest on.
LEMMA InvariantOnce == Spec => []Once
<1>1. Init => Once
  BY InitOnce, PaymentsAssumption
<1>2. TypeOK /\ TypeOK' /\ Once /\ [Next]_vars => Once'
  BY StepOnce, PaymentsAssumption
<1>3. QED BY <1>1, <1>2, TypeCorrect, PTL DEF Spec

\* Until the first restart, no sequence of /sendpayment, retries, failures and what LDK
\* forgets makes a payment of the outbound store be fulfilled twice.
THEOREM PaidAtMostOnceHolds == Spec => []PaidAtMostOnce
<1>1. Once => PaidAtMostOnce
  BY DEF Once, Accounts, OutboundAt, PaidAtMostOnce
<1>2. QED BY <1>1, InvariantOnce, PTL

\* Until the first restart, the amounts that the event handler wrote for the channels
\* are those of the payments that were fulfilled, each once.
THEOREM AmountsMatchPaymentsHolds == Spec => []AmountsMatchPayments
<1>1. Once => AmountsMatchPayments
  <2> SUFFICES ASSUME Once, restarts = 0, queue = <<>> PROVE AmountsMatchPayments
    BY DEF AmountsMatchPayments
  <2>1. Waiting = {}
    BY DEF Waiting, Members
  <2>2. \A p : About(Waiting, p) = {} /\ \A k : {Ev(k, p)} # {}
    BY <2>1 DEF About
  <2>3. \A p \in Outbound \ Offers : offered[p] = fulfilled[p]
    BY <2>2 DEF Once, Accounts, OutboundAt
  <2>4. \A p \in Forwards : offered[p] = fulfilled[p] /\ received[p] = fulfilled[p]
    BY <2>2 DEF Once, Accounts, ForwardAt
  <2>5. \A p \in Inbound : received[p] = fulfilled[p]
    BY <2>2 DEF Once, Accounts, InboundAt
  <2>6. QED BY <2>3, <2>4, <2>5 DEF AmountsMatchPayments
<1>2. QED BY <1>1, InvariantOnce, PTL
=============================================================================
