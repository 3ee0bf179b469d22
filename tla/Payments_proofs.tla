-------------------------- MODULE Payments_proofs --------------------------
(***************************************************************************)
(* StoredBeforeSent and SucceededIsCounted for any payments, attempts and  *)
(* restarts.  Both are about what an event still means when it is handled, *)
(* so the invariant says what every event that waits, or may be delivered  *)
(* again, stands for.                                                      *)
(***************************************************************************)
EXTENDS Payments, EventQueue_proofs

\* Every event that may be handled from now on.
Events == Members(queue) \cup Members(handled)

\* Announced, as the invariant uses it.
LEMMA AnnouncedIsMember ==
    ASSUME TypeOK, NEW k, NEW p
    PROVE  Announced(k, p) <=> [kind |-> k, id |-> p] \in Events
<1>1. DOMAIN queue = 1 .. Len(queue) /\ DOMAIN handled = 1 .. Len(handled)
  BY LenProperties DEF TypeOK
<1>2. QED BY <1>1 DEF Announced, Events, Members

----------------------------------------------------------------------------
(* The invariant *)

\* The payments LDK knows, or has an event for, are in the store; so is the one the
\* handler is about.
Stored ==
    /\ \A p \in Outbound : ldk[p] # "none" => outbound[p] # "none"
    /\ \A p \in Outbound, k \in {"PaymentSent", "PaymentFailed"} :
          [kind |-> k, id |-> p] \in Events => outbound[p] # "none"
    /\ api # "idle" => outbound[target] # "none"

\* An event of success is about a payment that was fulfilled.
Backed ==
    /\ \A p \in Outbound : [kind |-> "PaymentSent", id |-> p] \in Events => fulfilled[p] > 0
    /\ \A i \in Inbound : [kind |-> "PaymentClaimed", id |-> i] \in Events => fulfilled[i] > 0

\* The handler that has written the amount is at the same event when it goes on.
Counting ==
    counted =>
        /\ queue # <<>>
        /\ \A p \in Outbound \ Offers :
              Head(queue) = [kind |-> "PaymentSent", id |-> p] => offered[p] > 0
        /\ \A i \in Inbound :
              Head(queue) = [kind |-> "PaymentClaimed", id |-> i] => received[i] > 0

\* SucceededIsCounted, store by store.
Succeeded ==
    /\ \A p \in Outbound : outbound[p] = "Succeeded" =>
          fulfilled[p] > 0 /\ (p \notin Offers => offered[p] > 0)
    /\ \A i \in Inbound : inbound[i] = "Succeeded" => fulfilled[i] > 0 /\ received[i] > 0

IInv == TypeOK /\ Stored /\ Backed /\ Counting /\ Succeeded

LEMMA InitHolds == PaymentsAssumption /\ Init => IInv
<1> SUFFICES ASSUME PaymentsAssumption, Init PROVE IInv
    OBVIOUS
<1>1. Events = {}
  BY DEF Init, Events, Members
<1>2. TypeOK
  BY EmptySeq DEF PaymentsAssumption, Init, TypeOK, HTLCStatus, Moved, Outbound
<1>3. QED
  BY <1>1, <1>2 DEF Init, IInv, Stored, Backed, Counting, Succeeded

\* LDK queues an event.
LEMMA Pushes ==
    ASSUME TypeOK, NEW e \in Event, queue' = Append(queue, e), UNCHANGED <<handled, counted>>
    PROVE  /\ queue' \in Seq(Event) /\ handled' \in Seq(Event)
           /\ Events' = Events \cup {e}
           /\ queue' # <<>> /\ (queue # <<>> => Head(queue') = Head(queue))
BY MembersOfAppend DEF TypeOK, Events

\* An event is handled.
LEMMA Handles ==
    ASSUME TypeOK, queue # <<>>, NEW more \in Seq(Event), HandledWith(more)
    PROVE  /\ queue' \in Seq(Event) /\ handled' \in Seq(Event)
           /\ Events' \subseteq Events \cup Members(more)
           /\ counted' = FALSE
<1>1. /\ Head(queue) \in Event /\ Head(queue) \in Members(queue)
      /\ Tail(queue) \in Seq(Event) /\ Members(Tail(queue)) \subseteq Members(queue)
  BY MembersOfTail, HeadTailProperties DEF TypeOK
<1>2. queue' \in Seq(Event) /\ Members(queue') \subseteq Members(queue) \cup Members(more)
  BY <1>1, MembersOfConcat DEF HandledWith
<1>3. /\ handled' \in Seq(Event)
      /\ Members(handled') \subseteq Members(handled) \cup {Head(queue)}
  BY <1>1, MembersOfAppend DEF HandledWith, TypeOK
<1>4. QED BY <1>1, <1>2, <1>3 DEF Events, HandledWith

\* A step that only adds to what the invariant counts keeps all but the types.
LEMMA Grows ==
    ASSUME PaymentsAssumption, IInv, TypeOK',
           Events' \subseteq Events,
           \A p \in Outbound : /\ outbound[p] # "none" => outbound'[p] # "none"
                               /\ outbound'[p] = "Succeeded" => outbound[p] = "Succeeded"
                               /\ ldk'[p] # "none" => ldk[p] # "none" \/ outbound'[p] # "none",
           \A i \in Inbound : inbound'[i] = "Succeeded" => inbound[i] = "Succeeded",
           UNCHANGED <<offered, received, fulfilled>>,
           counted' => counted /\ queue' = queue,
           api' # "idle" => outbound'[target'] # "none"
    PROVE  IInv'
BY DEF IInv, Stored, Backed, Counting, Succeeded

----------------------------------------------------------------------------
(* The steps *)

\* /sendpayment, /keysend and /lninvoice: the store comes first.
LEMMA ApiStep ==
    ASSUME PaymentsAssumption, IInv,
           \/ \E p \in Outbound : AddOutboundPayment(p)
           \/ \E i \in Inbound : LnInvoice(i)
           \/ Finish
    PROVE  IInv'
<1> USE PaymentsAssumption DEF PaymentsAssumption, IInv
<1>1. ASSUME NEW p \in Outbound, AddOutboundPayment(p) PROVE IInv'
  <2>1. TypeOK'
    BY <1>1 DEF AddOutboundPayment, TypeOK, HTLCStatus, amountVars, eventVars, ldkVars
  <2>2. Events' = Events
    BY <1>1 DEF AddOutboundPayment, Events, eventVars
  <2>3. QED
    BY <1>1, <2>1, <2>2, Grows DEF AddOutboundPayment, TypeOK, amountVars, eventVars, ldkVars
<1>2. ASSUME NEW i \in Inbound, LnInvoice(i) PROVE IInv'
  <2>1. TypeOK'
    BY <1>2 DEF LnInvoice, TypeOK, HTLCStatus, amountVars, apiVars, eventVars, ldkVars
  <2>2. Events' = Events
    BY <1>2 DEF LnInvoice, Events, eventVars
  <2>3. QED
    BY <1>2, <2>1, <2>2, Grows
       DEF LnInvoice, TypeOK, Stored, amountVars, apiVars, eventVars, ldkVars
<1>3. CASE Send
  <2>1. target \in Outbound /\ outbound[target] # "none"
    BY <1>3 DEF Send, TypeOK, Stored
  <2>2. TypeOK'
    BY <1>3, <2>1 DEF Send, TypeOK, storeVars, amountVars, eventVars
  <2>3. Events' = Events
    BY <1>3 DEF Send, Events, eventVars
  <2>4. QED
    BY <1>3, <2>1, <2>2, <2>3, Grows DEF Send, TypeOK, storeVars, amountVars, eventVars
<1>4. CASE SendRefused
  <2>1. TypeOK'
    BY <1>4 DEF SendRefused, TypeOK, storeVars, amountVars, eventVars, ldkVars
  <2>2. Events' = Events
    BY <1>4 DEF SendRefused, Events, eventVars
  <2>3. QED
    BY <1>4, <2>1, <2>2, Grows
       DEF SendRefused, TypeOK, Stored, storeVars, amountVars, eventVars, ldkVars
<1>5. CASE SendFailed
  <2>1. TypeOK'
    BY <1>5 DEF SendFailed, TypeOK, HTLCStatus, amountVars, eventVars, ldkVars
  <2>2. Events' = Events
    BY <1>5 DEF SendFailed, Events, eventVars
  <2>3. QED
    BY <1>5, <2>1, <2>2, Grows DEF SendFailed, TypeOK, amountVars, eventVars, ldkVars
<1>6. QED BY <1>1, <1>2, <1>3, <1>4, <1>5 DEF Finish

\* The amount is written for the event that is handled, before its status.
LEMMA AmountStep ==
    ASSUME PaymentsAssumption, IInv,
           \/ \E p \in Outbound : SentAmount(p)
           \/ \E i \in Inbound : ClaimedAmount(i)
           \/ \E f \in Forwards : ForwardedAmount(f)
    PROVE  IInv'
<1> USE PaymentsAssumption DEF PaymentsAssumption, IInv
<1>1. /\ UNCHANGED <<storeVars, apiVars, queue, handled, ldkVars, restarts>>
      /\ counted' = TRUE /\ queue # <<>>
  BY DEF SentAmount, ClaimedAmount, ForwardedAmount, Ready
<1>2. /\ offered' \in [Outbound \cup Forwards -> Nat]
      /\ received' \in [Inbound \cup Forwards -> Nat]
      /\ \A p \in Outbound \cup Forwards : offered'[p] >= offered[p]
      /\ \A i \in Inbound \cup Forwards : received'[i] >= received[i]
  <2> DEFINE Amounts ==
        /\ offered' \in [Outbound \cup Forwards -> Nat]
        /\ received' \in [Inbound \cup Forwards -> Nat]
        /\ \A p \in Outbound \cup Forwards : offered'[p] >= offered[p]
        /\ \A i \in Inbound \cup Forwards : received'[i] >= received[i]
  <2>1. ASSUME NEW p \in Outbound, SentAmount(p) PROVE Amounts
    BY <2>1 DEF SentAmount, TypeOK
  <2>2. ASSUME NEW i \in Inbound, ClaimedAmount(i) PROVE Amounts
    BY <2>2 DEF ClaimedAmount, TypeOK
  <2>3. ASSUME NEW f \in Forwards, ForwardedAmount(f) PROVE Amounts
    BY <2>3 DEF ForwardedAmount, TypeOK
  <2>4. QED BY <2>1, <2>2, <2>3
<1>3. TypeOK'
  BY <1>1, <1>2 DEF TypeOK, storeVars, apiVars, ldkVars
<1>4. Events' = Events
  BY <1>1 DEF Events
<1>5. Stored' /\ Backed'
  BY <1>1, <1>4 DEF Stored, Backed, storeVars, apiVars, ldkVars
<1>6. Succeeded'
  BY <1>1, <1>2 DEF Succeeded, TypeOK, storeVars, ldkVars
<1>7. Counting'
  <2>1. ASSUME NEW p \in Outbound, SentAmount(p) PROVE Counting'
    BY <1>1, <2>1 DEF SentAmount, Ready, Counting, TypeOK
  <2>2. ASSUME NEW i \in Inbound, ClaimedAmount(i) PROVE Counting'
    BY <1>1, <2>2 DEF ClaimedAmount, Ready, Counting, TypeOK
  <2>3. ASSUME NEW f \in Forwards, ForwardedAmount(f) PROVE Counting'
    BY <1>1, <2>3 DEF ForwardedAmount, Ready, Counting
  <2>4. QED BY <2>1, <2>2, <2>3
<1>8. QED BY <1>3, <1>5, <1>6, <1>7

\* The status is written and the event is handled.
LEMMA StatusStep ==
    ASSUME PaymentsAssumption, IInv,
           \/ \E p \in Outbound : PaymentSent(p) \/ PaymentFailed(p)
           \/ \E i \in Inbound : PaymentClaimed(i)
           \/ \E f \in Forwards : PaymentForwarded(f)
    PROVE  IInv'
<1> USE PaymentsAssumption DEF PaymentsAssumption, IInv
<1>1. /\ queue # <<>> /\ HandledWith(<<>>)
      /\ UNCHANGED <<offered, apiVars, ldkVars, restarts>>
  BY DEF PaymentSent, PaymentFailed, PaymentClaimed, PaymentForwarded, Ready, amountVars
<1>2. /\ queue' \in Seq(Event) /\ handled' \in Seq(Event)
      /\ Events' \subseteq Events /\ counted' = FALSE
  <2>1. <<>> \in Seq(Event) /\ Members(<<>>) = {}
    BY EmptySeq DEF Members
  <2>2. QED BY <1>1, <2>1, Handles
<1>3. Head(queue) \in Events
  BY <1>1, MembersOfTail DEF TypeOK, Events
<1>4. /\ received' \in [Inbound \cup Forwards -> Nat]
      /\ \A i \in Inbound \cup Forwards : received'[i] >= received[i]
  <2>1. ASSUME NEW f \in Forwards, PaymentForwarded(f) PROVE <1>4!1 /\ <1>4!2
    BY <2>1 DEF PaymentForwarded, TypeOK
  <2>2. CASE received' = received
    BY <2>2 DEF TypeOK
  <2>3. QED
    BY <2>1, <2>2 DEF PaymentSent, PaymentFailed, PaymentClaimed, amountVars
<1>5. /\ outbound' \in [Outbound -> HTLCStatus \cup {"none"}]
      /\ inbound' \in [Inbound -> HTLCStatus \cup {"none"}]
      /\ \A p \in Outbound : outbound[p] # "none" => outbound'[p] # "none"
  BY DEF PaymentSent, PaymentFailed, PaymentClaimed, PaymentForwarded, UpsertInboundPayment,
         TypeOK, HTLCStatus, storeVars
<1>6. TypeOK'
  BY <1>1, <1>2, <1>4, <1>5 DEF TypeOK, apiVars, ldkVars
<1>7. Stored' /\ Backed' /\ Counting'
  BY <1>1, <1>2, <1>5 DEF Stored, Backed, Counting, TypeOK, apiVars, ldkVars
<1>8. Succeeded'
  <2>1. ASSUME NEW p \in Outbound, PaymentSent(p) PROVE Succeeded'
    <3>1. fulfilled[p] > 0 /\ (p \notin Offers => offered[p] > 0)
      BY <1>3, <2>1 DEF PaymentSent, Ready, Backed, Counting
    <3>2. QED
      BY <1>1, <2>1, <3>1 DEF PaymentSent, Succeeded, TypeOK, ldkVars, amountVars
  <2>2. ASSUME NEW p \in Outbound, PaymentFailed(p) PROVE Succeeded'
    BY <1>1, <2>2 DEF PaymentFailed, Succeeded, TypeOK, ldkVars, amountVars
  <2>3. ASSUME NEW i \in Inbound, PaymentClaimed(i) PROVE Succeeded'
    <3>1. fulfilled[i] > 0 /\ received[i] > 0
      BY <1>3, <2>3 DEF PaymentClaimed, Ready, Backed, Counting
    <3>2. QED
      BY <1>1, <2>3, <3>1
         DEF PaymentClaimed, UpsertInboundPayment, Succeeded, TypeOK, ldkVars, amountVars
  <2>4. ASSUME NEW f \in Forwards, PaymentForwarded(f) PROVE Succeeded'
    BY <1>1, <1>4, <2>4 DEF PaymentForwarded, Succeeded, TypeOK, ldkVars, storeVars
  <2>5. QED BY <2>1, <2>2, <2>3, <2>4
<1>9. QED BY <1>6, <1>7, <1>8

\* claim_funds: the event that comes of it is backed by the claim.
LEMMA ClaimableStep ==
    ASSUME PaymentsAssumption, IInv, NEW i \in Inbound, PaymentClaimable(i)
    PROVE  IInv'
<1> USE PaymentsAssumption DEF PaymentsAssumption, IInv
<1> DEFINE e == [kind |-> "PaymentClaimed", id |-> i]
<1>1. /\ queue # <<>>
      /\ UNCHANGED <<storeVars, amountVars, apiVars, ldk, tries, expired, restarts>>
  BY DEF PaymentClaimable, Ready
<1>2. e \in Event /\ <<e>> \in Seq(Event) /\ Members(<<e>>) = {e}
  BY DEF Event, Members
<1>3. <<>> \in Seq(Event) /\ Members(<<>>) = {}
  BY EmptySeq DEF Members
<1>4. CASE arrived[i] = "claimable"
  <2>1. /\ arrived' = [arrived EXCEPT ![i] = "claimed"]
        /\ fulfilled' = [fulfilled EXCEPT ![i] = @ + 1]
        /\ HandledWith(<<e>>)
    BY <1>4 DEF PaymentClaimable
  <2>2. /\ queue' \in Seq(Event) /\ handled' \in Seq(Event)
        /\ Events' \subseteq Events \cup {e} /\ counted' = FALSE
    BY <1>1, <1>2, <2>1, Handles
  <2>3. /\ fulfilled' \in [Moved -> Nat] /\ fulfilled'[i] > 0
        /\ \A p \in Outbound \cup Inbound : fulfilled'[p] >= fulfilled[p]
    BY <2>1 DEF TypeOK, Moved
  <2>4. TypeOK'
    BY <1>1, <2>1, <2>2, <2>3 DEF TypeOK, storeVars, amountVars, apiVars
  <2>5. Stored'
    BY <1>1, <2>2 DEF Stored, storeVars, apiVars
  <2>6. Backed'
    <3>1. \A q : /\ [kind |-> "PaymentSent", id |-> q] # e
                 /\ [kind |-> "PaymentClaimed", id |-> q] = e => q = i
      OBVIOUS
    <3>2. \A q \in Outbound \cup Inbound :
            fulfilled[q] \in Nat /\ fulfilled'[q] \in Nat /\ fulfilled'[q] >= fulfilled[q]
      BY <2>3 DEF TypeOK, Moved
    <3> HIDE DEF e
    <3>3. QED BY <2>2, <2>3, <3>1, <3>2 DEF Backed
  <2>7. Succeeded'
    BY <1>1, <2>3 DEF Succeeded, TypeOK, storeVars, amountVars, Moved
  <2>8. QED BY <2>2, <2>4, <2>5, <2>6, <2>7 DEF Counting
<1>5. CASE arrived[i] # "claimable"
  <2>1. HandledWith(<<>>) /\ UNCHANGED <<arrived, fulfilled>>
    BY <1>5 DEF PaymentClaimable
  <2>2. /\ queue' \in Seq(Event) /\ handled' \in Seq(Event)
        /\ Events' \subseteq Events /\ counted' = FALSE
    BY <1>1, <1>3, <2>1, Handles
  <2>3. TypeOK'
    BY <1>1, <2>1, <2>2 DEF TypeOK, storeVars, amountVars, apiVars
  <2>4. QED
    BY <1>1, <2>1, <2>2, <2>3, Grows DEF Stored, storeVars, amountVars, apiVars
<1>6. QED BY <1>4, <1>5

\* LDK resolves a payment it knows, which is in the store.
LEMMA ResolveStep ==
    ASSUME PaymentsAssumption, IInv, NEW p \in Outbound, Resolve(p)
    PROVE  IInv'
<1> USE PaymentsAssumption DEF PaymentsAssumption, IInv
<1>1. UNCHANGED <<storeVars, amountVars, apiVars, handled, counted, tries, arrived, expired,
                  restarts>>
  BY DEF Resolve
<1>2. CASE InvoiceComes(p) \/ Forget(p)
  <2>1. /\ UNCHANGED <<queue, fulfilled>>
        /\ ldk' \in [Outbound -> {"none", "invoice", "inflight", "fulfilled"}]
        /\ \A q \in Outbound : ldk'[q] # "none" => ldk[q] # "none"
    BY <1>2 DEF InvoiceComes, Forget, TypeOK
  <2>2. TypeOK' /\ Events' = Events
    BY <1>1, <2>1 DEF TypeOK, Events, storeVars, amountVars, apiVars
  <2>3. QED
    BY <1>1, <2>1, <2>2, Grows DEF Stored, storeVars, amountVars, apiVars
<1>3. ASSUME NEW k \in {"PaymentSent", "PaymentFailed"}, Push(k, p), ldk[p] # "none",
             ldk' \in [Outbound -> {"none", "invoice", "inflight", "fulfilled"}],
             \A q \in Outbound : ldk'[q] # "none" => ldk[q] # "none",
             fulfilled' \in [Moved -> Nat],
             \A q \in Outbound \cup Inbound : fulfilled'[q] >= fulfilled[q],
             k = "PaymentSent" => fulfilled'[p] > 0
      PROVE  IInv'
  <2> DEFINE e == [kind |-> k, id |-> p]
  <2>1. e \in Event
    BY DEF Event
  <2>2. /\ queue' \in Seq(Event) /\ Events' = Events \cup {e}
        /\ queue' # <<>> /\ (queue # <<>> => Head(queue') = Head(queue))
    BY <1>1, <1>3, <2>1, Pushes DEF Push
  <2>3. TypeOK'
    BY <1>1, <1>3, <2>2 DEF TypeOK, storeVars, amountVars, apiVars
  <2>4. outbound[p] # "none"
    BY <1>3 DEF Stored
  <2>5. Stored'
    BY <1>1, <1>3, <2>2, <2>4 DEF Stored, storeVars, apiVars
  <2>6. Backed'
    <3>1. \A q : /\ [kind |-> "PaymentSent", id |-> q] = e => k = "PaymentSent" /\ q = p
                 /\ [kind |-> "PaymentClaimed", id |-> q] # e
      OBVIOUS
    <3>2. \A q \in Outbound \cup Inbound :
            fulfilled[q] \in Nat /\ fulfilled'[q] \in Nat /\ fulfilled'[q] >= fulfilled[q]
      BY <1>3 DEF TypeOK, Moved
    <3> HIDE DEF e
    <3>3. QED BY <1>3, <2>2, <3>1, <3>2 DEF Backed
  <2>7. Counting'
    BY <1>1, <2>2 DEF Counting, amountVars
  <2>8. Succeeded'
    BY <1>1, <1>3 DEF Succeeded, TypeOK, Moved, storeVars, amountVars
  <2>9. QED BY <2>3, <2>5, <2>6, <2>7, <2>8
<1>4. CASE Fulfil(p)
  <2>1. /\ ldk[p] # "none" /\ Push("PaymentSent", p)
        /\ ldk' \in [Outbound -> {"none", "invoice", "inflight", "fulfilled"}]
        /\ \A q \in Outbound : ldk'[q] # "none" => ldk[q] # "none"
    BY <1>4 DEF Fulfil, TypeOK
  <2>2. /\ fulfilled' \in [Moved -> Nat] /\ fulfilled'[p] > 0
        /\ \A q \in Outbound \cup Inbound : fulfilled'[q] >= fulfilled[q]
    BY <1>4 DEF Fulfil, TypeOK, Moved
  <2>3. QED BY <1>3, <2>1, <2>2
<1>5. CASE Abandon(p)
  <2>1. /\ ldk[p] # "none" /\ Push("PaymentFailed", p)
        /\ ldk' \in [Outbound -> {"none", "invoice", "inflight", "fulfilled"}]
        /\ \A q \in Outbound : ldk'[q] # "none" => ldk[q] # "none"
        /\ fulfilled' = fulfilled
    BY <1>5 DEF Abandon, TypeOK
  <2>2. /\ fulfilled' \in [Moved -> Nat]
        /\ \A q \in Outbound \cup Inbound : fulfilled'[q] >= fulfilled[q]
    BY <2>1 DEF TypeOK, Moved
  <2>3. QED BY <1>3, <2>1, <2>2
<1>6. QED BY <1>2, <1>4, <1>5 DEF Resolve

\* Others pay and forward; no event of success comes of it but that of a forward.
LEMMA NetworkStep ==
    ASSUME PaymentsAssumption, IInv, Network
    PROVE  IInv'
<1> USE PaymentsAssumption DEF PaymentsAssumption, IInv
<1>1. UNCHANGED <<storeVars, amountVars, apiVars, handled, counted, ldk, tries, expired,
                  restarts>>
  BY DEF Network
<1>2. ASSUME NEW e \in Event, e.kind \in {"PaymentClaimable", "PaymentForwarded"},
             queue' = Append(queue, e),
             arrived' \in [Inbound \cup Forwards -> {"no", "claimable", "gone", "claimed"}],
             fulfilled' \in [Moved -> Nat],
             \A q \in Outbound \cup Inbound : fulfilled'[q] >= fulfilled[q]
      PROVE  IInv'
  <2>1. /\ queue' \in Seq(Event) /\ Events' = Events \cup {e}
        /\ queue' # <<>> /\ (queue # <<>> => Head(queue') = Head(queue))
    BY <1>1, <1>2, Pushes
  <2>2. TypeOK'
    BY <1>1, <1>2, <2>1 DEF TypeOK, storeVars, amountVars, apiVars
  <2>3. Stored'
    BY <1>1, <1>2, <2>1 DEF Stored, storeVars, apiVars
  <2>4. Backed'
    <3>1. \A q : /\ [kind |-> "PaymentSent", id |-> q] # e
                 /\ [kind |-> "PaymentClaimed", id |-> q] # e
      BY <1>2
    <3>2. \A q \in Outbound \cup Inbound :
            fulfilled[q] \in Nat /\ fulfilled'[q] \in Nat /\ fulfilled'[q] >= fulfilled[q]
      BY <1>2 DEF TypeOK, Moved
    <3>3. QED BY <2>1, <3>1, <3>2 DEF Backed
  <2>5. Counting'
    BY <1>1, <2>1 DEF Counting, amountVars
  <2>6. Succeeded'
    BY <1>1, <1>2 DEF Succeeded, TypeOK, Moved, storeVars, amountVars
  <2>7. QED BY <2>2, <2>3, <2>4, <2>5, <2>6
<1>3. ASSUME NEW i \in Inbound, Receive(i) PROVE IInv'
  <2> DEFINE e == [kind |-> "PaymentClaimable", id |-> i]
  <2>1. e \in Event /\ e.kind = "PaymentClaimable" /\ queue' = Append(queue, e)
    BY <1>3 DEF Receive, Push, Event
  <2>2. /\ arrived' \in [Inbound \cup Forwards -> {"no", "claimable", "gone", "claimed"}]
        /\ fulfilled' = fulfilled
    BY <1>3 DEF Receive, TypeOK
  <2>3. /\ fulfilled' \in [Moved -> Nat]
        /\ \A q \in Outbound \cup Inbound : fulfilled'[q] >= fulfilled[q]
    BY <2>2 DEF TypeOK, Moved
  <2> HIDE DEF e
  <2>4. QED BY <1>2, <2>1, <2>2, <2>3
<1>4. ASSUME NEW i \in Inbound, TimesOut(i) PROVE IInv'
  <2>1. TypeOK'
    BY <1>1, <1>4 DEF TimesOut, TypeOK, storeVars, amountVars, apiVars
  <2>2. Events' = Events
    BY <1>1, <1>4 DEF TimesOut, Events
  <2>3. QED
    BY <1>1, <1>4, <2>1, <2>2, Grows DEF TimesOut, Stored, storeVars, amountVars, apiVars
<1>5. ASSUME NEW f \in Forwards, Forward(f) PROVE IInv'
  <2> DEFINE e == [kind |-> "PaymentForwarded", id |-> f]
  <2>1. e \in Event /\ e.kind = "PaymentForwarded" /\ queue' = Append(queue, e)
    BY <1>5 DEF Forward, Push, Event
  <2>2. /\ arrived' \in [Inbound \cup Forwards -> {"no", "claimable", "gone", "claimed"}]
        /\ fulfilled' \in [Moved -> Nat]
        /\ \A q \in Outbound \cup Inbound : fulfilled'[q] >= fulfilled[q]
    BY <1>5 DEF Forward, TypeOK, Moved
  <2> HIDE DEF e
  <2>3. QED BY <1>2, <2>1, <2>2
<1>6. QED BY <1>3, <1>4, <1>5 DEF Network

\* A restart delivers no event that was not handled or queued, and takes no payment
\* out of the store.
LEMMA RestartStep ==
    ASSUME PaymentsAssumption, IInv,
           Persist \/ \E lost \in SUBSET Offers : Restart(lost)
    PROVE  IInv'
<1> USE PaymentsAssumption DEF PaymentsAssumption, IInv
<1>1. CASE Persist
  <2>1. <<>> \in Seq(Event) /\ Members(<<>>) = {}
    BY EmptySeq DEF Members
  <2>2. TypeOK'
    BY <1>1, <2>1 DEF Persist, TypeOK, storeVars, amountVars, apiVars, ldkVars
  <2>3. Events' \subseteq Events
    BY <1>1, <2>1 DEF Persist, Events
  <2>4. QED
    BY <1>1, <2>2, <2>3, Grows DEF Persist, Stored, storeVars, amountVars, apiVars, ldkVars
<1>2. ASSUME NEW lost \in SUBSET Offers, Restart(lost) PROVE IInv'
  <2>1. <<>> \in Seq(Event) /\ Members(<<>>) = {}
    BY EmptySeq DEF Members
  <2>2. /\ queue' = handled \o queue /\ handled' = <<>> /\ counted' = FALSE
        /\ api' = "idle" /\ target' = None /\ restarts' = restarts + 1
        /\ UNCHANGED <<inbound, amountVars, tries, arrived, expired, fulfilled>>
    BY <1>2 DEF Restart
  <2>3. queue' \in Seq(Event) /\ Events' \subseteq Events
    BY <2>1, <2>2, MembersOfConcat DEF TypeOK, Events
  <2>4. /\ ldk' \in [Outbound -> {"none", "invoice", "inflight", "fulfilled"}]
        /\ \A p \in Outbound : ldk'[p] # "none" => ldk[p] # "none"
    BY <1>2 DEF Restart, TypeOK
  <2>5. /\ outbound' \in [Outbound -> HTLCStatus \cup {"none"}]
        /\ \A p \in Outbound : /\ outbound[p] # "none" => outbound'[p] # "none"
                               /\ outbound'[p] = "Succeeded" => outbound[p] = "Succeeded"
    BY <1>2 DEF Restart, FailOutboundPendingPayments, TypeOK, HTLCStatus
  <2>6. handled' \in Seq(Event) /\ restarts' \in Nat
    BY <2>1, <2>2 DEF TypeOK
  <2>7. TypeOK'
    BY <2>2, <2>3, <2>4, <2>5, <2>6 DEF TypeOK, amountVars
  <2>8. QED
    BY <2>2, <2>3, <2>4, <2>5, <2>7, Grows DEF amountVars
<1>3. QED BY <1>1, <1>2

LEMMA StepHolds == PaymentsAssumption /\ IInv /\ [Next]_vars => IInv'
<1> SUFFICES ASSUME PaymentsAssumption, IInv, [Next]_vars PROVE IInv'
    OBVIOUS
<1>1. ASSUME NEW i \in Inbound, Expire(i) PROVE IInv'
  <2>1. TypeOK' /\ Events' = Events
    BY <1>1 DEF Expire, IInv, TypeOK, Events, storeVars, amountVars, apiVars, eventVars
  <2>2. QED
    BY <1>1, <2>1, Grows
       DEF Expire, IInv, Stored, storeVars, amountVars, apiVars, eventVars
<1>2. CASE UNCHANGED vars
  <2>1. TypeOK' /\ Events' = Events
    BY <1>2 DEF IInv, TypeOK, Events, vars, storeVars, amountVars, apiVars, eventVars, ldkVars
  <2>2. QED
    BY <1>2, <2>1, Grows
       DEF IInv, Stored, vars, storeVars, amountVars, apiVars, eventVars, ldkVars
<1>3. CASE Next
  <2>1. CASE Handle
    BY <2>1, AmountStep, StatusStep, ClaimableStep DEF Handle
  <2>2. QED
    BY <1>1, <1>3, <2>1, ApiStep, ResolveStep, NetworkStep, RestartStep DEF Next
<1>4. QED BY <1>2, <1>3

\* What the theorems rest on.
LEMMA Invariant == Spec => []IInv
<1>1. Init => IInv
  BY InitHolds, PaymentsAssumption
<1>2. IInv /\ [Next]_vars => IInv'
  BY StepHolds, PaymentsAssumption
<1>3. QED BY <1>1, <1>2, PTL DEF Spec

\* Every reachable state of the stores, the events and LDK is well typed.
THEOREM TypeCorrect == Spec => []TypeOK
BY Invariant, PTL DEF IInv

\* No event about an outbound payment finds its entry missing.
THEOREM StoredBeforeSentHolds == Spec => []StoredBeforeSent
<1>1. IInv => StoredBeforeSent
  <2> SUFFICES ASSUME IInv, NEW p \in Outbound,
                      \/ ldk[p] # "none" \/ Announced("PaymentSent", p)
                      \/ Announced("PaymentFailed", p)
               PROVE  outbound[p] # "none"
    BY DEF StoredBeforeSent
  <2>1. QED BY AnnouncedIsMember DEF IInv, Stored
<1>2. QED BY <1>1, Invariant, PTL

\* What /listpayments calls Succeeded was fulfilled and its amount counted.
THEOREM SucceededIsCountedHolds == Spec => []SucceededIsCounted
<1>1. PaymentsAssumption /\ IInv => SucceededIsCounted
  BY DEF PaymentsAssumption, IInv, Succeeded, SucceededIsCounted, Listed, Outbound
<1>2. QED BY <1>1, Invariant, PaymentsAssumption, PTL
=============================================================================
