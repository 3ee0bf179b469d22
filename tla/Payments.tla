------------------------------ MODULE Payments ------------------------------
(***************************************************************************)
(* The Lightning payments of one node.  /sendpayment and /keysend write    *)
(* the payment to the outbound store and then ask LDK to send it;          *)
(* /lninvoice writes the inbound store.  LDK's events then update both     *)
(* stores and the asset amount kept for every channel.                     *)
(*                                                                         *)
(* The API handlers are serialised by the unlocked_app_state guard, but    *)
(* the event handler runs next to them, one event at a time.  Events that  *)
(* were handled since the ChannelManager was last persisted are delivered  *)
(* again after a restart, before which every Pending payment LDK does not  *)
(* know is marked Failed.  LDK and the HTLCs are external.                 *)
(*                                                                         *)
(* The payments of a swap go to the swap stores: see Swaps.                *)
(***************************************************************************)
EXTENDS Naturals, Sequences

CONSTANTS
    Invoices,       \* payment ids of BOLT11 invoices, which can be paid again
    Fresh,          \* those of keysends, random
    Offers,         \* those of BOLT12 offers, random; they carry no asset
    Inbound,        \* payment hashes others pay to
    Forwards,       \* payments forwarded for others
    MaxTries,       \* bound on the attempts LDK accepts for one payment
    MaxRestarts,    \* bound on restarts
    None

Outbound == Invoices \cup Fresh \cup Offers

ASSUME PaymentsAssumption ==
    /\ None \notin Outbound
    /\ Outbound \cap (Inbound \cup Forwards) = {} /\ Inbound \cap Forwards = {}
    /\ {MaxTries, MaxRestarts} \subseteq Nat

VARIABLES
    outbound,       \* outbound_payments, as on disk
    inbound,        \* inbound_payments, as on disk
    offered,        \* how often the amount of a payment was subtracted from the
    received,       \* info file of its channel, and how often added
    api,            \* where the handler of /sendpayment or /keysend is
    target,         \* the payment it is about
    queue,          \* LDK events
    handled,        \* handled since the ChannelManager was last persisted, kept
                    \* while a restart may still come
    counted,        \* the handler of the first event has written one amount
    ldk,            \* what LDK has of a payment
    tries,          \* attempts LDK accepted
    arrived,        \* what LDK has of an inbound payment or a forward
    expired,        \* invoices that are too old
    fulfilled,      \* how often the HTLC of a payment was fulfilled
    restarts        \* so far

storeVars == <<outbound, inbound>>
amountVars == <<offered, received>>
apiVars == <<api, target>>
eventVars == <<queue, handled, counted>>
ldkVars == <<ldk, tries, arrived, expired, fulfilled>>
vars == <<storeVars, amountVars, apiVars, eventVars, ldkVars, restarts>>

HTLCStatus == {"Pending", "Succeeded", "Failed"}
Moved == Outbound \cup Inbound \cup Forwards
Event == [kind : {"PaymentSent", "PaymentFailed"}, id : Outbound]
            \cup [kind : {"PaymentClaimable", "PaymentClaimed"}, id : Inbound]
            \cup [kind : {"PaymentForwarded"}, id : Forwards]

TypeOK ==
    /\ outbound \in [Outbound -> HTLCStatus \cup {"none"}]
    /\ inbound \in [Inbound -> HTLCStatus \cup {"none"}]
    /\ offered \in [Outbound \cup Forwards -> Nat]
    /\ received \in [Inbound \cup Forwards -> Nat]
    /\ api \in {"idle", "send", "refused"}
    /\ target \in Outbound \cup {None} /\ (target = None <=> api = "idle")
    /\ queue \in Seq(Event) /\ handled \in Seq(Event) /\ counted \in BOOLEAN
    /\ ldk \in [Outbound -> {"none", "invoice", "inflight", "fulfilled"}]
    /\ tries \in [Outbound -> Nat]
    /\ arrived \in [Inbound \cup Forwards -> {"no", "claimable", "gone", "claimed"}]
    /\ expired \subseteq Inbound
    /\ fulfilled \in [Moved -> Nat]
    /\ restarts \in Nat

Init ==
    /\ outbound = [p \in Outbound |-> "none"] /\ inbound = [p \in Inbound |-> "none"]
    /\ offered = [p \in Outbound \cup Forwards |-> 0]
    /\ received = [p \in Inbound \cup Forwards |-> 0]
    /\ api = "idle" /\ target = None
    /\ queue = <<>> /\ handled = <<>> /\ counted = FALSE
    /\ ldk = [p \in Outbound |-> "none"] /\ tries = [p \in Outbound |-> 0]
    /\ arrived = [p \in Inbound \cup Forwards |-> "no"]
    /\ expired = {}
    /\ fulfilled = [p \in Moved |-> 0]
    /\ restarts = 0

----------------------------------------------------------------------------
(* The API *)

\* Mutation: a payment of any status is replaced
CanAddAny(p) == TRUE

\* The check of add_outbound_payment; the id of a keysend or offer is a new one
CanAdd(p) ==
    /\ outbound[p] \in {"none", "Failed"}
    /\ p \in Fresh \cup Offers => outbound[p] = "none"

\* Mutation: the payment is written when LDK has accepted it
AddOutboundPaymentLate(p) ==
    /\ api = "idle" /\ CanAdd(p)
    /\ tries[p] < MaxTries
    /\ api' = "send" /\ target' = p
    /\ UNCHANGED <<storeVars, amountVars, eventVars, ldkVars, restarts>>

\* add_outbound_payment; the file with the amount of an asset is written with it,
\* before LDK reads it
AddOutboundPayment(p) ==
    /\ api = "idle" /\ CanAdd(p)
    /\ tries[p] < MaxTries
    /\ outbound' = [outbound EXCEPT ![p] = "Pending"]
    /\ api' = "send" /\ target' = p
    /\ UNCHANGED <<inbound, amountVars, eventVars, ldkVars, restarts>>

\* send_payment, send_spontaneous_payment_with_retry or pay_for_offer returns Ok;
\* LDK refuses an id it knows.  What follows for an invoice without amount is a
\* panic that changes nothing but the response.
Send ==
    /\ api = "send" /\ ldk[target] = "none"
    /\ ldk' = [ldk EXCEPT ![target] = IF target \in Offers THEN "invoice" ELSE "inflight"]
    /\ tries' = [tries EXCEPT ![target] = @ + 1]
    /\ api' = "idle" /\ target' = None
    /\ UNCHANGED <<storeVars, amountVars, eventVars, arrived, expired, fulfilled, restarts>>

SendRefused ==
    /\ api = "send"
    /\ api' = "refused"
    /\ UNCHANGED <<storeVars, amountVars, target, eventVars, ldkVars, restarts>>

\* Mutation: the handler does not end
SendFailedBusy ==
    /\ api = "refused"
    /\ outbound' = [outbound EXCEPT ![target] = "Failed"]
    /\ target' = None
    /\ UNCHANGED <<inbound, amountVars, api, eventVars, ldkVars, restarts>>

\* update_outbound_payment_status of the Err branch
SendFailed ==
    /\ api = "refused"
    /\ outbound' = [outbound EXCEPT ![target] = "Failed"]
    /\ api' = "idle" /\ target' = None
    /\ UNCHANGED <<inbound, amountVars, eventVars, ldkVars, restarts>>

\* The hash of an invoice is a new one
LnInvoice(i) ==
    /\ api = "idle"
    /\ inbound[i] = "none" /\ arrived[i] = "no"
    /\ inbound' = [inbound EXCEPT ![i] = "Pending"]
    /\ UNCHANGED <<outbound, amountVars, apiVars, eventVars, ldkVars, restarts>>

\* What /invoicestatus answers
InvoiceStatus(i) ==
    IF inbound[i] = "Pending" /\ i \in expired THEN "Expired" ELSE inbound[i]

\* What /listpayments shows: both stores as they are
Listed == [p \in Outbound \cup Inbound |-> IF p \in Inbound THEN inbound[p] ELSE outbound[p]]

----------------------------------------------------------------------------
(* Events *)

Ready(k, p) == queue # <<>> /\ Head(queue) = [kind |-> k, id |-> p]

\* The handler returns Ok; what it made LDK queue comes last
HandledWith(more) ==
    /\ queue' = Tail(queue) \o more
    /\ handled' = IF restarts < MaxRestarts THEN Append(handled, Head(queue)) ELSE handled
    /\ counted' = FALSE

\* claim_funds, which does nothing when the HTLC is not there any more
PaymentClaimable(i) ==
    /\ Ready("PaymentClaimable", i)
    /\ IF arrived[i] = "claimable"
       THEN /\ arrived' = [arrived EXCEPT ![i] = "claimed"]
            /\ fulfilled' = [fulfilled EXCEPT ![i] = @ + 1]
            /\ HandledWith(<<[kind |-> "PaymentClaimed", id |-> i]>>)
       ELSE HandledWith(<<>>) /\ UNCHANGED <<arrived, fulfilled>>
    /\ UNCHANGED <<storeVars, amountVars, apiVars, ldk, tries, expired, restarts>>

\* _update_rgb_channel_amount comes first, the status second
ClaimedAmount(i) ==
    /\ Ready("PaymentClaimed", i) /\ ~counted
    /\ received' = [received EXCEPT ![i] = @ + 1]
    /\ counted' = TRUE
    /\ UNCHANGED <<storeVars, offered, apiVars, queue, handled, ldkVars, restarts>>

\* Mutation: the entry is updated but not inserted
UpsertInboundPaymentKnown(i) ==
    inbound' = [inbound EXCEPT ![i] = IF @ = "none" THEN @ ELSE "Succeeded"]

UpsertInboundPayment(i) == inbound' = [inbound EXCEPT ![i] = "Succeeded"]

PaymentClaimed(i) ==
    /\ Ready("PaymentClaimed", i) /\ counted
    /\ UpsertInboundPayment(i)
    /\ HandledWith(<<>>)
    /\ UNCHANGED <<outbound, amountVars, apiVars, ldkVars, restarts>>

\* An offer has no payment info file
SentAmount(p) ==
    /\ Ready("PaymentSent", p) /\ ~counted
    /\ offered' = IF p \in Offers THEN offered ELSE [offered EXCEPT ![p] = @ + 1]
    /\ counted' = TRUE
    /\ UNCHANGED <<storeVars, received, apiVars, queue, handled, ldkVars, restarts>>

\* Mutation: the status is written before the amount
PaymentSentFirst(p) ==
    /\ Ready("PaymentSent", p)
    /\ outbound' = [outbound EXCEPT ![p] = "Succeeded"]
    /\ HandledWith(<<>>)
    /\ UNCHANGED <<inbound, amountVars, apiVars, ldkVars, restarts>>

\* update_outbound_payment
PaymentSent(p) ==
    /\ Ready("PaymentSent", p) /\ counted
    /\ outbound' = [outbound EXCEPT ![p] = "Succeeded"]
    /\ HandledWith(<<>>)
    /\ UNCHANGED <<inbound, amountVars, apiVars, ldkVars, restarts>>

\* update_outbound_payment_status, whatever the status was
PaymentFailed(p) ==
    /\ Ready("PaymentFailed", p)
    /\ outbound' = [outbound EXCEPT ![p] = "Failed"]
    /\ HandledWith(<<>>)
    /\ UNCHANGED <<inbound, amountVars, apiVars, ldkVars, restarts>>

\* The channel to the next node pays, then the one from the previous node receives
ForwardedAmount(f) ==
    /\ Ready("PaymentForwarded", f) /\ ~counted
    /\ offered' = [offered EXCEPT ![f] = @ + 1]
    /\ counted' = TRUE
    /\ UNCHANGED <<storeVars, received, apiVars, queue, handled, ldkVars, restarts>>

\* Mutation: only the channel to the next node is updated
PaymentForwardedHalf(f) ==
    /\ Ready("PaymentForwarded", f) /\ counted
    /\ HandledWith(<<>>)
    /\ UNCHANGED <<storeVars, amountVars, apiVars, ldkVars, restarts>>

PaymentForwarded(f) ==
    /\ Ready("PaymentForwarded", f) /\ counted
    /\ received' = [received EXCEPT ![f] = @ + 1]
    /\ HandledWith(<<>>)
    /\ UNCHANGED <<storeVars, offered, apiVars, ldkVars, restarts>>

----------------------------------------------------------------------------
(* LDK and the other nodes: external *)

Push(k, p) == queue' = Append(queue, [kind |-> k, id |-> p])

\* The invoice for the offer comes and is paid
InvoiceComes(p) ==
    /\ ldk[p] = "invoice"
    /\ ldk' = [ldk EXCEPT ![p] = "inflight"]
    /\ UNCHANGED <<queue, fulfilled>>

Fulfil(p) ==
    /\ ldk[p] = "inflight"
    /\ ldk' = [ldk EXCEPT ![p] = "fulfilled"]
    /\ fulfilled' = [fulfilled EXCEPT ![p] = @ + 1]
    /\ Push("PaymentSent", p)

\* The retries are exhausted or the invoice does not come: LDK forgets the payment
\* when it queues the event
Abandon(p) ==
    /\ ldk[p] \in {"invoice", "inflight"}
    /\ ldk' = [ldk EXCEPT ![p] = "none"]
    /\ Push("PaymentFailed", p)
    /\ UNCHANGED fulfilled

Announced(k, p) ==
    \/ \E i \in DOMAIN queue : queue[i] = [kind |-> k, id |-> p]
    \/ \E i \in DOMAIN handled : handled[i] = [kind |-> k, id |-> p]

\* A fulfilled payment is forgotten some time after PaymentSent was handled
Forget(p) ==
    /\ ldk[p] = "fulfilled"
    /\ ~Announced("PaymentSent", p)
    /\ ldk' = [ldk EXCEPT ![p] = "none"]
    /\ UNCHANGED <<queue, fulfilled>>

Resolve(p) ==
    /\ InvoiceComes(p) \/ Fulfil(p) \/ Abandon(p) \/ Forget(p)
    /\ UNCHANGED <<storeVars, amountVars, apiVars, handled, counted, tries, arrived,
                   expired, restarts>>

\* Someone pays an invoice or, without one, a keysend
Receive(i) ==
    /\ arrived[i] = "no"
    /\ arrived' = [arrived EXCEPT ![i] = "claimable"]
    /\ Push("PaymentClaimable", i)
    /\ UNCHANGED fulfilled

TimesOut(i) ==
    /\ arrived[i] = "claimable"
    /\ arrived' = [arrived EXCEPT ![i] = "gone"]
    /\ UNCHANGED <<queue, fulfilled>>

Forward(f) ==
    /\ arrived[f] = "no"
    /\ arrived' = [arrived EXCEPT ![f] = "claimed"]
    /\ fulfilled' = [fulfilled EXCEPT ![f] = @ + 1]
    /\ Push("PaymentForwarded", f)

Network ==
    /\ \/ \E i \in Inbound : Receive(i) \/ TimesOut(i)
       \/ \E f \in Forwards : Forward(f)
    /\ UNCHANGED <<storeVars, amountVars, apiVars, handled, counted, ldk, tries, expired,
                   restarts>>

Expire(i) ==
    /\ inbound[i] # "none" /\ i \notin expired
    /\ expired' = expired \cup {i}
    /\ UNCHANGED <<storeVars, amountVars, apiVars, eventVars, ldk, tries, arrived,
                   fulfilled, restarts>>

----------------------------------------------------------------------------
(* Persistence and restarts *)

Persist ==
    /\ handled # <<>>
    /\ handled' = <<>>
    /\ UNCHANGED <<storeVars, amountVars, apiVars, queue, counted, ldkVars, restarts>>

\* Mutation: the store is read as it is
FailOutboundPendingPaymentsNot(known) == UNCHANGED outbound

\* fail_outbound_pending_payments, for the ids of list_recent_payments
FailOutboundPendingPayments(known) ==
    outbound' = [p \in Outbound |->
                    IF outbound[p] = "Pending" /\ p \notin known THEN "Failed" ELSE outbound[p]]

\* A crash, or a lock and an unlock, at any moment.  The HTLCs of a payment are in
\* its ChannelMonitors; that an invoice was asked for may not have been persisted.
\* What follows the start of LDK comes before the first event.
Restart(lost) ==
    /\ restarts < MaxRestarts
    /\ restarts' = restarts + 1
    /\ \A p \in lost : ldk[p] = "invoice"
    /\ ldk' = [p \in Outbound |-> IF p \in lost THEN "none" ELSE ldk[p]]
    /\ FailOutboundPendingPayments({p \in Outbound : ldk'[p] # "none"})
    /\ queue' = handled \o queue /\ handled' = <<>> /\ counted' = FALSE
    /\ api' = "idle" /\ target' = None
    /\ UNCHANGED <<inbound, amountVars, tries, arrived, expired, fulfilled>>

----------------------------------------------------------------------------
Finish == Send \/ SendRefused \/ SendFailed

Handle ==
    \/ \E p \in Outbound : SentAmount(p) \/ PaymentSent(p) \/ PaymentFailed(p)
    \/ \E i \in Inbound : PaymentClaimable(i) \/ ClaimedAmount(i) \/ PaymentClaimed(i)
    \/ \E f \in Forwards : ForwardedAmount(f) \/ PaymentForwarded(f)

Next ==
    \/ \E p \in Outbound : AddOutboundPayment(p) \/ Resolve(p)
    \/ \E i \in Inbound : LnInvoice(i) \/ Expire(i)
    \/ Finish \/ Handle \/ Network
    \/ Persist
    \/ \E lost \in SUBSET Offers : Restart(lost)

\* A request that started ends (no_cancel), events keep being handled, and a
\* payment is fulfilled or abandoned at the latest when its HTLCs time out
Fairness ==
    /\ WF_vars(Finish) /\ WF_vars(Handle)
    /\ \A p \in Outbound : WF_vars(Resolve(p))

Spec == Init /\ [][Next]_vars /\ Fairness

----------------------------------------------------------------------------
(* Properties *)

\* Every payment LDK knows, or has an event for, is in the outbound store: the
\* get_mut().unwrap() of update_outbound_payment and of its _status twin, which
\* would poison the store and stop the event handler, finds it, after any restart.
StoredBeforeSent ==
    \A p \in Outbound :
        ldk[p] # "none" \/ Announced("PaymentSent", p) \/ Announced("PaymentFailed", p)
        => outbound[p] # "none"

\* What /listpayments calls Succeeded was fulfilled, and the info file of its
\* channel has counted it: the amount is written before the status, and events
\* delivered again or marked Failed at the start do not make it untrue.
SucceededIsCounted ==
    \A p \in Outbound \cup Inbound :
        Listed[p] = "Succeeded" =>
            /\ fulfilled[p] > 0
            /\ p \in Inbound => received[p] > 0
            /\ p \in Outbound \ Offers => offered[p] > 0

\* A payment is fulfilled once at most, however often /sendpayment is called for
\* its invoice: LDK forgets a payment that failed or, later, one that succeeded,
\* and then only the store refuses it.  (Until the first restart: an attempt the
\* replayed PaymentFailed of the one before marks Failed may be paid again.)
PaidAtMostOnce ==
    restarts = 0 => \A p \in Outbound : fulfilled[p] <= 1

\* When no event waits, the amounts of the channels have counted exactly the
\* payments that were fulfilled.  (Until the first restart: an event that is
\* delivered again counts its amount again.)
AmountsMatchPayments ==
    restarts = 0 /\ queue = <<>> =>
        /\ \A p \in (Outbound \ Offers) \cup Forwards : offered[p] = fulfilled[p]
        /\ \A p \in Inbound \cup Forwards : received[p] = fulfilled[p]

\* A payment does not stay Pending for ever: not when LDK refuses it, and not
\* when the node crashed between the store and LDK or before an event.
PendingSettles ==
    \A p \in Outbound : outbound[p] = "Pending" ~> outbound[p] # "Pending"

\* A payment the node claimed comes to be reported as Succeeded, also when the
\* invoice has expired meanwhile, there was none, or the node restarts.
ClaimedIsReported ==
    \A i \in Inbound : arrived[i] = "claimed" ~> InvoiceStatus(i) = "Succeeded"
=============================================================================
