-------------------------------- MODULE Swaps -------------------------------
(***************************************************************************)
(* An atomic swap between two nodes: the maker offers it (/makerinit), the *)
(* taker accepts it (/taker), the maker executes it (/makerexecute) by     *)
(* paying itself along a route through the taker, who intercepts the HTLC, *)
(* compares it with what it accepted and forwards it.                      *)
(*                                                                         *)
(* Each node keeps one status per swap, in a map behind a std mutex that   *)
(* every update writes to disk.  Three tasks write it: the handler of      *)
(* /makerexecute or /taker, the handlers of /listswaps and /getswap, which *)
(* take a copy and write back what became too old, and the event handler.  *)
(* API handlers of a node are serialised by its unlocked_app_state guard;  *)
(* events run next to them, and are delivered again after a crash when the *)
(* ChannelManager was not persisted since.  The HTLC and LDK are external. *)
(***************************************************************************)
EXTENDS Naturals, Sequences, FiniteSets, EventQueue

CONSTANTS
    Swaps,          \* payment hashes
    Terms,          \* assets and quantities
    Offered,        \* those the maker makes offers with
    Lifetime,       \* timeout_sec of an offer
    PendingLimit,   \* the day after which a Pending swap is taken for Failed
    MaxTime,        \* bound on the clock
    MaxTries,       \* bound on the payments sent for one swap
    MaxCrashes,     \* bound on crashes
    None

ASSUME SwapsAssumption ==
    /\ None \notin Swaps \cup Terms
    /\ Offered \subseteq Terms
    /\ {Lifetime, PendingLimit, MaxTime, MaxTries, MaxCrashes} \subseteq Nat

VARIABLES
    now,            \* get_current_timestamp
    store,          \* maker_swaps of the maker, taker_swaps of the taker
    api,            \* where the running API handler of a node is
    target,         \* the swap /makerexecute is about
    asked,          \* and the terms of its swapstring
    copy,           \* the copy of the store /listswaps works on
    todo,           \* what it has still to look at
    poisoned,       \* nodes whose store is poisoned: a panic with the mutex held
    queue,          \* LDK events of a node
    handled,        \* handled since its ChannelManager was last persisted, kept
                    \* while a crash may still come
    dead,           \* nodes whose event handler panicked
    verdict,        \* how far the taker's handler of HTLCIntercepted is
    leg,            \* where the HTLC of a swap is
    legTerms,       \* the terms it carries
    tries,          \* payments sent for the swap
    paid,           \* history: swaps whose HTLC was claimed once
    crossed,        \* history: swaps whose terms /taker replaced after they were
                    \* compared with the HTLC and before that was written down
    crashes         \* so far

apiVars == <<api, target, asked, copy, todo>>
eventVars == <<queue, handled, dead, verdict>>
legVars == <<leg, legTerms, tries, paid>>
vars == <<now, store, apiVars, poisoned, eventVars, legVars, crossed, crashes>>

Nodes == {"maker", "taker"}
Statuses == {"Waiting", "Pending", "Succeeded", "Expired", "Failed"}
NoSwap == [terms |-> None, expiry |-> 0, status |-> "none", since |-> 0]
SwapData == [terms : Terms, expiry : Nat, status : Statuses, since : Nat]
SwapMap == [Swaps -> SwapData \cup {NoSwap}]
Empty == [h \in Swaps |-> NoSwap]

Legs == {"none", "toTaker", "held", "toMaker", "arrived", "claimed", "returning",
         "done", "failing", "failed"}
Kinds == {"HTLCIntercepted", "PaymentForwarded",                    \* of the taker
          "PaymentClaimable", "PaymentClaimed", "PaymentSent", "PaymentFailed"}
Events == [kind : Kinds, swap : Swaps, try : Nat, terms : Terms \cup {None}]

\* The terms were compared, the status was written; none: nothing was done for the
\* first event yet
Verdicts == {"none", "match", "mismatch", "pending", "failed"}

TypeOK ==
    /\ now \in 0 .. MaxTime
    /\ store \in [Nodes -> SwapMap]
    /\ api \in [Nodes -> {"idle", "send", "refused", "list"}]
    /\ target \in Swaps \cup {None}
    /\ asked \in Terms \cup {None}
    /\ copy \in [Nodes -> SwapMap]
    /\ todo \in [Nodes -> SUBSET Swaps]
    /\ \A n \in Nodes : api[n] = "list" <=> todo[n] # {}
    /\ poisoned \subseteq Nodes
    /\ queue \in [Nodes -> Seq(Events)]
    /\ handled \in [Nodes -> Seq(Events)]
    /\ dead \subseteq Nodes
    /\ verdict \in Verdicts
    /\ leg \in [Swaps -> Legs]
    /\ legTerms \in [Swaps -> Terms \cup {None}]
    /\ tries \in [Swaps -> 0 .. MaxTries]
    /\ paid \subseteq Swaps
    /\ crossed \subseteq Swaps
    /\ crashes \in 0 .. MaxCrashes

Init ==
    /\ now = 0
    /\ store = [n \in Nodes |-> Empty]
    /\ api = [n \in Nodes |-> "idle"] /\ target = None /\ asked = None
    /\ copy = [n \in Nodes |-> Empty] /\ todo = [n \in Nodes |-> {}]
    /\ poisoned = {}
    /\ queue = [n \in Nodes |-> <<>>] /\ handled = [n \in Nodes |-> <<>>] /\ dead = {}
    /\ verdict = "none" /\ crossed = {}
    /\ leg = [h \in Swaps |-> "none"] /\ legTerms = [h \in Swaps |-> None]
    /\ tries = [h \in Swaps |-> 0] /\ paid = {}
    /\ crashes = 0

Known(n, h) == store[n][h].status # "none"

\* create_from_swap_info and the insert of add_maker_swap, add_taker_swap
AddSwap(n, h, t, x) ==
    store' = [store EXCEPT ![n][h] =
                [terms |-> t, expiry |-> x, status |-> "Waiting", since |-> 0]]

\* update_maker_swap_status, update_taker_swap_status
UpdateStatus(n, h, s) ==
    store' = [store EXCEPT ![n][h] =
                [terms |-> @.terms, expiry |-> @.expiry, status |-> s,
                 since |-> IF s = "Pending" THEN now ELSE @.since]]

----------------------------------------------------------------------------
(* The API *)

\* No handler runs, and the store can be locked
ApiFree(n) == api[n] = "idle" /\ n \notin poisoned

\* /makerinit: the hash is fresh
MakerInit(h, t) ==
    /\ ApiFree("maker")
    /\ ~Known("maker", h)
    /\ AddSwap("maker", h, t, now + Lifetime)
    /\ UNCHANGED <<now, apiVars, poisoned, eventVars, legVars, crossed, crashes>>

\* /taker: a swapstring of the maker, perhaps with other terms; only its expiry
\* is looked at, and a swap that is already there is overwritten
Taker(h, t) ==
    /\ ApiFree("taker")
    /\ Known("maker", h)
    /\ now <= store["maker"][h].expiry
    /\ AddSwap("taker", h, t, store["maker"][h].expiry)
    /\ crossed' = IF verdict = "match" /\ Head(queue["taker"]).swap = h
                  THEN crossed \cup {h} ELSE crossed \ {h}
    /\ UNCHANGED <<now, apiVars, poisoned, eventVars, legVars, crashes>>

\* /makerexecute: the status is not looked at, the terms are those of the payload.
\* A request without preimage, route or acceptable fee changes nothing.
ExecutePending(h, t) ==
    /\ ApiFree("maker")
    /\ Known("maker", h)
    /\ now <= store["maker"][h].expiry
    /\ UpdateStatus("maker", h, "Pending")
    /\ api' = [api EXCEPT !["maker"] = "send"]
    /\ target' = h /\ asked' = t
    /\ UNCHANGED <<now, copy, todo, poisoned, eventVars, legVars, crossed, crashes>>

ExecuteExpired(h) ==
    /\ ApiFree("maker")
    /\ Known("maker", h)
    /\ now > store["maker"][h].expiry
    /\ UpdateStatus("maker", h, "Expired")
    /\ UNCHANGED <<now, apiVars, poisoned, eventVars, legVars, crossed, crashes>>

\* An expired swapstring whose hash this maker does not know: the unwrap in
\* update_maker_swap_status panics with the mutex held
ExecuteUnknown ==
    /\ ApiFree("maker")
    /\ poisoned' = poisoned \cup {"maker"}
    /\ UNCHANGED <<now, store, apiVars, eventVars, legVars, crossed, crashes>>

\* send_spontaneous_payment with the hash as payment id, which LDK refuses while
\* it knows the id
ExecuteSend ==
    /\ api["maker"] = "send"
    /\ leg[target] \in {"none", "failed"}
    /\ tries[target] < MaxTries
    /\ leg' = [leg EXCEPT ![target] = "toTaker"]
    /\ legTerms' = [legTerms EXCEPT ![target] = asked]
    /\ tries' = [tries EXCEPT ![target] = @ + 1]
    /\ api' = [api EXCEPT !["maker"] = "idle"]
    /\ target' = None /\ asked' = None
    /\ UNCHANGED <<now, store, copy, todo, poisoned, eventVars, paid, crossed, crashes>>

ExecuteSendFails ==
    /\ api["maker"] = "send"
    /\ api' = [api EXCEPT !["maker"] = "refused"]
    /\ UNCHANGED <<now, store, target, asked, copy, todo, poisoned, eventVars, legVars,
                   crossed, crashes>>

ExecuteFailed ==
    /\ api["maker"] = "refused"
    /\ UpdateStatus("maker", target, "Failed")
    /\ api' = [api EXCEPT !["maker"] = "idle"]
    /\ target' = None /\ asked' = None
    /\ UNCHANGED <<now, copy, todo, poisoned, eventVars, legVars, crossed, crashes>>

\* /listswaps clones the map, /getswap too, for one swap
ListSwaps(n, hs) ==
    /\ ApiFree(n)
    /\ hs # {}
    /\ hs = {h \in Swaps : Known(n, h)} \/ \E h \in Swaps : Known(n, h) /\ hs = {h}
    /\ copy' = [copy EXCEPT ![n] = store[n]]
    /\ todo' = [todo EXCEPT ![n] = hs]
    /\ api' = [api EXCEPT ![n] = "list"]
    /\ UNCHANGED <<now, store, target, asked, poisoned, eventVars, legVars, crossed,
                   crashes>>

\* map_swap: what a swap has become by now
Aged(d) ==
    IF d.status = "Waiting" /\ now > d.expiry THEN "Expired"
    ELSE IF d.status = "Pending" /\ now > d.since + PendingLimit THEN "Failed"
    ELSE d.status

\* Mutation: the handler does not end
ListEndsBusy(n, h) ==
    /\ todo' = [todo EXCEPT ![n] = @ \ {h}]
    /\ UNCHANGED <<api, copy>>

ListEnds(n, h) ==
    /\ todo' = [todo EXCEPT ![n] = @ \ {h}]
    /\ IF todo[n] = {h}
       THEN api' = [api EXCEPT ![n] = "idle"] /\ copy' = [copy EXCEPT ![n] = Empty]
       ELSE UNCHANGED <<api, copy>>

\* The status it writes is computed from the copy; a poisoned store takes none
MapSwap(n, h) ==
    /\ h \in todo[n]
    /\ LET s == Aged(copy[n][h])
       IN IF s # copy[n][h].status /\ n \notin poisoned
          THEN UpdateStatus(n, h, s) ELSE UNCHANGED store
    /\ ListEnds(n, h)
    /\ UNCHANGED <<now, target, asked, poisoned, eventVars, legVars, crossed, crashes>>

----------------------------------------------------------------------------
(* Events.  A handler that panics leaves its event where it is. *)

\* Only an interception tells the terms
Event(k, h) == [kind |-> k, swap |-> h, try |-> tries[h],
                terms |-> IF k = "HTLCIntercepted" THEN legTerms[h] ELSE None]
Push(n, e) == queue' = [queue EXCEPT ![n] = Append(@, e)]

Ready(n, k, h) ==
    /\ n \notin dead
    /\ queue[n] # <<>>
    /\ Head(queue[n]).kind = k /\ Head(queue[n]).swap = h

\* The handler returns Ok; what it made LDK queue comes last
HandledWith(n, more) ==
    /\ queue' = [queue EXCEPT ![n] = Tail(@) \o more]
    /\ handled' = IF crashes < MaxCrashes
                  THEN [handled EXCEPT ![n] = Append(@, Head(queue[n]))]
                  ELSE handled
    /\ verdict' = IF n = "taker" THEN "none" ELSE verdict
    /\ UNCHANGED dead

Handled(n) == HandledWith(n, <<>>)

\* The HTLC of the event is still there to be forwarded or failed
StillHeld(h) == leg[h] = "held" /\ Head(queue["taker"]).try = tries[h]

\* Mutation: the terms are not compared
MatchesAny(h) == TRUE

\* The three comparisons with the whitelisted swap_info
Matches(h) == store["taker"][h].terms = Head(queue["taker"]).terms

\* The first event of the taker is the HTLC of h, and its handler got this far
Intercepting(h, v) == Ready("taker", "HTLCIntercepted", h) /\ verdict = v

\* An HTLC whose swap is not in taker_swaps is failed with the mutex held, and so is
\* the mutex poisoned when LDK has failed the HTLC meanwhile and the unwrap panics
InterceptUnknown(h) ==
    /\ Intercepting(h, "none")
    /\ ~Known("taker", h)
    /\ StillHeld(h)
    /\ leg' = [leg EXCEPT ![h] = "failing"]
    /\ Handled("taker")
    /\ UNCHANGED <<now, store, apiVars, poisoned, legTerms, tries, paid, crossed,
                   crashes>>

InterceptUnknownLate(h) ==
    /\ Intercepting(h, "none")
    /\ ~Known("taker", h)
    /\ ~StillHeld(h)
    /\ dead' = dead \cup {"taker"} /\ poisoned' = poisoned \cup {"taker"}
    /\ UNCHANGED <<now, store, apiVars, queue, handled, verdict, legVars, crossed,
                   crashes>>

\* The comparison, with the mutex, which is dropped after it; the status is not looked at
InterceptCompare(h) ==
    /\ Intercepting(h, "none")
    /\ Known("taker", h)
    /\ verdict' = IF Matches(h) THEN "match" ELSE "mismatch"
    /\ crossed' = crossed \ {h}
    /\ UNCHANGED <<now, store, apiVars, poisoned, queue, handled, dead, legVars, crashes>>

\* The status is written with the mutex taken again, whatever the entry is by now
InterceptWrites(h, v, s, w) ==
    /\ Intercepting(h, v)
    /\ UpdateStatus("taker", h, s)
    /\ verdict' = w
    /\ UNCHANGED <<now, apiVars, poisoned, queue, handled, dead, legVars, crossed, crashes>>

\* Mutation: the swap is taken for done when it is forwarded
InterceptWriteDone(h) ==
    \/ InterceptWrites(h, "match", "Succeeded", "pending")
    \/ InterceptWrites(h, "mismatch", "Failed", "failed")

InterceptWrite(h) ==
    \/ InterceptWrites(h, "match", "Pending", "pending")
    \/ InterceptWrites(h, "mismatch", "Failed", "failed")

\* forward_intercepted_htlc or fail_intercepted_htlc, without the mutex
InterceptAnswers(h, v, to) ==
    /\ Intercepting(h, v)
    /\ StillHeld(h)
    /\ leg' = [leg EXCEPT ![h] = to]
    /\ Handled("taker")
    /\ UNCHANGED <<now, store, apiVars, poisoned, legTerms, tries, paid, crossed,
                   crashes>>

InterceptAnswer(h) ==
    InterceptAnswers(h, "pending", "toMaker") \/ InterceptAnswers(h, "failed", "failing")

\* LDK has failed the HTLC meanwhile: the unwrap or expect on its answer panics
InterceptLate(h) ==
    /\ Intercepting(h, "pending") \/ Intercepting(h, "failed")
    /\ ~StillHeld(h)
    /\ dead' = dead \cup {"taker"}
    /\ verdict' = "none"
    /\ UNCHANGED <<now, store, apiVars, poisoned, queue, handled, legVars, crossed, crashes>>

\* claim_funds does nothing when LDK has failed the HTLC meanwhile
PaymentClaimable(h) ==
    /\ Ready("maker", "PaymentClaimable", h)
    /\ IF leg[h] = "arrived"
       THEN /\ leg' = [leg EXCEPT ![h] = "claimed"]
            /\ paid' = paid \cup {h}
            /\ HandledWith("maker", <<Event("PaymentClaimed", h)>>)
       ELSE Handled("maker") /\ UNCHANGED <<leg, paid>>
    /\ UNCHANGED <<now, store, apiVars, poisoned, legTerms, tries, crossed, crashes>>

\* PaymentClaimed and PaymentSent: the maker receives and sends the payment
PaymentSucceeded(h) ==
    /\ Ready("maker", "PaymentClaimed", h) \/ Ready("maker", "PaymentSent", h)
    /\ "maker" \notin poisoned
    /\ UpdateStatus("maker", h, "Succeeded")
    /\ Handled("maker")
    /\ UNCHANGED <<now, apiVars, poisoned, legVars, crossed, crashes>>

\* Mutation: the status is left to /listswaps
PaymentFailedSilently(h) ==
    /\ Ready("maker", "PaymentFailed", h)
    /\ "maker" \notin poisoned
    /\ Handled("maker")
    /\ UNCHANGED <<now, store, apiVars, poisoned, legVars, crossed, crashes>>

PaymentFailed(h) ==
    /\ Ready("maker", "PaymentFailed", h)
    /\ "maker" \notin poisoned
    /\ UpdateStatus("maker", h, "Failed")
    /\ Handled("maker")
    /\ UNCHANGED <<now, apiVars, poisoned, legVars, crossed, crashes>>

\* The lock().unwrap() of is_maker_swap
PoisonedStore(h) ==
    /\ \E k \in {"PaymentClaimed", "PaymentSent", "PaymentFailed"} : Ready("maker", k, h)
    /\ "maker" \in poisoned
    /\ dead' = dead \cup {"maker"}
    /\ UNCHANGED <<now, store, apiVars, poisoned, queue, handled, verdict, legVars,
                   crossed, crashes>>

\* Mutation: the taker's status is forgotten
PaymentForwardedOnly(h) ==
    /\ Ready("taker", "PaymentForwarded", h)
    /\ Handled("taker")
    /\ UNCHANGED <<now, store, apiVars, poisoned, legVars, crossed, crashes>>

PaymentForwarded(h) ==
    /\ Ready("taker", "PaymentForwarded", h)
    /\ IF Known("taker", h) THEN UpdateStatus("taker", h, "Succeeded") ELSE UNCHANGED store
    /\ Handled("taker")
    /\ UNCHANGED <<now, apiVars, poisoned, legVars, crossed, crashes>>

----------------------------------------------------------------------------
(* The HTLC, as LDK moves it: external *)

Moves(h, from, to) == leg[h] \in from /\ leg' = [leg EXCEPT ![h] = to]

InterceptHtlc(h) ==
    /\ Moves(h, {"toTaker"}, "held")
    /\ Push("taker", Event("HTLCIntercepted", h))

\* A hop fails it, or it times out at the taker or at the maker
HtlcFails(h) ==
    /\ Moves(h, {"toTaker", "held", "toMaker", "arrived"}, "failing")
    /\ UNCHANGED queue

HtlcArrives(h) ==
    /\ Moves(h, {"toMaker"}, "arrived")
    /\ Push("maker", Event("PaymentClaimable", h))

FulfilTaker(h) ==
    /\ Moves(h, {"claimed"}, "returning")
    /\ Push("taker", Event("PaymentForwarded", h))

FulfilMaker(h) ==
    /\ Moves(h, {"returning"}, "done")
    /\ Push("maker", Event("PaymentSent", h))

FailMaker(h) ==
    /\ Moves(h, {"failing"}, "failed")
    /\ Push("maker", Event("PaymentFailed", h))

\* LDK forgets the payment id some time after PaymentSent was handled
Forget(h) ==
    /\ Moves(h, {"done"}, "none")
    /\ \A i \in DOMAIN queue["maker"] :
         ~(queue["maker"][i].kind = "PaymentSent" /\ queue["maker"][i].swap = h)
    /\ UNCHANGED queue

Network(h) ==
    /\ \/ InterceptHtlc(h) \/ HtlcFails(h) \/ HtlcArrives(h)
       \/ FulfilTaker(h) \/ FulfilMaker(h) \/ FailMaker(h) \/ Forget(h)
    /\ UNCHANGED <<now, store, apiVars, poisoned, handled, dead, verdict, legTerms, tries,
                   paid, crossed, crashes>>

Persist(n) ==
    /\ handled[n] # <<>>
    /\ handled' = [handled EXCEPT ![n] = <<>>]
    /\ UNCHANGED <<now, store, apiVars, poisoned, queue, dead, verdict, legVars, crossed,
                   crashes>>

\* What was handled since the last persist is delivered again.  An HTLCIntercepted
\* is when its answer had not left the node, and then the HTLC is held as before.
Crash(n) ==
    /\ crashes < MaxCrashes
    /\ crashes' = crashes + 1
    /\ LET Unanswered(e) == /\ e.kind = "HTLCIntercepted" /\ e.try = tries[e.swap]
                            /\ leg[e.swap] \in {"toMaker", "failing"}
           again == Pick(handled[n], {i \in DOMAIN handled[n] :
                            handled[n][i].kind = "HTLCIntercepted"
                            => Unanswered(handled[n][i])})
           held == {e.swap : e \in {d \in Members(again) : Unanswered(d)}}
       IN /\ queue' = [queue EXCEPT ![n] = again \o @]
          /\ leg' = [h \in Swaps |-> IF h \in held THEN "held" ELSE leg[h]]
    /\ handled' = [m \in Nodes |->
                    IF m = n \/ crashes + 1 = MaxCrashes THEN <<>> ELSE handled[m]]
    /\ dead' = dead \ {n}
    /\ verdict' = IF n = "taker" THEN "none" ELSE verdict
    /\ poisoned' = poisoned \ {n}
    /\ api' = [api EXCEPT ![n] = "idle"]
    /\ copy' = [copy EXCEPT ![n] = Empty] /\ todo' = [todo EXCEPT ![n] = {}]
    /\ IF n = "maker" THEN target' = None /\ asked' = None ELSE UNCHANGED <<target, asked>>
    /\ UNCHANGED <<now, store, legTerms, tries, paid, crossed>>

Tick ==
    /\ now < MaxTime
    /\ now' = now + 1
    /\ UNCHANGED <<store, apiVars, poisoned, eventVars, legVars, crossed, crashes>>

----------------------------------------------------------------------------
Request(h) ==
    \/ \E t \in Offered : MakerInit(h, t)
    \/ \E t \in Terms : Taker(h, t) \/ ExecutePending(h, t)
    \/ ExecuteExpired(h)

FinishMaker == ExecuteSend \/ ExecuteSendFails \/ ExecuteFailed
FinishList(n) == \E h \in Swaps : MapSwap(n, h)

HandleTaker(h) ==
    \/ InterceptUnknown(h) \/ InterceptUnknownLate(h)
    \/ InterceptCompare(h) \/ InterceptWrite(h) \/ InterceptAnswer(h) \/ InterceptLate(h)
    \/ PaymentForwarded(h)

HandleMaker(h) ==
    PaymentClaimable(h) \/ PaymentSucceeded(h) \/ PaymentFailed(h) \/ PoisonedStore(h)

Next ==
    \/ \E h \in Swaps : Request(h) \/ HandleTaker(h) \/ HandleMaker(h) \/ Network(h)
    \/ ExecuteUnknown
    \/ FinishMaker
    \/ \E n \in Nodes : \/ \E hs \in SUBSET Swaps : ListSwaps(n, hs)
                        \/ FinishList(n)
                        \/ Persist(n) \/ Crash(n)
    \/ Tick

\* A request that started ends (no_cancel), events keep being handled, and an
\* HTLC is resolved at the latest by its timeouts.  No request is fair.
Fairness ==
    /\ WF_vars(FinishMaker)
    /\ \A n \in Nodes : WF_vars(FinishList(n))
    /\ WF_vars(\E h \in Swaps : HandleTaker(h))
    /\ WF_vars(\E h \in Swaps : HandleMaker(h))
    /\ \A h \in Swaps : WF_vars(Network(h))

Spec == Init /\ [][Next]_vars /\ Fairness

----------------------------------------------------------------------------
(* Properties *)

\* No store calls a swap Succeeded unless its HTLC was claimed: not through late
\* lists, events delivered again or executions of the same swap again.
SucceededWasPaid ==
    \A n \in Nodes, h \in Swaps : store[n][h].status = "Succeeded" => h \in paid

\* While the taker calls a swap Pending and its HTLC is on its way, the HTLC carries
\* the terms the store shows, although HTLCIntercepted is delivered again after a crash
\* and /taker may replace them at any time; it must not have done so between the
\* comparison of the terms and the update of the status, which two holdings of the
\* mutex make: then the store shows as Pending what nobody compared.
PendingMatchesHtlc ==
    \A h \in Swaps \ crossed :
        /\ store["taker"][h].status = "Pending"
        /\ leg[h] \in {"toMaker", "arrived", "claimed", "returning"}
        => store["taker"][h].terms = legTerms[h]

\* Between the answer to the interception and the end of the HTLC the taker is bound
Bound(h) == leg[h] \in {"toMaker", "arrived", "claimed", "returning"}

\* Between the comparison and the answer it has agreed to the terms it compared
Agreed(h) ==
    (verdict = "match" \/ verdict = "pending") /\ Head(queue["taker"]).swap = h /\ StillHeld(h)

Atomic == INSTANCE AtomicSwap
    WITH accepted <- [h \in Swaps |-> store["taker"][h].terms],
         agreed <- [h \in Swaps |-> IF Agreed(h) THEN legTerms[h] ELSE None],
         phase <- [h \in Swaps |-> IF ~Bound(h) THEN "open"
                                   ELSE IF leg[h] \in {"claimed", "returning"} THEN "settled"
                                   ELSE "bound"],
         bound <- [h \in Swaps |-> IF Bound(h) THEN legTerms[h] ELSE None]

\* The taker forwards an HTLC only under terms its store had when it compared them for
\* this HTLC, the HTLC keeps them while /taker may store others, before the answer as
\* well as after it, and once the maker has claimed it nothing takes it back: not a
\* timeout, a second execution, or an interception that a crash of either node
\* delivers again.
KeepsTerms == Atomic!Spec

\* Once the HTLC is claimed both nodes come to call the swap Succeeded, unless
\* the event handler of the one that does not has panicked.
PaidIsReported ==
    \A h \in Swaps :
        /\ leg[h] = "claimed" ~> store["maker"][h].status = "Succeeded" \/ "maker" \in dead
        /\ leg[h] = "claimed" ~> store["taker"][h].status = "Succeeded" \/ "taker" \in dead

\* The maker does not wait for ever, whatever happens to the HTLC, unless it
\* crashed between the two steps of /makerexecute or its event handler panicked.
PendingEnds ==
    \A h \in Swaps :
        store["maker"][h].status = "Pending" ~>
            store["maker"][h].status # "Pending" \/ crashes > 0 \/ "maker" \in dead

(* Statements of the repository that the code does not keep. *)

\* swap_roundtrip_fail_whitelist.rs looks for "rejecting non-Waiting swap" in the
\* log: the taker forwards an HTLC only for a swap that is Waiting.
OnlyWaitingForwarded ==
    [][\A h \in Swaps : leg[h] = "held" /\ leg'[h] = "toMaker"
                        => store["taker"][h].status = "Waiting"]_vars
=============================================================================
