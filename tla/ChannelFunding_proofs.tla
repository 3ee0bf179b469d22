----------------------- MODULE ChannelFunding_proofs -----------------------
(***************************************************************************)
(* For any channels, faults, number of crashes and number of failing calls.*)
(*                                                                         *)
(* F1r3node is asked to move an asset onto a funding output at most as     *)
(* often as a broadcast of its transaction was accepted.  The file that    *)
(* says what to move is rewritten by every opening, and the event that     *)
(* triggers the move may be handled any number of times; what bounds the   *)
(* transfers is that each follows a broadcast of its own.                  *)
(*                                                                         *)
(* Until a crash rgb_send_lock keeps openings apart, so the file is the    *)
(* one of the channel that is transferred to, and each gets its asset.     *)
(* Together the two say that the openings implement SerialOpening.         *)
(***************************************************************************)
EXTENDS ChannelFunding, EventQueue_proofs

\* The types, but for those of LDK's queue and of the bounds
Typed ==
    /\ sendLock \in BOOLEAN
    /\ api \in {"idle", "begin", "lock", "create", "info"}
    /\ opening \in Channels \cup {None}
    /\ api # "idle" => opening \in Channels
    /\ ev \in {"idle", "post", "generate", "read", "broadcast", "transfer", "track",
               "remove", "unlock", "dead"}
    /\ cur \in Channels \cup {None}
    /\ ev \notin {"idle", "dead"} => cur \in Channels
    /\ evColored \in BOOLEAN
    /\ evTransfer \in Channels \cup {None}
    /\ ev \in {"transfer", "track"} => evTransfer \in Channels
    /\ ev = "broadcast" /\ evColored => evTransfer \in Channels
    /\ info \subseteq Channels
    /\ pending \in Channels \cup {None}
    /\ ids \subseteq Channels
    /\ tracked \subseteq Channels
    /\ stage \in [Channels -> Stages]
    /\ sent \in [Channels -> Nat]
    /\ posted \subseteq Channels
    /\ transfers \in Seq(Transfers)

\* What follows a broadcast is behind it, and a transfer that is about to be made has
\* a broadcast of its own
Ordered ==
    /\ ev \in {"transfer", "track", "remove", "unlock"} => sent[cur] > 0
    /\ ev = "transfer" => Cardinality(Onto(cur)) < sent[cur]

IInv == Typed /\ Ordered /\ OneTransferPerBroadcast

\* Every step keeps the types
LEMMA TypedStep == Typed /\ [Next]_vars => Typed'
<1> SUFFICES ASSUME Typed, [Next]_vars
             PROVE  Typed'
    OBVIOUS
<1> USE FundingAssumption
        DEF ldkVars, evVars, apiVars, outVars, Handled, Replay, Fails, SetStage, Typed,
            Stages, Transfers
<1>1. ASSUME NEW c \in Channels, Open(c) PROVE Typed'
    BY <1>1 DEF Open, Ready
<1>2. ASSUME NEW c \in Channels, PeerAccepts(c) PROVE Typed'
    BY <1>2 DEF PeerAccepts, Ready
<1>3. ASSUME NEW c \in Channels, PeerGone(c) PROVE Typed'
    BY <1>3 DEF PeerGone, Ready
<1>4. ASSUME NEW c \in Channels, PeerSigns(c) PROVE Typed'
    BY <1>4 DEF PeerSigns, Ready
<1>5. ASSUME NEW c \in Channels, GenerateFunding(c) PROVE Typed'
    BY <1>5 DEF GenerateFunding, Ready
<1>6. ASSUME NEW c \in Channels, GenerateFundingPanics(c) PROVE Typed'
    BY <1>6 DEF GenerateFundingPanics, Ready
<1>7. ASSUME NEW c \in Channels, ChannelPending(c) PROVE Typed'
    <2>1. /\ UNCHANGED <<sendLock, api, opening, evTransfer, info, pending, tracked,
                        stage, sent, posted, transfers>>
          /\ ids' = ids \cup {c} /\ cur' = c
      BY <1>7 DEF ChannelPending
    <2>2. CASE c \in info
      BY <1>7, <2>1, <2>2 DEF ChannelPending
    <2>3. CASE c \notin info
      <3>1. evColored' = (c \in info) /\ ev' = "broadcast"
        BY <1>7, <2>3 DEF ChannelPending
      <3>2. evColored' \in BOOLEAN
        BY <3>1
      <3>3. ~evColored'
        BY <2>3, <3>1
      <3>4. QED BY <2>1, <3>1, <3>2, <3>3
    <2>4. QED BY <2>2, <2>3
<1>8. ASSUME NEW c \in Channels, ChannelClosed(c) PROVE Typed'
    BY <1>8 DEF ChannelClosed, Ready
<1>9. ASSUME NEW c \in Channels, DiscardFunding(c) PROVE Typed'
    BY <1>9 DEF DiscardFunding, Ready
<1>10. CASE OpenBegin
    BY <1>10 DEF OpenBegin
<1>11. CASE OpenBeginFails
    BY <1>11 DEF OpenBeginFails
<1>12. CASE OpenLock
    BY <1>12 DEF OpenLock
<1>13. CASE OpenCreate
    BY <1>13 DEF OpenCreate
<1>14. CASE OpenCreateFails
    BY <1>14 DEF OpenCreateFails
<1>15. CASE OpenWriteInfo
    BY <1>15 DEF OpenWriteInfo
<1>16. CASE PostConsignment
    BY <1>16 DEF PostConsignment
<1>17. CASE PostConsignmentFails
    BY <1>17 DEF PostConsignmentFails
<1>18. CASE FundingGenerated
    BY <1>18 DEF FundingGenerated
<1>19. CASE SendEndRead
    BY <1>19 DEF SendEndRead
<1>20. CASE Broadcast
    BY <1>20 DEF Broadcast
<1>21. CASE BroadcastKnown
    BY <1>21 DEF BroadcastKnown
<1>22. CASE BroadcastFails
    BY <1>22 DEF BroadcastFails
<1>23. CASE Transfer
    BY <1>23 DEF Transfer
<1>24. CASE TransferFails
    BY <1>24 DEF TransferFails
<1>25. CASE TrackLockedUtxo
    BY <1>25 DEF TrackLockedUtxo
<1>26. CASE TrackFails
    BY <1>26 DEF TrackFails
<1>27. CASE SendEndRemove
    BY <1>27 DEF SendEndRemove
<1>28. CASE Funded
    BY <1>28 DEF Funded
<1>29. CASE Persist
    BY <1>29 DEF Persist
<1>30. CASE Crash
    BY <1>30 DEF Crash
<1>31. CASE UNCHANGED vars
    BY <1>31 DEF vars
<1>32. QED
    BY <1>1, <1>2, <1>3, <1>4, <1>5, <1>6, <1>7, <1>8, <1>9, <1>10, <1>11,
       <1>12, <1>13, <1>14, <1>15, <1>16, <1>17, <1>18, <1>19, <1>20, <1>21,
       <1>22, <1>23, <1>24, <1>25, <1>26, <1>27, <1>28, <1>29, <1>30, <1>31
    DEF Next, OpenChannel, Peer, TakeEvent, HandleEvent

\* The transfers onto an output can be counted.
LEMMA OntoIsFinite ==
    ASSUME Typed, NEW c
    PROVE  IsFiniteSet(Onto(c)) /\ Cardinality(Onto(c)) \in Nat
<1>1. transfers \in Seq(Transfers) /\ DOMAIN transfers = 1 .. Len(transfers)
      /\ Len(transfers) \in Nat
  BY DEF Typed
<1>2. Onto(c) \subseteq 1 .. Len(transfers) /\ IsFiniteSet(1 .. Len(transfers))
  BY <1>1, FS_Interval DEF Onto
<1>3. QED BY <1>2, FS_Subset, FS_CardinalityType

\* A transfer is one more onto its own output, and onto no other.
LEMMA OntoGrows ==
    ASSUME Typed, Transfer, NEW c \in Channels
    PROVE  Cardinality(Onto(c)') = IF c = cur THEN Cardinality(Onto(c)) + 1
                                   ELSE Cardinality(Onto(c))
<1> DEFINE n == Len(transfers)
<1>1. /\ transfers \in Seq(Transfers) /\ n \in Nat /\ DOMAIN transfers = 1 .. n
      /\ cur \in Channels /\ evTransfer \in Channels
  BY DEF Typed, Transfer
<1>2. /\ DOMAIN transfers' = 1 .. (n + 1)
      /\ \A i \in 1 .. n : transfers'[i] = transfers[i]
      /\ transfers'[n + 1].to = cur
  BY <1>1 DEF Transfer, Transfers
<1>3. Onto(c)' = IF c = cur THEN Onto(c) \cup {n + 1} ELSE Onto(c)
  BY <1>1, <1>2 DEF Onto
<1>4. n + 1 \notin Onto(c)
  BY <1>1 DEF Onto
<1>5. Cardinality(Onto(c) \cup {n + 1}) = Cardinality(Onto(c)) + 1
  BY <1>4, OntoIsFinite, FS_AddElement
<1>6. QED BY <1>3, <1>5

\* Steps that neither broadcast nor transfer
LEMMA OrderKept ==
    ASSUME Typed, Ordered, OneTransferPerBroadcast, UNCHANGED <<sent, transfers>>,
           \/ ev' \notin {"transfer", "track", "remove", "unlock"}
           \/ /\ cur' = cur /\ sent[cur] > 0
              /\ ev' = "transfer" => ev = "transfer"
    PROVE  (Ordered /\ OneTransferPerBroadcast)'
<1>1. \A c : Onto(c)' = Onto(c)
  BY DEF Onto
<1>2. QED BY <1>1 DEF Ordered, OneTransferPerBroadcast

\* Each transfer follows a broadcast of its own.
LEMMA OrderStep ==
    ASSUME Typed, Ordered, OneTransferPerBroadcast, [Next]_vars
    PROVE  (Ordered /\ OneTransferPerBroadcast)'
<1> USE DEF ldkVars, evVars, apiVars, outVars, Handled, Replay
<1>1. CASE Broadcast
  <2>1. /\ cur \in Channels /\ cur' = cur /\ ev' \in {"transfer", "unlock"}
        /\ transfers' = transfers /\ sent' = [sent EXCEPT ![cur] = @ + 1]
        /\ sent \in [Channels -> Nat]
    BY <1>1 DEF Broadcast, Typed
  <2>2. \A c : Onto(c)' = Onto(c)
    BY <2>1 DEF Onto
  <2>3. \A c \in Channels : /\ Cardinality(Onto(c)) \in Nat
                            /\ Cardinality(Onto(c)) <= sent[c]
    BY OntoIsFinite DEF OneTransferPerBroadcast
  <2>4. Cardinality(Onto(cur)) < sent'[cur] /\ sent'[cur] > 0
    BY <2>1, <2>3
  <2>5. \A c \in Channels : Cardinality(Onto(c)) <= sent'[c]
    BY <2>1, <2>3
  <2>6. QED BY <2>1, <2>2, <2>4, <2>5 DEF Ordered, OneTransferPerBroadcast
<1>2. CASE Transfer
  <2>1. /\ cur \in Channels /\ cur' = cur /\ ev = "transfer" /\ ev' = "track"
        /\ sent' = sent /\ sent \in [Channels -> Nat]
    BY <1>2 DEF Transfer, Typed
  <2>2. /\ Cardinality(Onto(cur)) < sent[cur] /\ sent[cur] > 0
        /\ \A c \in Channels : Cardinality(Onto(c)) \in Nat
    BY <2>1, OntoIsFinite DEF Ordered
  <2>3. \A c \in Channels : Cardinality(Onto(c)') <= sent[c]
    BY <1>2, <2>1, <2>2, OntoGrows DEF OneTransferPerBroadcast
  <2>4. QED BY <2>1, <2>2, <2>3 DEF Ordered, OneTransferPerBroadcast
<1>3. CASE OpenChannel
  BY <1>3, OrderKept
  DEF OpenChannel, Open, OpenBegin, OpenBeginFails, OpenLock, OpenCreate,
      OpenCreateFails, OpenWriteInfo, Ordered
<1>4. ASSUME NEW c \in Channels, Peer(c)
      PROVE  (Ordered /\ OneTransferPerBroadcast)'
  BY <1>4, OrderKept DEF Peer, PeerAccepts, PeerGone, PeerSigns, Ordered
<1>5. ASSUME NEW c \in Channels, TakeEvent(c)
      PROVE  (Ordered /\ OneTransferPerBroadcast)'
  BY <1>5, OrderKept
  DEF TakeEvent, GenerateFunding, GenerateFundingPanics, ChannelPending, ChannelClosed,
      DiscardFunding
<1>6. CASE PostConsignment \/ PostConsignmentFails \/ FundingGenerated \/ SendEndRead
           \/ BroadcastKnown \/ BroadcastFails
  BY <1>6, OrderKept
  DEF PostConsignment, PostConsignmentFails, FundingGenerated, SendEndRead,
      BroadcastKnown, BroadcastFails
<1>7. CASE TransferFails \/ TrackLockedUtxo \/ TrackFails \/ SendEndRemove \/ Funded
  BY <1>7, OrderKept
  DEF TransferFails, TrackLockedUtxo, TrackFails, SendEndRemove, Funded, Ordered
<1>8. CASE Persist \/ Crash \/ UNCHANGED vars
  BY <1>8, OrderKept DEF Persist, Crash, vars, Ordered
<1>9. QED
  BY <1>1, <1>2, <1>3, <1>4, <1>5, <1>6, <1>7, <1>8 DEF Next, HandleEvent

----------------------------------------------------------------------------
LEMMA InitIInv == Init => IInv
<1> SUFFICES ASSUME Init PROVE IInv
  OBVIOUS
<1>1. <<>> \in Seq(Transfers) /\ DOMAIN <<>> = {}
  OBVIOUS
<1>2. Typed /\ Ordered
  BY <1>1, FundingAssumption DEF Init, Typed, Ordered, Stages
<1>3. \A c \in Channels : Onto(c) = {} /\ sent[c] = 0
  BY <1>1 DEF Init, Onto
<1>4. QED BY <1>2, <1>3, FS_EmptySet DEF IInv, OneTransferPerBroadcast

LEMMA StepIInv == IInv /\ [Next]_vars => IInv'
BY TypedStep, OrderStep DEF IInv

\* However often ChannelPending is delivered again, after ReplayEvent or after a
\* crash at any point of send_end, F1r3node is not asked for more transfers onto a
\* funding output than broadcasts of its transaction were accepted.
THEOREM OneTransferPerBroadcastHolds == Spec => []OneTransferPerBroadcast
<1>1. Init => IInv
    BY InitIInv
<1>2. IInv /\ [Next]_vars => IInv'
    BY StepIInv
<1>3. IInv => OneTransferPerBroadcast
    BY DEF IInv
<1>4. QED
    BY <1>1, <1>2, <1>3, PTL DEF Spec

----------------------------------------------------------------------------
(* Types *)

\* LDK's queue; the first event stays until its handler ends
QueueTyped ==
    /\ events \in Seq(Events)
    /\ handled \in Seq(Events)
    /\ ev \notin {"idle", "dead"} => events # <<>>

Bounded ==
    /\ crashes \in 0 .. MaxCrashes
    /\ failed \subseteq Faults
    /\ IsFiniteSet(failed) /\ Cardinality(failed) <= MaxFailures

WellTyped == Typed /\ QueueTyped /\ Bounded

\* A call fails for the first time.
LEMMA FailsBounded ==
    ASSUME Bounded, NEW f, Fails(f)
    PROVE  /\ failed' \subseteq Faults
           /\ IsFiniteSet(failed') /\ Cardinality(failed') <= MaxFailures
<1>1. /\ failed' = failed \cup {f} /\ f \notin failed /\ f \in Faults
      /\ IsFiniteSet(failed) /\ Cardinality(failed) < MaxFailures
  BY DEF Bounded, Fails
<1>2. Cardinality(failed) \in Nat /\ Cardinality(failed') = Cardinality(failed) + 1
      /\ IsFiniteSet(failed')
  BY <1>1, FS_AddElement, FS_CardinalityType
<1>3. QED BY <1>1, <1>2, FundingAssumption DEF Bounded, FundingAssumption

\* Every step keeps the bounds.
LEMMA BoundedStep == Bounded /\ [Next]_vars => Bounded'
<1> SUFFICES ASSUME Bounded, [Next]_vars
             PROVE  Bounded'
    OBVIOUS
<1>1. UNCHANGED <<crashes, failed>> => Bounded'
    BY DEF Bounded
<1>2. ASSUME NEW f, Fails(f), UNCHANGED crashes PROVE Bounded'
    BY <1>2, FailsBounded DEF Bounded
<1>3. CASE OpenChannel
    BY <1>1, <1>2, <1>3
    DEF OpenChannel, Open, OpenBegin, OpenBeginFails, OpenLock, OpenCreate,
        OpenCreateFails, OpenWriteInfo
<1>4. ASSUME NEW c \in Channels, Peer(c) PROVE Bounded'
    BY <1>1, <1>4 DEF Peer, PeerAccepts, PeerGone, PeerSigns
<1>5. ASSUME NEW c \in Channels, TakeEvent(c) PROVE Bounded'
    BY <1>1, <1>2, <1>5
    DEF TakeEvent, GenerateFunding, GenerateFundingPanics, ChannelPending,
        ChannelClosed, DiscardFunding
<1>6. CASE PostConsignment \/ PostConsignmentFails \/ FundingGenerated \/ SendEndRead
           \/ Broadcast \/ BroadcastKnown \/ BroadcastFails
    BY <1>1, <1>2, <1>6
    DEF PostConsignment, PostConsignmentFails, FundingGenerated, SendEndRead,
        Broadcast, BroadcastKnown, BroadcastFails
<1>7. CASE Transfer \/ TransferFails \/ TrackLockedUtxo \/ TrackFails \/ SendEndRemove
           \/ Funded
    BY <1>1, <1>2, <1>7
    DEF Transfer, TransferFails, TrackLockedUtxo, TrackFails, SendEndRemove, Funded
<1>8. CASE Persist
    BY <1>1, <1>8 DEF Persist
<1>9. CASE Crash
  <2>1. crashes < MaxCrashes /\ crashes' = crashes + 1 /\ failed' = failed
    BY <1>9 DEF Crash
  <2>2. QED BY <2>1, FundingAssumption DEF Bounded, FundingAssumption
<1>10. CASE UNCHANGED vars
    BY <1>1, <1>10 DEF vars
<1>11. QED
    BY <1>3, <1>4, <1>5, <1>6, <1>7, <1>8, <1>9, <1>10 DEF Next, HandleEvent

\* The handler of the first event ends.
LEMMA HandledTyped ==
    ASSUME QueueTyped, events # <<>>, Handled
    PROVE  QueueTyped'
<1>1. Tail(events) \in Seq(Events) /\ Head(events) \in Events
    BY MembersOfTail DEF QueueTyped
<1>2. /\ ev' = "idle" /\ events' = Tail(events)
      /\ handled' = <<>> \/ handled' = Append(handled, Head(events))
    BY DEF Handled
<1>3. handled' \in Seq(Events)
  <2>1. handled \in Seq(Events) /\ <<>> \in Seq(Events)
    BY DEF QueueTyped
  <2>2. Append(handled, Head(events)) \in Seq(Events)
    BY <1>1, <2>1, MembersOfAppend
  <2>3. QED BY <1>2, <2>1, <2>2
<1>4. QED BY <1>1, <1>2, <1>3 DEF QueueTyped

\* What is not an event stays as it is.
LEMMA QuietTyped ==
    ASSUME QueueTyped, UNCHANGED <<events, handled>>,
           ev' \in {"idle", "dead"} \/ events # <<>>
    PROVE  QueueTyped'
BY DEF QueueTyped

\* LDK queues an event.
LEMMA AppendTyped ==
    ASSUME QueueTyped, UNCHANGED <<ev, handled>>, NEW e \in Events,
           NEW s \in Seq(Events), events' = Append(s, e)
    PROVE  QueueTyped'
<1>1. Append(s, e) \in Seq(Events) /\ Append(s, e) # <<>>
    BY MembersOfAppend
<1>2. QED BY <1>1 DEF QueueTyped

\* A peer that goes away makes LDK queue one event or two.
LEMMA GoneAppends ==
    ASSUME QueueTyped, NEW c \in Channels, PeerGone(c)
    PROVE  events' = IF stage[c] = "generated"
                     THEN Append(Append(events, Event("ChannelClosed", c)),
                                 Event("DiscardFunding", c))
                     ELSE Append(events, Event("ChannelClosed", c))
<1>1. /\ events \in Seq(Events)
      /\ Event("ChannelClosed", c) \in Events /\ Event("DiscardFunding", c) \in Events
    BY DEF QueueTyped, Event, Events, Kinds
<1>2. QED BY <1>1, ConcatIsAppend DEF PeerGone

\* A restart rebuilds the queue from what it knew.
LEMMA CrashTyped ==
    ASSUME QueueTyped, Crash
    PROVE  QueueTyped'
<1> DEFINE past == handled \o events
           P == {i \in DOMAIN past : past[i].kind # "FundingGenerationReady"}
<1>1. events' = Pick(past, P) /\ handled' = <<>> /\ ev' = "idle"
    BY DEF Crash
<1>2. past \in Seq(Events)
    BY MembersOfConcat DEF QueueTyped
<1>3. P \in SUBSET (1 .. Len(past))
    BY <1>2
<1> HIDE DEF past, P
<1>4. Pick(past, P) \in Seq(Events)
    BY <1>2, <1>3, PickProperties
<1>5. QED BY <1>1, <1>4 DEF QueueTyped

\* Every step keeps the queue's types, and no handler loses its event.
LEMMA QueueTypedStep == Typed /\ QueueTyped /\ [Next]_vars => QueueTyped'
<1> SUFFICES ASSUME Typed, QueueTyped, [Next]_vars
             PROVE  QueueTyped'
    OBVIOUS
<1> USE DEF ldkVars, evVars
<1>1. CASE OpenChannel
  <2>1. UNCHANGED <<events, handled, ev>>
    BY <1>1 DEF OpenChannel, Open, OpenBegin, OpenBeginFails, OpenLock, OpenCreate,
                OpenCreateFails, OpenWriteInfo
  <2>2. QED BY <2>1 DEF QueueTyped
<1>2. ASSUME NEW c \in Channels, Peer(c) PROVE QueueTyped'
  <2>1. \A k \in Kinds : Event(k, c) \in Events
    BY DEF Event, Events
  <2>2. events \in Seq(Events)
    BY DEF QueueTyped
  <2>3. CASE PeerAccepts(c) \/ PeerSigns(c)
    <3>1. PICK k \in Kinds : events' = Append(events, Event(k, c)) /\ UNCHANGED <<ev, handled>>
      BY <2>3 DEF PeerAccepts, PeerSigns, Kinds
    <3>2. QED BY <2>1, <2>2, <3>1, AppendTyped
  <2>4. CASE PeerGone(c)
    <3>1. UNCHANGED <<ev, handled>>
      BY <2>4 DEF PeerGone
    <3>2. PICK k \in Kinds, s \in Seq(Events) : events' = Append(s, Event(k, c))
      <4>1. Append(events, Event("ChannelClosed", c)) \in Seq(Events)
        BY <2>1, <2>2 DEF Kinds
      <4>2. QED BY <2>2, <2>4, <4>1, GoneAppends DEF Kinds
    <3>3. QED BY <2>1, <3>1, <3>2, AppendTyped
  <2>5. QED BY <1>2, <2>3, <2>4 DEF Peer
<1>3. ASSUME NEW c \in Channels, TakeEvent(c) PROVE QueueTyped'
  <2>1. events # <<>>
    BY <1>3 DEF TakeEvent, GenerateFunding, GenerateFundingPanics, ChannelPending,
                ChannelClosed, DiscardFunding, Ready
  <2>2. CASE GenerateFunding(c) \/ GenerateFundingPanics(c) \/ ChannelPending(c)
    BY <2>1, <2>2, QuietTyped DEF GenerateFunding, GenerateFundingPanics, ChannelPending
  <2>3. CASE ChannelClosed(c) \/ DiscardFunding(c)
    BY <2>1, <2>3, HandledTyped DEF ChannelClosed, DiscardFunding
  <2>4. QED BY <1>3, <2>2, <2>3 DEF TakeEvent
<1>4. CASE FundingGenerated \/ Funded
  <2>1. events # <<>> /\ Handled
    BY <1>4 DEF FundingGenerated, Funded, QueueTyped
  <2>2. QED BY <2>1, HandledTyped
<1>5. CASE PostConsignment \/ PostConsignmentFails \/ SendEndRead \/ Broadcast
           \/ BroadcastKnown \/ BroadcastFails
  <2>1. events # <<>> /\ UNCHANGED <<events, handled>>
    BY <1>5 DEF PostConsignment, PostConsignmentFails, SendEndRead, Broadcast,
                BroadcastKnown, BroadcastFails, Replay, QueueTyped
  <2>2. QED BY <2>1, QuietTyped
<1>6. CASE Transfer \/ TransferFails \/ TrackLockedUtxo \/ TrackFails \/ SendEndRemove
  <2>1. events # <<>> /\ UNCHANGED <<events, handled>>
    BY <1>6 DEF Transfer, TransferFails, TrackLockedUtxo, TrackFails, SendEndRemove,
                Replay, QueueTyped
  <2>2. QED BY <2>1, QuietTyped
<1>7. CASE Persist
    BY <1>7 DEF Persist, QueueTyped
<1>8. CASE Crash
    BY <1>8, CrashTyped
<1>9. CASE UNCHANGED vars
    BY <1>9 DEF vars, QueueTyped
<1>10. QED
    BY <1>1, <1>2, <1>3, <1>4, <1>5, <1>6, <1>7, <1>8, <1>9 DEF Next, HandleEvent

LEMMA InvariantTyped == Spec => []WellTyped
<1>1. Init => WellTyped
  <2> SUFFICES ASSUME Init PROVE WellTyped
    OBVIOUS
  <2>1. Typed
    BY InitIInv DEF IInv
  <2>2. QueueTyped
    BY DEF Init, QueueTyped
  <2>3. Bounded
    BY FundingAssumption, FS_EmptySet DEF Init, Bounded, FundingAssumption
  <2>4. QED BY <2>1, <2>2, <2>3 DEF WellTyped
<1>2. WellTyped /\ [Next]_vars => WellTyped'
  BY TypedStep, QueueTypedStep, BoundedStep DEF WellTyped
<1>3. QED BY <1>1, <1>2, PTL DEF Spec

\* Every reachable state is well typed, LDK's queue included: it never holds
\* anything but events of this node's channels, through replays and restarts.
THEOREM TypeCorrect == Spec => []TypeOK
<1>1. WellTyped => TypeOK
  BY DEF WellTyped, Typed, QueueTyped, Bounded, TypeOK
<1>2. QED BY <1>1, InvariantTyped, PTL

----------------------------------------------------------------------------
(* One opening at a time.  All of it is about runs without a crash: a crash *)
(* forgets rgb_send_lock and keeps the pending file.                        *)

Waits(k, c) == Event(k, c) \in Members(events)
AtHead(k, c) == events # <<>> /\ Head(events) = Event(k, c)

\* What is queued for a channel tells its stage, and the event that is handled is
\* the first of the queue.
Queued ==
    /\ Distinct(events)
    /\ ev \in {"post", "generate"} => AtHead("FundingGenerationReady", cur)
    /\ ev \in {"read", "broadcast", "transfer", "track", "remove", "unlock"} =>
          AtHead("ChannelPending", cur)
    /\ \A c \in Channels :
        /\ Waits("FundingGenerationReady", c) => stage[c] \in {"accepted", "closed"}
        /\ stage[c] = "accepted" => Waits("FundingGenerationReady", c)
        /\ Waits("ChannelPending", c) <=> stage[c] = "signed"
        /\ Waits("ChannelClosed", c) => stage[c] = "closed"
        /\ Waits("DiscardFunding", c) =>
              stage[c] = "closed" /\ ~Waits("FundingGenerationReady", c)

\* The channel rgb_send_lock is held for: from create_channel until its event
\* handlers are done with it.  (When the peer goes away before it accepted, the
\* lock is held for nobody.)
Owner(c) ==
    \/ api = "create" /\ opening = c
    \/ stage[c] \in {"created", "accepted", "generated", "signed"}
    \/ Waits("FundingGenerationReady", c)
    \/ Waits("DiscardFunding", c)

Locked ==
    /\ \A c, d \in Channels : Owner(c) /\ Owner(d) => c = d
    /\ \A c \in Channels : Owner(c) => sendLock
    /\ api \in {"begin", "lock"} => ~sendLock
    /\ api \in {"begin", "lock", "create"} => stage[opening] = "none"

\* The pending file is the owner's, until send_end removed it.
FileIsOwners ==
    /\ info \subseteq Colored
    /\ api \in {"begin", "info"} => opening \in Colored
    /\ \A c \in Colored : Owner(c) /\ ~(ev = "unlock" /\ cur = c) => pending = c
    /\ api = "lock" /\ opening \in Colored => pending = opening
    /\ ev = "read" => cur \in info /\ evColored
    /\ ev \in {"transfer", "track"} => evTransfer = cur
    /\ ev = "broadcast" /\ evColored => evTransfer = cur
    /\ \A i \in DOMAIN transfers : transfers[i].asset = transfers[i].to

Has(c) == \E i \in DOMAIN transfers : transfers[i].to = c

\* The transfer follows the broadcast of a channel with a consignment, unless
\* F1r3node refused it.
AssetFollows ==
    /\ posted \subseteq info
    /\ ev = "post" => cur \in info
    /\ \A c \in Channels : sent[c] > 0 => stage[c] \in {"signed", "funded"}
    /\ ev \in {"broadcast", "transfer", "track", "remove", "unlock"} /\ ~evColored =>
          cur \notin posted
    /\ "transfer" \notin failed =>
         /\ \A c \in posted : sent[c] > 0 => Has(c) \/ (ev = "transfer" /\ cur = c)
         /\ ev \in {"track", "remove", "unlock"} /\ cur \in posted => Has(cur)
         /\ \A c \in posted : stage[c] = "funded" => Has(c)

Apart == Queued /\ Locked /\ FileIsOwners /\ AssetFollows

\* LDK queues an event it had not queued.
LEMMA Queues ==
    ASSUME QueueTyped, Distinct(events), NEW k \in Kinds, NEW c \in Channels,
           ~Waits(k, c), events' = Append(events, Event(k, c))
    PROVE  /\ Distinct(events')
           /\ \A j, d : Waits(j, d)' <=> Waits(j, d) \/ (j = k /\ d = c)
           /\ \A j, d : AtHead(j, d) => AtHead(j, d)'
<1>1. Event(k, c) \in Events /\ events \in Seq(Events)
    BY DEF Event, Events, QueueTyped
<1>2. /\ Members(events') = Members(events) \cup {Event(k, c)}
      /\ events # <<>> => Head(events') = Head(events)
      /\ events' # <<>>
    BY <1>1, MembersOfAppend
<1>3. Distinct(events')
    BY <1>1, DistinctAppend DEF Waits
<1>4. \A j, d : Event(j, d) = Event(k, c) <=> j = k /\ d = c
    BY DEF Event
<1>5. \A j, d : Waits(j, d)' <=> Waits(j, d) \/ (j = k /\ d = c)
    BY <1>2, <1>4 DEF Waits, Event
<1>6. QED BY <1>2, <1>3, <1>5 DEF AtHead, Event

\* The event at the head is dropped, and no other.
LEMMA Drops ==
    ASSUME QueueTyped, Distinct(events), NEW k, NEW c,
           AtHead(k, c), events' = Tail(events)
    PROVE  /\ Distinct(events') /\ Waits(k, c)
           /\ \A j, d : Waits(j, d)' <=> Waits(j, d) /\ ~(j = k /\ d = c)
<1>1. events \in Seq(Events) /\ events # <<>> /\ Head(events) = Event(k, c)
    BY DEF AtHead, QueueTyped
<1>2. /\ Distinct(events') /\ Members(events') = Members(events) \ {Event(k, c)}
      /\ Event(k, c) \in Members(events)
    BY <1>1, DistinctTail, MembersOfTail
<1>3. \A j, d : Event(j, d) = Event(k, c) <=> j = k /\ d = c
    BY DEF Event
<1>4. QED BY <1>2, <1>3 DEF Waits, Event

LEMMA HeadWaits ==
    ASSUME QueueTyped, NEW k, NEW c, AtHead(k, c)
    PROVE  Waits(k, c)
BY MembersOfTail DEF AtHead, QueueTyped, Waits

LEMMA SameQueue ==
    ASSUME UNCHANGED events
    PROVE  /\ Distinct(events') <=> Distinct(events)
           /\ \A j, d : Waits(j, d)' <=> Waits(j, d)
           /\ \A j, d : AtHead(j, d)' <=> AtHead(j, d)
BY DEF Waits, AtHead, Event

\* The handler of /openchannel: it starts when nobody owns the lock.
LEMMA OpenApart ==
    ASSUME Typed, QueueTyped, Apart, OpenChannel
    PROVE  Apart'
<1>1. /\ UNCHANGED <<events, ev, cur, evColored, evTransfer, sent, posted, transfers>>
      /\ failed \subseteq failed'
    BY DEF OpenChannel, Open, OpenBegin, OpenBeginFails, OpenLock, OpenCreate,
           OpenCreateFails, OpenWriteInfo, Fails, evVars, ldkVars, outVars
<1>2. /\ Distinct(events') <=> Distinct(events)
      /\ \A j, d : Waits(j, d)' <=> Waits(j, d)
      /\ \A j, d : AtHead(j, d)' <=> AtHead(j, d)
    BY <1>1, SameQueue
<1>3. \/ UNCHANGED stage
      \/ /\ api \in {"begin", "create"}
         /\ \E s \in {"created", "closed"} : stage' = [stage EXCEPT ![opening] = s]
    BY DEF OpenChannel, Open, OpenBegin, OpenBeginFails, OpenLock, OpenCreate,
           OpenCreateFails, OpenWriteInfo, SetStage, ldkVars
<1>4. Queued'
    BY <1>1, <1>2, <1>3 DEF Apart, Queued, Locked, Typed
<1>5. Has(cur)' <=> Has(cur)
    BY <1>1 DEF Has
<1>6. \A c : Has(c)' <=> Has(c)
    BY <1>1 DEF Has
<1>7. info \subseteq info'
    BY DEF OpenChannel, Open, OpenBegin, OpenBeginFails, OpenLock, OpenCreate,
           OpenCreateFails, OpenWriteInfo
<1>8. AssetFollows'
    BY <1>1, <1>3, <1>5, <1>6, <1>7 DEF Apart, AssetFollows, Locked, Typed
<1>9. ASSUME NEW c \in Channels, Open(c) PROVE Locked' /\ FileIsOwners'
    BY <1>1, <1>2, <1>9 DEF Open, ldkVars, Apart, Locked, FileIsOwners, Owner
<1>10. ASSUME OpenBegin PROVE Locked' /\ FileIsOwners'
    BY <1>1, <1>2, <1>10, FundingAssumption
    DEF OpenBegin, ldkVars, Apart, Locked, FileIsOwners, Owner
<1>11. ASSUME OpenBeginFails PROVE Locked' /\ FileIsOwners'
    BY <1>1, <1>2, <1>11
    DEF OpenBeginFails, SetStage, Apart, Locked, FileIsOwners, Owner, Typed
<1>12. ASSUME OpenLock PROVE Locked' /\ FileIsOwners'
    BY <1>1, <1>2, <1>12
    DEF OpenLock, ldkVars, Apart, Locked, FileIsOwners, Owner, Typed
<1>13. ASSUME OpenCreate PROVE Locked' /\ FileIsOwners'
    BY <1>1, <1>2, <1>13
    DEF OpenCreate, SetStage, Apart, Locked, FileIsOwners, Owner, Typed
<1>14. ASSUME OpenCreateFails PROVE Locked' /\ FileIsOwners'
    BY <1>1, <1>2, <1>14
    DEF OpenCreateFails, SetStage, Apart, Queued, Locked, FileIsOwners, Owner, Typed
<1>15. ASSUME OpenWriteInfo PROVE Locked' /\ FileIsOwners'
    BY <1>1, <1>2, <1>15
    DEF OpenWriteInfo, ldkVars, Apart, Locked, FileIsOwners, Owner, Typed
<1>16. QED
    BY <1>4, <1>8, <1>9, <1>10, <1>11, <1>12, <1>13, <1>14, <1>15
    DEF Apart, OpenChannel

\* The peer moves a channel on, or goes away: the owner of the lock stays the owner,
\* or there is none any more.
LEMMA PeerApart ==
    ASSUME Typed, QueueTyped, Apart, NEW c \in Channels, Peer(c)
    PROVE  Apart'
<1>1. /\ UNCHANGED <<sendLock, api, opening, ev, cur, evColored, evTransfer, info, pending>>
      /\ UNCHANGED <<sent, posted, transfers, failed>>
    BY DEF Peer, PeerAccepts, PeerGone, PeerSigns, apiVars, evVars, outVars
<1>2. \A d : Has(d)' <=> Has(d)
    BY <1>1 DEF Has
<1>3. PICK s \in {"accepted", "closed", "signed"} :
        /\ stage' = [stage EXCEPT ![c] = s]
        /\ stage[c] \in {"created", "accepted", "generated"}
        /\ s = "accepted" => stage[c] = "created"
        /\ s = "signed" => stage[c] = "generated"
    BY DEF Peer, PeerAccepts, PeerGone, PeerSigns, SetStage
<1>4. \A d \in Channels : stage'[d] = IF d = c THEN s ELSE stage[d]
    BY <1>3 DEF Typed
<1>5. Owner(c)
    BY <1>3 DEF Owner
<1>6. AssetFollows'
    BY <1>1, <1>2, <1>3, <1>4 DEF Apart, AssetFollows, Typed
<1>7. ASSUME Distinct(events'),
             \A j, d : d # c => (Waits(j, d)' <=> Waits(j, d)),
             \A j, d : AtHead(j, d) => AtHead(j, d)',
             Waits("FundingGenerationReady", c)' =>
                 Waits("FundingGenerationReady", c) \/ s = "accepted",
             Waits("FundingGenerationReady", c) => Waits("FundingGenerationReady", c)',
             s = "accepted" => Waits("FundingGenerationReady", c)',
             Waits("ChannelPending", c)' <=> s = "signed",
             Waits("ChannelClosed", c)' => s = "closed",
             Waits("DiscardFunding", c)' => s = "closed" /\ stage[c] = "generated"
      PROVE  Queued' /\ Locked' /\ FileIsOwners'
  <2>1. Queued'
    BY <1>1, <1>3, <1>4, <1>7 DEF Apart, Queued
  <2>2. \A d \in Channels : Owner(d)' => Owner(d)
    BY <1>1, <1>4, <1>5, <1>7 DEF Owner
  <2>3. Locked'
    BY <1>1, <1>3, <1>4, <2>2 DEF Apart, Locked, Typed
  <2>4. FileIsOwners'
    BY <1>1, <2>2, FundingAssumption DEF Apart, FileIsOwners
  <2>5. QED BY <2>1, <2>3, <2>4
<1>8. CASE PeerAccepts(c)
  <2>1. events' = Append(events, Event("FundingGenerationReady", c)) /\ s = "accepted"
    BY <1>4, <1>8 DEF PeerAccepts, SetStage, Typed
  <2>2. ~Waits("FundingGenerationReady", c) /\ stage[c] = "created" /\ Distinct(events)
    BY <1>8 DEF PeerAccepts, Apart, Queued
  <2>3. /\ Distinct(events')
        /\ \A j, d : Waits(j, d)' <=> Waits(j, d) \/ (j = "FundingGenerationReady" /\ d = c)
        /\ \A j, d : AtHead(j, d) => AtHead(j, d)'
    BY <2>1, <2>2, Queues DEF Kinds
  <2>4. Queued' /\ Locked' /\ FileIsOwners'
    BY <1>7, <2>1, <2>2, <2>3 DEF Apart, Queued
  <2>5. QED BY <1>6, <2>4 DEF Apart
<1>9. CASE PeerSigns(c)
  <2>1. events' = Append(events, Event("ChannelPending", c)) /\ s = "signed"
    BY <1>4, <1>9 DEF PeerSigns, SetStage, Typed
  <2>2. ~Waits("ChannelPending", c) /\ stage[c] = "generated" /\ Distinct(events)
    BY <1>9 DEF PeerSigns, Apart, Queued
  <2>3. /\ Distinct(events')
        /\ \A j, d : Waits(j, d)' <=> Waits(j, d) \/ (j = "ChannelPending" /\ d = c)
        /\ \A j, d : AtHead(j, d) => AtHead(j, d)'
    BY <2>1, <2>2, Queues DEF Kinds
  <2>4. Queued' /\ Locked' /\ FileIsOwners'
    BY <1>7, <2>1, <2>2, <2>3 DEF Apart, Queued
  <2>5. QED BY <1>6, <2>4 DEF Apart
<1>10. CASE PeerGone(c)
  <2>1. s = "closed"
    BY <1>4, <1>10 DEF PeerGone, SetStage, Typed
  <2>2. /\ stage[c] \in {"created", "accepted", "generated"} /\ Distinct(events)
        /\ ~Waits("ChannelClosed", c) /\ ~Waits("DiscardFunding", c)
        /\ ~Waits("ChannelPending", c)
    BY <1>3 DEF Apart, Queued
  <2> DEFINE e == Event("ChannelClosed", c)
             f == Event("DiscardFunding", c)
             one == Append(events, e)
  <2>3. /\ events \in Seq(Events) /\ e \in Events /\ f \in Events
        /\ e \notin Members(events) /\ f \notin Members(events) /\ e # f
    BY <2>2 DEF QueueTyped, Event, Events, Kinds, Waits
  <2>4. events' = IF stage[c] = "generated" THEN Append(one, f) ELSE one
    BY <1>10, GoneAppends
  <2> HIDE DEF e, f
  <2>5. /\ one \in Seq(Events) /\ Members(one) = Members(events) \cup {e}
        /\ Distinct(one) /\ one # <<>>
        /\ events # <<>> => Head(one) = Head(events)
    BY <2>2, <2>3, MembersOfAppend, DistinctAppend
  <2> HIDE DEF one
  <2>6. /\ Members(Append(one, f)) = Members(one) \cup {f}
        /\ Distinct(Append(one, f)) /\ Append(one, f) # <<>>
        /\ Head(Append(one, f)) = Head(one)
    BY <2>3, <2>5, MembersOfAppend, DistinctAppend
  <2>7. /\ Distinct(events') /\ events' # <<>>
        /\ events # <<>> => Head(events') = Head(events)
        /\ Members(events') = Members(events) \cup
              (IF stage[c] = "generated" THEN {e, f} ELSE {e})
    BY <2>4, <2>5, <2>6
  <2>8. \A j, d : AtHead(j, d) => AtHead(j, d)'
    BY <2>7 DEF AtHead, Event
  <2>9. \A j, d : Waits(j, d)' <=> \/ Waits(j, d)
                                   \/ d = c /\ j = "ChannelClosed"
                                   \/ d = c /\ j = "DiscardFunding" /\ stage[c] = "generated"
    BY <2>7 DEF Waits, e, f, Event
  <2>10. Queued' /\ Locked' /\ FileIsOwners'
    BY <1>7, <2>1, <2>2, <2>7, <2>8, <2>9
  <2>11. QED BY <1>6, <2>10 DEF Apart
<1>11. QED BY <1>8, <1>9, <1>10 DEF Peer

\* What the event handler does before it drops its event: the queue and the stages
\* stay, and so do the owners.
LEMMA HandlingApart ==
    ASSUME Typed, QueueTyped, Apart, UNCHANGED <<events, stage, sendLock, api, opening>>,
           failed \subseteq failed',
           \/ \E c \in Channels : GenerateFunding(c) \/ GenerateFundingPanics(c)
                                  \/ ChannelPending(c)
           \/ PostConsignment \/ PostConsignmentFails \/ SendEndRead
           \/ Broadcast \/ BroadcastKnown \/ BroadcastFails
           \/ Transfer \/ TransferFails \/ TrackLockedUtxo \/ TrackFails \/ SendEndRemove
    PROVE  Apart'
<1>1. /\ Distinct(events') <=> Distinct(events)
      /\ \A j, d : Waits(j, d)' <=> Waits(j, d)
      /\ \A j, d : AtHead(j, d)' <=> AtHead(j, d)
    BY SameQueue
<1>2. \A d : Owner(d)' <=> Owner(d)
    BY <1>1 DEF Owner
<1>3. Locked'
    BY <1>2 DEF Apart, Locked
<1>4. \A j, d : AtHead(j, d) => Waits(j, d)
    BY HeadWaits
<1>5. \A c \in Channels : AtHead("FundingGenerationReady", c) =>
                              Owner(c) /\ stage[c] \in {"accepted", "closed"}
    BY <1>4 DEF Owner, Apart, Queued
<1>6. \A c \in Channels : AtHead("ChannelPending", c) => Owner(c) /\ stage[c] = "signed"
    BY <1>4 DEF Owner, Apart, Queued
<1>7. \A c \in Channels : Owner(c) => api \notin {"begin", "lock"}
    BY DEF Apart, Locked
<1>8. \A c, d \in Channels : Owner(c) /\ Owner(d) => c = d
    BY DEF Apart, Locked
<1>9. Colored \subseteq Channels
    BY FundingAssumption DEF FundingAssumption
<1> USE DEF Queued, FileIsOwners, AssetFollows, outVars
<1>10. ASSUME NEW c \in Channels, GenerateFunding(c)
       PROVE  Queued' /\ FileIsOwners' /\ AssetFollows'
  <2>1. /\ cur' = c /\ AtHead("FundingGenerationReady", c) /\ ev = "idle"
        /\ pending' = IF c \in info THEN c ELSE pending
        /\ ev' = IF c \in info THEN "post" ELSE "generate"
        /\ UNCHANGED <<evTransfer, info, sent, posted, transfers, failed>>
    BY <1>10 DEF GenerateFunding, Ready, AtHead
  <2>2. Queued'
    BY <1>1, <2>1 DEF Apart
  <2>3. FileIsOwners'
    BY <1>2, <1>5, <1>7, <1>8, <1>9, <2>1 DEF Apart
  <2>4. \A d : Has(d)' <=> Has(d)
    BY <2>1 DEF Has
  <2>5. AssetFollows'
    BY <2>1, <2>4 DEF Apart
  <2>6. QED BY <2>2, <2>3, <2>5
<1>11. ASSUME NEW c \in Channels, GenerateFundingPanics(c)
       PROVE  Queued' /\ FileIsOwners' /\ AssetFollows'
  <2>1. /\ ev = "idle" /\ ev' = "dead"
        /\ UNCHANGED <<cur, evTransfer, info, pending, sent, posted, transfers>>
    BY <1>11 DEF GenerateFundingPanics, Ready
  <2>2. \A d : Has(d)' <=> Has(d)
    BY <2>1 DEF Has
  <2>3. QED BY <1>1, <1>2, <2>1, <2>2 DEF Apart
<1>12. ASSUME NEW c \in Channels, ChannelPending(c)
       PROVE  Queued' /\ FileIsOwners' /\ AssetFollows'
  <2>1. /\ cur' = c /\ AtHead("ChannelPending", c) /\ ev = "idle"
        /\ ev' = IF c \in info THEN "read" ELSE "broadcast"
        /\ UNCHANGED <<evTransfer, info, pending, sent, posted, transfers, failed>>
    BY <1>12 DEF ChannelPending, Ready, AtHead
  <2>2. evColored' => c \in info
    BY <1>12 DEF ChannelPending
  <2>3. ~evColored' => c \notin info
    BY <1>12 DEF ChannelPending
  <2>4. Queued'
    BY <1>1, <2>1 DEF Apart
  <2>5. FileIsOwners'
    BY <1>2, <2>1, <2>2, <2>3 DEF Apart
  <2>6. \A d : Has(d)' <=> Has(d)
    BY <2>1 DEF Has
  <2>7. AssetFollows'
    BY <2>1, <2>3, <2>6 DEF Apart
  <2>8. QED BY <2>4, <2>5, <2>7
<1>13. ASSUME PostConsignment PROVE Queued' /\ FileIsOwners' /\ AssetFollows'
  <2>1. /\ ev = "post" /\ ev' = "generate" /\ posted' = posted \cup {cur}
        /\ UNCHANGED <<cur, evTransfer, info, pending, sent, transfers, failed>>
    BY <1>13 DEF PostConsignment
  <2>2. cur \in Channels /\ AtHead("FundingGenerationReady", cur)
    BY <2>1 DEF Apart, Typed
  <2>3. stage[cur] \in {"accepted", "closed"} /\ cur \in info
    BY <1>5, <2>1, <2>2 DEF Apart
  <2>4. \A d : Has(d)' <=> Has(d)
    BY <2>1 DEF Has
  <2>5. QED BY <1>1, <1>2, <2>1, <2>2, <2>3, <2>4 DEF Apart
<1>14. ASSUME \/ PostConsignmentFails \/ BroadcastFails \/ TransferFails \/ TrackFails
              \/ (SendEndRead /\ pending = None) \/ (BroadcastKnown /\ ~evColored)
       PROVE  Queued' /\ FileIsOwners' /\ AssetFollows'
  <2>1. ev' = "idle"
        /\ UNCHANGED <<evTransfer, info, pending, sent, posted, transfers>>
    BY <1>14 DEF PostConsignmentFails, BroadcastFails, TransferFails, TrackFails,
                 SendEndRead, BroadcastKnown, Replay
  <2>2. ev = "transfer" => "transfer" \in failed'
    BY <1>14 DEF PostConsignmentFails, BroadcastFails, TransferFails, TrackFails,
                 SendEndRead, BroadcastKnown, Fails
  <2>3. ev # "unlock"
    BY <1>14 DEF PostConsignmentFails, BroadcastFails, TransferFails, TrackFails,
                 SendEndRead, BroadcastKnown
  <2>4. \A d : Has(d)' <=> Has(d)
    BY <2>1 DEF Has
  <2>5. Queued'
    BY <1>1, <2>1 DEF Apart
  <2>6. FileIsOwners'
    BY <1>2, <2>1, <2>3 DEF Apart
  <2>7. AssetFollows'
    BY <2>1, <2>2, <2>4 DEF Apart
  <2>8. QED BY <2>5, <2>6, <2>7
<1>15. ASSUME SendEndRead, pending # None PROVE Queued' /\ FileIsOwners' /\ AssetFollows'
  <2>1. /\ ev = "read" /\ ev' = "broadcast" /\ evTransfer' = pending
        /\ UNCHANGED <<cur, evColored, info, pending, sent, posted, transfers, failed>>
    BY <1>15 DEF SendEndRead
  <2>2. cur \in Channels /\ AtHead("ChannelPending", cur)
    BY <2>1 DEF Apart, Typed
  <2>3. pending = cur
    BY <1>6, <2>1, <2>2 DEF Apart
  <2>4. \A d : Has(d)' <=> Has(d)
    BY <2>1 DEF Has
  <2>5. QED BY <1>1, <1>2, <2>1, <2>2, <2>3, <2>4 DEF Apart
<1>16. ASSUME Broadcast PROVE Queued' /\ FileIsOwners' /\ AssetFollows'
  <2>1. /\ ev = "broadcast" /\ sent' = [sent EXCEPT ![cur] = @ + 1]
        /\ ev' = IF evColored THEN "transfer" ELSE "unlock"
        /\ UNCHANGED <<cur, evColored, evTransfer, info, pending, posted, transfers, failed>>
    BY <1>16 DEF Broadcast
  <2>2. cur \in Channels /\ AtHead("ChannelPending", cur)
    BY <2>1 DEF Apart, Typed
  <2>3. stage[cur] = "signed"
    BY <1>6, <2>2
  <2>4. \A d : Has(d)' <=> Has(d)
    BY <2>1 DEF Has
  <2>5. Queued'
    BY <1>1, <2>1 DEF Apart
  <2>6. FileIsOwners'
    BY <1>2, <2>1 DEF Apart
  <2>7. AssetFollows'
    BY <2>1, <2>2, <2>3, <2>4 DEF Apart
  <2>8. QED BY <2>5, <2>6, <2>7
<1>17. ASSUME BroadcastKnown, evColored PROVE Queued' /\ FileIsOwners' /\ AssetFollows'
  <2>1. /\ ev = "broadcast" /\ ev' = "remove" /\ sent[cur] > 0
        /\ UNCHANGED <<cur, evColored, evTransfer, info, pending, sent, posted,
                       transfers, failed>>
    BY <1>17 DEF BroadcastKnown
  <2>2. \A d : Has(d)' <=> Has(d)
    BY <2>1 DEF Has
  <2>3. Queued'
    BY <1>1, <2>1 DEF Apart
  <2>4. FileIsOwners'
    BY <1>2, <2>1 DEF Apart
  <2>5. AssetFollows'
    BY <2>1, <2>2 DEF Apart
  <2>6. QED BY <2>3, <2>4, <2>5
<1>18. ASSUME Transfer PROVE Queued' /\ FileIsOwners' /\ AssetFollows'
  <2>1. /\ ev = "transfer" /\ ev' = "track"
        /\ transfers' = Append(transfers, [to |-> cur, asset |-> evTransfer])
        /\ UNCHANGED <<cur, evColored, evTransfer, info, pending, sent, posted, failed>>
    BY <1>18 DEF Transfer
  <2>2. transfers \in Seq(Transfers) /\ evTransfer = cur /\ cur \in Channels
    BY <2>1 DEF Apart, Typed
  <2>3. /\ DOMAIN transfers' = DOMAIN transfers \cup {Len(transfers) + 1}
        /\ \A i \in DOMAIN transfers : transfers'[i] = transfers[i]
        /\ transfers'[Len(transfers) + 1] = [to |-> cur, asset |-> evTransfer]
    BY <2>1, <2>2 DEF Transfers
  <2>4. \A i \in DOMAIN transfers' : transfers'[i].asset = transfers'[i].to
    BY <2>2, <2>3 DEF Apart
  <2>5. \A d : Has(d) => Has(d)'
    BY <2>3 DEF Has
  <2>6. Has(cur)' /\ cur' = cur
    BY <2>1, <2>3 DEF Has
  <2>7. Queued'
    BY <1>1, <2>1 DEF Apart
  <2>8. FileIsOwners'
    BY <1>2, <2>1, <2>4 DEF Apart
  <2>9. AssetFollows'
    BY <2>1, <2>5, <2>6 DEF Apart
  <2>10. QED BY <2>7, <2>8, <2>9
<1>19. ASSUME TrackLockedUtxo PROVE Queued' /\ FileIsOwners' /\ AssetFollows'
  <2>1. /\ ev = "track" /\ ev' = "remove"
        /\ UNCHANGED <<cur, evColored, evTransfer, info, pending, sent, posted,
                       transfers, failed>>
    BY <1>19 DEF TrackLockedUtxo
  <2>2. \A d : Has(d)' <=> Has(d)
    BY <2>1 DEF Has
  <2>3. Queued'
    BY <1>1, <2>1 DEF Apart
  <2>4. FileIsOwners'
    BY <1>2, <2>1 DEF Apart
  <2>5. AssetFollows'
    BY <2>1, <2>2 DEF Apart
  <2>6. QED BY <2>3, <2>4, <2>5
<1>20. ASSUME SendEndRemove PROVE Queued' /\ FileIsOwners' /\ AssetFollows'
  <2>1. /\ ev = "remove" /\ ev' = "unlock" /\ pending' = None
        /\ UNCHANGED <<cur, evColored, evTransfer, info, sent, posted, transfers, failed>>
    BY <1>20 DEF SendEndRemove
  <2>2. cur \in Channels /\ AtHead("ChannelPending", cur)
    BY <2>1 DEF Apart, Typed
  <2>3. Owner(cur) /\ api \notin {"begin", "lock"}
    BY <1>6, <1>7, <2>2
  <2>4. \A d : Has(d)' <=> Has(d)
    BY <2>1 DEF Has
  <2>5. Queued'
    BY <1>1, <2>1 DEF Apart
  <2>6. FileIsOwners'
    BY <1>2, <1>8, <1>9, <2>1, <2>2, <2>3 DEF Apart
  <2>7. AssetFollows'
    BY <2>1, <2>4 DEF Apart
  <2>8. QED BY <2>5, <2>6, <2>7
<1>21. QED
    BY <1>3, <1>10, <1>11, <1>12, <1>13, <1>14, <1>15, <1>16, <1>17, <1>18, <1>19, <1>20
    DEF Apart

\* An event handler ends: the lock it frees was its own channel's.
LEMMA EndApart ==
    ASSUME Typed, QueueTyped, Apart,
           \/ FundingGenerated \/ Funded
           \/ \E c \in Channels : ChannelClosed(c) \/ DiscardFunding(c)
    PROVE  Apart'
<1>1. /\ ev' = "idle" /\ cur' = None /\ events' = Tail(events)
      /\ UNCHANGED <<api, opening, info, pending, sent, posted, transfers, failed>>
    BY DEF FundingGenerated, Funded, ChannelClosed, DiscardFunding, Handled, apiVars, outVars
<1>2. \A d : Has(d)' <=> Has(d)
    BY <1>1 DEF Has
<1>3. Distinct(events)
    BY DEF Apart, Queued
<1>4. \A c, d \in Channels : Owner(c) /\ Owner(d) => c = d
    BY DEF Apart, Locked
<1>5. Colored \subseteq Channels
    BY FundingAssumption DEF FundingAssumption
\* No channel becomes an owner, and a file that was the owner's stays so
<1>6. ASSUME \A d \in Channels : Owner(d)' => Owner(d) /\ ~(ev = "unlock" /\ cur = d)
      PROVE  FileIsOwners'
    BY <1>1, <1>5, <1>6 DEF Apart, FileIsOwners
<1>7. CASE FundingGenerated
  <2>1. cur \in Channels /\ AtHead("FundingGenerationReady", cur) /\ ev = "generate"
    BY <1>7 DEF FundingGenerated, Apart, Queued, Typed
  <2>2. PICK c \in Channels : c = cur
    BY <2>1
  <2>3. AtHead("FundingGenerationReady", c)
    BY <2>1, <2>2
  <2>4. /\ Distinct(events') /\ Waits("FundingGenerationReady", c)
        /\ \A j, d : Waits(j, d)' <=> Waits(j, d) /\ ~(j = "FundingGenerationReady" /\ d = c)
    BY <1>1, <1>3, <2>3, Drops
  <2>5. Owner(c)
    BY <2>4 DEF Owner
  <2>6. CASE stage[c] = "accepted"
    <3>1. stage' = [stage EXCEPT ![c] = "generated"] /\ sendLock' = sendLock
      BY <1>7, <2>2, <2>6 DEF FundingGenerated, SetStage
    <3>2. \A d \in Channels : stage'[d] = IF d = c THEN "generated" ELSE stage[d]
      BY <3>1 DEF Typed
    <3>3. Queued'
      BY <1>1, <2>4, <2>6, <3>2 DEF Apart, Queued
    <3>4. \A d \in Channels : Owner(d)' => Owner(d)
      BY <1>1, <2>4, <2>5, <3>2 DEF Owner
    <3>5. Locked'
      BY <1>1, <2>6, <3>1, <3>2, <3>4 DEF Apart, Locked, Typed
    <3>6. AssetFollows'
      BY <1>1, <1>2, <2>1, <2>6, <3>2 DEF Apart, AssetFollows, Typed
    <3>7. QED BY <1>6, <2>1, <3>3, <3>4, <3>5, <3>6 DEF Apart
  <2>7. CASE stage[c] # "accepted"
    <3>1. stage' = stage /\ sendLock' = FALSE
      BY <1>7, <2>2, <2>7 DEF FundingGenerated
    <3>2. stage[c] = "closed" /\ ~Waits("DiscardFunding", c)
      BY <2>4, <2>7 DEF Apart, Queued
    <3>3. Queued'
      BY <1>1, <2>4, <2>7, <3>1 DEF Apart, Queued
    <3>4. \A d \in Channels : Owner(d)' => Owner(d)
      BY <1>1, <2>4, <3>1 DEF Owner
    <3>5. ~Owner(c)'
      <4>1. ~(api = "create" /\ opening = c)
        BY <3>2 DEF Apart, Locked
      <4>2. QED BY <1>1, <2>4, <3>1, <3>2, <4>1 DEF Owner
    <3>6. \A d \in Channels : ~Owner(d)'
      BY <1>4, <2>5, <3>4, <3>5
    <3>7. Locked'
      BY <1>1, <3>1, <3>6 DEF Apart, Locked
    <3>8. AssetFollows'
      BY <1>1, <1>2, <2>1, <3>1 DEF Apart, AssetFollows
    <3>9. QED BY <1>6, <3>3, <3>6, <3>7, <3>8 DEF Apart
  <2>8. QED BY <2>6, <2>7
<1>8. CASE Funded
  <2>1. cur \in Channels /\ AtHead("ChannelPending", cur) /\ ev = "unlock"
    BY <1>8 DEF Funded, Apart, Queued, Typed
  <2>2. PICK c \in Channels : c = cur
    BY <2>1
  <2>3. AtHead("ChannelPending", c)
    BY <2>1, <2>2
  <2>4. /\ Distinct(events') /\ Waits("ChannelPending", c)
        /\ \A j, d : Waits(j, d)' <=> Waits(j, d) /\ ~(j = "ChannelPending" /\ d = c)
    BY <1>1, <1>3, <2>3, Drops
  <2>5. /\ stage[c] = "signed"
        /\ ~Waits("DiscardFunding", c) /\ ~Waits("FundingGenerationReady", c)
    BY <2>4 DEF Apart, Queued
  <2>6. Owner(c)
    BY <2>5 DEF Owner
  <2>7. stage' = [stage EXCEPT ![c] = "funded"] /\ sendLock' = FALSE
    BY <1>8, <2>2 DEF Funded, SetStage
  <2>8. \A d \in Channels : stage'[d] = IF d = c THEN "funded" ELSE stage[d]
    BY <2>7 DEF Typed
  <2>9. Queued'
    BY <1>1, <2>4, <2>5, <2>8 DEF Apart, Queued
  <2>10. \A d \in Channels : Owner(d)' => Owner(d)
    BY <1>1, <2>4, <2>6, <2>8 DEF Owner
  <2>11. ~Owner(c)'
    <3>1. ~(api = "create" /\ opening = c)
      BY <2>5 DEF Apart, Locked
    <3>2. QED BY <1>1, <2>4, <2>5, <2>8, <3>1 DEF Owner
  <2>12. \A d \in Channels : ~Owner(d)'
    BY <1>4, <2>6, <2>10, <2>11
  <2>13. Locked'
    BY <1>1, <2>5, <2>7, <2>8, <2>12 DEF Apart, Locked, Typed
  <2>14. c \in posted => "transfer" \in failed \/ Has(c)
    BY <2>1, <2>2 DEF Apart, AssetFollows
  <2>15. AssetFollows'
    <3>1. \A d \in Channels : sent[d] > 0 => stage'[d] \in {"signed", "funded"}
      BY <2>8 DEF Apart, AssetFollows, Typed
    <3>2. "transfer" \notin failed =>
            \A d \in posted : stage'[d] = "funded" => Has(d)
      BY <2>8, <2>14 DEF Apart, AssetFollows, Typed
    <3>3. "transfer" \notin failed => \A d \in posted : sent[d] > 0 => Has(d)
      BY <2>1 DEF Apart, AssetFollows
    <3>4. QED BY <1>1, <1>2, <2>1, <3>1, <3>2, <3>3 DEF Apart, AssetFollows
  <2>16. QED BY <1>6, <2>9, <2>12, <2>13, <2>15 DEF Apart
<1>9. ASSUME NEW c \in Channels, ChannelClosed(c) PROVE Apart'
  <2>1. /\ AtHead("ChannelClosed", c) /\ ev = "idle" /\ UNCHANGED <<stage, sendLock>>
    BY <1>9 DEF ChannelClosed, Ready, AtHead
  <2>2. /\ Distinct(events') /\ Waits("ChannelClosed", c)
        /\ \A j, d : Waits(j, d)' <=> Waits(j, d) /\ ~(j = "ChannelClosed" /\ d = c)
    BY <1>1, <1>3, <2>1, Drops
  <2>3. Queued'
    BY <1>1, <2>1, <2>2 DEF Apart, Queued
  <2>4. \A d \in Channels : Owner(d)' <=> Owner(d)
    BY <1>1, <2>1, <2>2 DEF Owner
  <2>5. Locked'
    BY <1>1, <2>1, <2>4 DEF Apart, Locked
  <2>6. AssetFollows'
    BY <1>1, <1>2, <2>1 DEF Apart, AssetFollows
  <2>7. QED BY <1>6, <2>1, <2>3, <2>4, <2>5, <2>6 DEF Apart
<1>10. ASSUME NEW c \in Channels, DiscardFunding(c) PROVE Apart'
  <2>1. /\ AtHead("DiscardFunding", c) /\ ev = "idle"
        /\ stage' = stage /\ sendLock' = FALSE
    BY <1>10 DEF DiscardFunding, Ready, AtHead
  <2>2. /\ Distinct(events') /\ Waits("DiscardFunding", c)
        /\ \A j, d : Waits(j, d)' <=> Waits(j, d) /\ ~(j = "DiscardFunding" /\ d = c)
    BY <1>1, <1>3, <2>1, Drops
  <2>3. stage[c] = "closed" /\ ~Waits("FundingGenerationReady", c)
    BY <2>2 DEF Apart, Queued
  <2>4. Owner(c)
    BY <2>2 DEF Owner
  <2>5. Queued'
    BY <1>1, <2>1, <2>2 DEF Apart, Queued
  <2>6. \A d \in Channels : Owner(d)' => Owner(d)
    BY <1>1, <2>1, <2>2 DEF Owner
  <2>7. ~Owner(c)'
    <3>1. ~(api = "create" /\ opening = c)
      BY <2>3 DEF Apart, Locked
    <3>2. QED BY <1>1, <2>1, <2>2, <2>3, <3>1 DEF Owner
  <2>8. \A d \in Channels : ~Owner(d)'
    BY <1>4, <2>4, <2>6, <2>7
  <2>9. Locked'
    BY <1>1, <2>1, <2>8 DEF Apart, Locked
  <2>10. AssetFollows'
    BY <1>1, <1>2, <2>1 DEF Apart, AssetFollows
  <2>11. QED BY <1>6, <2>5, <2>8, <2>9, <2>10 DEF Apart
<1>11. QED BY <1>7, <1>8, <1>9, <1>10

\* A step that writes none of the variables the invariant is about.
LEMMA IdleApart ==
    ASSUME Typed, QueueTyped, Apart,
           UNCHANGED <<sendLock, apiVars, evVars, info, pending, stage, events, outVars, failed>>
    PROVE  Apart'
<1>1. UNCHANGED <<sendLock, api, opening, ev, cur, evColored, evTransfer, info, pending,
                  stage, sent, posted, transfers, failed>>
    BY DEF apiVars, evVars, outVars
<1>2. /\ Distinct(events') <=> Distinct(events)
      /\ \A j, d : Waits(j, d)' <=> Waits(j, d)
      /\ \A j, d : AtHead(j, d)' <=> AtHead(j, d)
    BY SameQueue
<1>3. \A d : (Owner(d)' <=> Owner(d)) /\ (Has(d)' <=> Has(d))
    BY <1>1, <1>2 DEF Owner, Has
<1>4. Queued'
    BY <1>1, <1>2 DEF Apart, Queued
<1>5. Locked' /\ FileIsOwners' /\ AssetFollows'
    BY <1>1, <1>3 DEF Apart, Locked, FileIsOwners, AssetFollows
<1>6. QED BY <1>4, <1>5 DEF Apart

\* The inductive invariant next to the types.
Uncrashed == crashes = 0 => Apart

LEMMA UncrashedStep == WellTyped /\ Uncrashed /\ [Next]_vars => Uncrashed'
<1> SUFFICES ASSUME WellTyped, Uncrashed, [Next]_vars, crashes' = 0
             PROVE  Apart'
    BY DEF Uncrashed
<1>1. crashes \in Nat
    BY FundingAssumption DEF WellTyped, Bounded, FundingAssumption
<1>2. ~Crash
    BY <1>1 DEF Crash
<1>3. CASE OpenChannel
  <2>1. crashes = 0
    BY <1>3 DEF OpenChannel, Open, OpenBegin, OpenBeginFails, OpenLock, OpenCreate,
                OpenCreateFails, OpenWriteInfo
  <2>2. QED BY <1>3, <2>1, OpenApart DEF Uncrashed, WellTyped
<1>4. ASSUME NEW c \in Channels, Peer(c) PROVE Apart'
  <2>1. crashes = 0
    BY <1>4 DEF Peer, PeerAccepts, PeerGone, PeerSigns
  <2>2. QED BY <1>4, <2>1, PeerApart DEF Uncrashed, WellTyped
<1>5. CASE \/ FundingGenerated \/ Funded
           \/ \E c \in Channels : ChannelClosed(c) \/ DiscardFunding(c)
  <2>1. crashes = 0
    BY <1>5 DEF FundingGenerated, Funded, ChannelClosed, DiscardFunding
  <2>2. QED BY <1>5, <2>1, EndApart DEF Uncrashed, WellTyped
<1>6. CASE \/ \E c \in Channels : GenerateFunding(c) \/ GenerateFundingPanics(c)
                                  \/ ChannelPending(c)
           \/ PostConsignment \/ PostConsignmentFails \/ SendEndRead
           \/ Broadcast \/ BroadcastKnown \/ BroadcastFails
           \/ Transfer \/ TransferFails \/ TrackLockedUtxo \/ TrackFails \/ SendEndRemove
  <2>1. /\ crashes = 0 /\ failed \subseteq failed'
        /\ UNCHANGED <<events, stage, sendLock, api, opening>>
    BY <1>6 DEF GenerateFunding, GenerateFundingPanics, ChannelPending, PostConsignment,
                PostConsignmentFails, SendEndRead, Broadcast, BroadcastKnown,
                BroadcastFails, Transfer, TransferFails, TrackLockedUtxo, TrackFails,
                SendEndRemove, Replay, Fails, ldkVars, apiVars
  <2>2. QED BY <1>6, <2>1, HandlingApart DEF Uncrashed, WellTyped
<1>7. CASE Persist \/ UNCHANGED vars
  <2>1. crashes = 0 /\ UNCHANGED <<sendLock, apiVars, evVars, info, pending, stage,
                                   events, outVars, failed>>
    BY <1>7 DEF Persist, vars, ldkVars
  <2>2. QED BY <2>1, IdleApart DEF Uncrashed, WellTyped
<1>8. QED
    BY <1>2, <1>3, <1>4, <1>5, <1>6, <1>7 DEF Next, HandleEvent, TakeEvent

LEMMA InvariantUncrashed == Spec => []Uncrashed
<1>1. Init => Uncrashed
  <2> SUFFICES ASSUME Init PROVE Apart
    BY DEF Uncrashed
  <2>1. events = <<>> /\ Members(events) = {} /\ DOMAIN transfers = {}
    BY EmptySeq DEF Init, Members
  <2>2. \A j, d : ~Waits(j, d)
    BY <2>1 DEF Waits
  <2>3. Queued
    BY <2>1, <2>2 DEF Init, Queued, Distinct
  <2>4. Locked
    BY <2>2 DEF Init, Locked, Owner
  <2>5. FileIsOwners
    BY <2>1, <2>2, FundingAssumption DEF Init, FileIsOwners, Owner, FundingAssumption
  <2>6. AssetFollows
    BY DEF Init, AssetFollows
  <2>7. QED BY <2>3, <2>4, <2>5, <2>6 DEF Apart
<1>2. WellTyped /\ Uncrashed /\ [Next]_vars => Uncrashed'
  BY UncrashedStep
<1>3. QED BY <1>1, <1>2, InvariantTyped, PTL DEF Spec

\* Until a crash, rgb_send_lock keeps two channels from being opened at once: no
\* failed opening, discarded funding or finished channel frees another one's lock.
THEOREM OneOpeningHolds == Spec => []OneOpening
<1>1. Uncrashed => OneOpening
  BY DEF Uncrashed, Apart, Locked, Owner, OneOpening, InProgress
<1>2. QED BY <1>1, InvariantUncrashed, PTL

\* Until a crash, F1r3node moves onto a funding output the asset and amount its
\* channel was opened with, although every opening writes the same pending file.
THEOREM TransferMatchesChannelHolds == Spec => []TransferMatchesChannel
<1>1. Uncrashed => TransferMatchesChannel
  BY DEF Uncrashed, Apart, FileIsOwners, TransferMatchesChannel
<1>2. QED BY <1>1, InvariantUncrashed, PTL

\* Until a crash, a channel the peer got the consignment of is funded with its asset,
\* unless F1r3node refused the transfer.
THEOREM FundedHasAssetHolds == Spec => []FundedHasAsset
<1>1. Uncrashed => FundedHasAsset
  BY DEF Uncrashed, Apart, AssetFollows, Has, FundedHasAsset
<1>2. QED BY <1>1, InvariantUncrashed, PTL

----------------------------------------------------------------------------
(* SerialOpening is implemented. *)

Turn == {c \in Channels : crashes = 0 /\ InProgress(c)}
Finished == {c \in Channels : crashes = 0 /\ stage[c] = "funded"}
Due == {c \in Channels : ev = "transfer" /\ cur = c}
Abstract == <<Turn, sent, Due, transfers, Finished, crashes > 0>>

\* The invariants of the steps that follow
Sound == WellTyped /\ IInv /\ Uncrashed

\* The event handler does not come to a transfer, nor leave one.
DueKept ==
    \/ UNCHANGED <<ev, cur>>
    \/ ev # "transfer" /\ ev' # "transfer"

\* A step that keeps whose turn it is, what was sent and the transfers is not seen.
LEMMA Unseen ==
    ASSUME UNCHANGED <<sent, transfers, crashes>>, DueKept,
           \A c \in Channels : /\ InProgress(c)' <=> InProgress(c)
                               /\ stage'[c] = "funded" <=> stage[c] = "funded"
    PROVE  UNCHANGED Abstract
BY DEF Abstract, Turn, Finished, Due, DueKept

\* After a crash there are no turns, so only what was sent and the transfers are seen.
LEMMA UnseenAfterCrash ==
    ASSUME Sound, crashes # 0, UNCHANGED <<sent, transfers, crashes>>, DueKept
    PROVE  UNCHANGED Abstract
BY DEF Abstract, Turn, Finished, Due, DueKept

\* rgb_send_lock keeps openings apart: a channel in progress is the only one.
LEMMA OnlyTurn ==
    ASSUME Sound, crashes = 0, NEW c \in Channels, InProgress(c)
    PROVE  Turn = {c}
BY DEF Sound, Uncrashed, Apart, Locked, Owner, InProgress, Turn

\* The channel whose ChannelPending is handled is in progress, and signed.
LEMMA HandledTurn ==
    ASSUME Sound, crashes = 0,
           ev \in {"read", "broadcast", "transfer", "track", "remove", "unlock"}
    PROVE  cur \in Channels /\ stage[cur] = "signed" /\ Turn = {cur}
<1>1. cur \in Channels
  BY DEF Sound, WellTyped, Typed
<1>2. Waits("ChannelPending", cur)
  BY HeadWaits DEF Sound, WellTyped, Uncrashed, Apart, Queued
<1>3. stage[cur] = "signed"
  BY <1>1, <1>2 DEF Sound, Uncrashed, Apart, Queued
<1>4. QED BY <1>1, <1>3, OnlyTurn DEF InProgress

\* /openchannel: the turn begins with the lock, and a refused create_channel ends it.
LEMMA OpenSimulates ==
    ASSUME FundingAssumption, Sound, crashes = 0, OpenChannel
    PROVE  Serial!Next \/ UNCHANGED Abstract
<1> USE DEF apiVars, evVars, ldkVars, outVars
<1>1. UNCHANGED <<sent, transfers, crashes, ev, cur>> /\ DueKept /\ Due' = Due
  BY DEF DueKept, Due, OpenChannel, Open, OpenBegin, OpenBeginFails, OpenLock, OpenCreate,
         OpenCreateFails, OpenWriteInfo, Fails
<1>2. Locked /\ AssetFollows /\ Typed
  BY DEF Sound, Uncrashed, Apart, WellTyped
<1>3. ASSUME NEW c \in Channels, Open(c) PROVE UNCHANGED Abstract
  BY <1>1, <1>3, Unseen DEF Open, InProgress
<1>4. CASE OpenBegin \/ OpenWriteInfo
  BY <1>1, <1>4, Unseen DEF OpenBegin, OpenWriteInfo, InProgress
<1>5. CASE OpenBeginFails
  BY <1>1, <1>2, <1>5, Unseen DEF OpenBeginFails, SetStage, Locked, Typed, InProgress
<1>6. CASE OpenCreate
  BY <1>1, <1>2, <1>6, Unseen DEF OpenCreate, SetStage, Locked, Typed, InProgress
<1>7. CASE OpenLock
  <2>1. opening \in Channels /\ Turn = {}
    BY <1>2, <1>7 DEF OpenLock, Typed, Locked, Owner, InProgress, Turn
  <2>2. \A c \in Channels : InProgress(c)' <=> c = opening
    BY <1>7, <2>1 DEF OpenLock, InProgress, Turn
  <2>3. Turn' = {opening} /\ Finished' = Finished
    BY <1>1, <1>7, <2>1, <2>2 DEF OpenLock, Turn, Finished
  <2>4. Serial!Begin(opening)
    BY <1>1, <2>1, <2>3 DEF Serial!Begin, Turn, Finished, Due
  <2>5. QED BY <2>1, <2>4 DEF Serial!Next
<1>8. CASE OpenCreateFails
  <2>1. opening \in Channels /\ InProgress(opening) /\ sent[opening] = 0
    BY <1>2, <1>8 DEF OpenCreateFails, Typed, Locked, AssetFollows, InProgress
  <2>2. Turn = {opening}
    BY <2>1, OnlyTurn
  <2>3. \A c \in Channels : ~InProgress(c)'
    BY <1>2, <1>8, <2>1, <2>2 DEF OpenCreateFails, SetStage, InProgress, Turn, Typed
  <2>4. Turn' = {} /\ Finished' = Finished
    BY <1>1, <1>2, <1>8, <2>1, <2>3
    DEF OpenCreateFails, SetStage, Turn, Finished, Typed, Locked
  <2>5. Serial!GiveUp(opening)
    BY <1>1, <2>1, <2>2, <2>4 DEF Serial!GiveUp, Turn, Finished, Due
  <2>6. QED BY <2>1, <2>5 DEF Serial!Next
<1>9. QED BY <1>3, <1>4, <1>5, <1>6, <1>7, <1>8 DEF OpenChannel

\* The peer: a channel that is given up before its funding is signed ends the turn.
LEMMA PeerSimulates ==
    ASSUME FundingAssumption, Sound, crashes = 0, NEW c \in Channels, Peer(c)
    PROVE  Serial!Next \/ UNCHANGED Abstract
<1> USE DEF apiVars, evVars, outVars, SetStage
<1>1. /\ UNCHANGED <<sent, transfers, crashes, api, opening, ev, cur>>
      /\ DueKept /\ Due' = Due
  BY DEF DueKept, Due, Peer, PeerAccepts, PeerGone, PeerSigns
<1>2. AssetFollows /\ Typed
  BY DEF Sound, Uncrashed, Apart, WellTyped
<1>3. CASE PeerAccepts(c) \/ PeerSigns(c)
  BY <1>1, <1>2, <1>3, Unseen DEF PeerAccepts, PeerSigns, Typed, InProgress
<1>4. CASE PeerGone(c)
  <2>1. InProgress(c) /\ sent[c] = 0 /\ Locked
    BY <1>2, <1>4 DEF PeerGone, AssetFollows, InProgress, Sound, Uncrashed, Apart, Typed
  <2>2. Turn = {c} /\ ~(opening = c /\ api = "create")
    BY <1>4, <2>1, OnlyTurn DEF PeerGone, Locked
  <2>3. Turn' = {} /\ Finished' = Finished
    BY <1>1, <1>2, <1>4, <2>2 DEF PeerGone, Typed, InProgress, Turn, Finished
  <2>4. Serial!GiveUp(c)
    BY <1>1, <2>1, <2>2, <2>3 DEF Serial!GiveUp, Turn, Finished, Due
  <2>5. QED BY <2>4 DEF Serial!Next
<1>5. QED BY <1>3, <1>4 DEF Peer

\* A broadcast that succeeds is in the turn of its channel, or after a crash.
LEMMA BroadcastSimulates ==
    ASSUME FundingAssumption, Sound, Broadcast
    PROVE  Serial!Next
<1>1. /\ UNCHANGED <<stage, api, opening, transfers, crashes, cur>> /\ cur \in Channels
      /\ sent' = [sent EXCEPT ![cur] = @ + 1]
      /\ ev = "broadcast" /\ ev' \in {"transfer", "unlock"}
  BY DEF Broadcast, ldkVars, apiVars, Sound, WellTyped, Typed
<1>2. Turn = {cur} \/ crashes > 0
  BY <1>1, HandledTurn, FundingAssumption
  DEF Sound, WellTyped, Bounded, FundingAssumption
<1>3. Turn' = Turn /\ Finished' = Finished
  BY <1>1 DEF Turn, Finished, InProgress
<1>4. Due = {} /\ (Due' = {} \/ Due' = {cur})
  BY <1>1 DEF Due
<1>5. PICK c \in Channels : c = cur
  BY <1>1
<1>6. Serial!Send(c)
  BY <1>1, <1>2, <1>3, <1>4, <1>5 DEF Serial!Send, Turn, Finished, Due
<1>7. QED BY <1>6 DEF Serial!Next

\* A transfer answers a broadcast, and moves the channel's own asset or comes after a
\* crash.
LEMMA TransferSimulates ==
    ASSUME FundingAssumption, Sound, Transfer
    PROVE  Serial!Next
<1>1. /\ UNCHANGED <<stage, api, opening, sent, crashes, cur>>
      /\ transfers' = Append(transfers, [to |-> cur, asset |-> evTransfer])
      /\ cur \in Channels /\ evTransfer \in Channels
      /\ ev = "transfer" /\ ev' = "track"
  BY DEF Transfer, ldkVars, apiVars, Sound, WellTyped, Typed
<1>2. (Turn = {cur} /\ evTransfer = cur) \/ crashes > 0
  BY <1>1, HandledTurn, FundingAssumption
  DEF Sound, WellTyped, Bounded, Uncrashed, Apart, FileIsOwners, FundingAssumption
<1>3. Due = {cur} /\ Due' = {}
  BY <1>1 DEF Due
<1>4. Turn' = Turn /\ Finished' = Finished
  BY <1>1 DEF Turn, Finished, InProgress
<1>5. PICK c \in Channels, a \in Channels : c = cur /\ a = evTransfer
  BY <1>1
<1>6. Serial!Move(c, a)
  BY <1>1, <1>2, <1>3, <1>4, <1>5 DEF Serial!Move, Turn, Finished, Due
<1>7. QED BY <1>6 DEF Serial!Next

\* A transfer that F1r3node refuses is not made up for.
LEMMA TransferFailsSimulates ==
    ASSUME Sound, TransferFails
    PROVE  Serial!Next
<1>1. /\ UNCHANGED <<stage, api, opening, sent, transfers, crashes>>
      /\ cur \in Channels /\ ev = "transfer" /\ ev' = "idle"
  BY DEF TransferFails, Replay, apiVars, outVars, Sound, WellTyped, Typed
<1>2. Due = {cur} /\ Due' = {}
  BY <1>1 DEF Due
<1>3. Turn' = Turn /\ Finished' = Finished
  BY <1>1 DEF Turn, Finished, InProgress
<1>4. PICK c \in Channels : c = cur
  BY <1>1
<1>5. Serial!Miss(c)
  BY <1>1, <1>2, <1>3, <1>4 DEF Serial!Miss, Turn, Finished, Due
<1>6. QED BY <1>5 DEF Serial!Next

\* A channel is reported funded in its turn, with its transaction sent.
LEMMA FundedSimulates ==
    ASSUME FundingAssumption, Sound, crashes = 0, Funded
    PROVE  Serial!Next
<1>1. /\ UNCHANGED <<api, opening, sent, transfers, crashes>>
      /\ stage' = [stage EXCEPT ![cur] = "funded"]
      /\ ev = "unlock" /\ ev' = "idle"
      /\ Typed /\ Locked
  BY DEF Funded, Handled, apiVars, outVars, SetStage, Sound, WellTyped, Uncrashed, Apart
<1>2. cur \in Channels /\ stage[cur] = "signed" /\ Turn = {cur}
  BY <1>1, HandledTurn
<1>3. sent[cur] > 0
  BY <1>1 DEF Sound, IInv, Ordered
<1>4. ~(opening = cur /\ api = "create")
  BY <1>1, <1>2 DEF Locked
<1>5. Turn' = {}
  BY <1>1, <1>2, <1>4 DEF Turn, InProgress, Typed
<1>6. Finished' = Finished \cup {cur}
  BY <1>1, <1>2 DEF Finished, Typed
<1>7. Due = {} /\ Due' = {}
  BY <1>1 DEF Due
<1>8. PICK c \in Channels : c = cur
  BY <1>2
<1>9. Serial!Finish(c)
  BY <1>1, <1>2, <1>3, <1>5, <1>6, <1>7, <1>8 DEF Serial!Finish, Turn, Finished, Due
<1>10. QED BY <1>9 DEF Serial!Next

\* A crash ends the turns.
LEMMA CrashSimulates ==
    ASSUME FundingAssumption, Sound, Crash
    PROVE  Serial!Next
<1>1. /\ crashes \in Nat /\ crashes' = crashes + 1 /\ ev' = "idle"
      /\ UNCHANGED <<sent, transfers>>
  BY DEF Crash, outVars, Sound, WellTyped, Bounded, FundingAssumption
<1>2. Turn' = {} /\ Finished' = {} /\ Due' = {}
  BY <1>1 DEF Turn, Finished, Due
<1>3. crashes' > 0
  BY <1>1
<1>4. Serial!Crash
  BY <1>1, <1>2, <1>3 DEF Serial!Crash, Turn, Finished, Due
<1>5. QED BY <1>4 DEF Serial!Next

\* Every step of an opening is one of SerialOpening, or is not seen by it.
LEMMA StepSimulates ==
    ASSUME FundingAssumption, Sound, [Next]_vars
    PROVE  Serial!Next \/ UNCHANGED Abstract
<1>1. CASE Broadcast \/ Transfer \/ TransferFails \/ Crash
  BY <1>1, BroadcastSimulates, TransferSimulates, TransferFailsSimulates, CrashSimulates
<1>2. CASE crashes # 0 /\ ~(Broadcast \/ Transfer \/ TransferFails \/ Crash)
  <2>1. UNCHANGED <<sent, transfers, crashes>> /\ DueKept
    BY <1>2 DEF DueKept, Handled, apiVars, evVars, ldkVars, Ready, Next, OpenChannel,
                Open, OpenBegin, OpenBeginFails, OpenLock, OpenCreate,
                OpenCreateFails, OpenWriteInfo, Peer, PeerAccepts, PeerGone, PeerSigns,
                HandleEvent, TakeEvent, GenerateFunding, GenerateFundingPanics,
                ChannelPending, ChannelClosed, DiscardFunding, PostConsignment,
                PostConsignmentFails, FundingGenerated, SendEndRead, BroadcastKnown,
                BroadcastFails, TrackLockedUtxo, TrackFails,
                SendEndRemove, Funded, Persist, vars, outVars, Replay
  <2>2. QED BY <1>2, <2>1, UnseenAfterCrash
<1>3. CASE crashes = 0 /\ OpenChannel
  BY <1>3, OpenSimulates
<1>4. CASE crashes = 0 /\ \E c \in Channels : Peer(c)
  BY <1>4, PeerSimulates
<1>5. CASE crashes = 0 /\ Funded
  BY <1>5, FundedSimulates
<1>6. CASE FundingGenerated
  <2>1. UNCHANGED <<sent, transfers, crashes, api, opening>> /\ Typed /\ DueKept
    BY <1>6 DEF FundingGenerated, Handled, DueKept, apiVars, outVars, Sound, WellTyped
  <2>2. \/ stage' = stage
        \/ stage[cur] = "accepted" /\ stage' = [stage EXCEPT ![cur] = "generated"]
    BY <1>6 DEF FundingGenerated, SetStage
  <2>3. QED BY <2>1, <2>2, Unseen DEF Typed, InProgress
<1>7. CASE \/ \E c \in Channels : TakeEvent(c)
           \/ PostConsignment \/ PostConsignmentFails \/ SendEndRead
           \/ BroadcastKnown \/ BroadcastFails \/ TrackLockedUtxo
           \/ TrackFails \/ SendEndRemove \/ Persist \/ UNCHANGED vars
  <2>1. UNCHANGED <<sent, transfers, crashes, api, opening, stage>> /\ DueKept
    BY <1>7 DEF DueKept, Handled, evVars, Ready, TakeEvent, GenerateFunding,
                GenerateFundingPanics, ChannelPending,
                ChannelClosed, DiscardFunding, PostConsignment, PostConsignmentFails,
                SendEndRead, BroadcastKnown, BroadcastFails,
                TrackLockedUtxo, TrackFails, SendEndRemove, Persist, vars, apiVars,
                ldkVars, outVars, Replay
  <2>2. QED BY <2>1, Unseen DEF InProgress
<1>8. QED
  BY <1>1, <1>2, <1>3, <1>4, <1>5, <1>6, <1>7 DEF Next, HandleEvent

\* The openings of any number of channels implement SerialOpening, whatever fails, is
\* replayed or crashes: in turn, a broadcast before each transfer, the right asset.
THEOREM KeepsTurnsHolds == Spec => KeepsTurns
<1>1. Init => Serial!Init
  BY FundingAssumption DEF Init, Serial!Init, InProgress, FundingAssumption
<1>2. Sound /\ [Next]_vars => [Serial!Next]_Serial!serialVars
  BY StepSimulates, FundingAssumption
  DEF Abstract, Turn, Finished, Due, Serial!serialVars
<1>3. Spec => []IInv
  BY InitIInv, StepIInv, PTL DEF Spec
<1>4. QED
  BY <1>1, <1>2, <1>3, InvariantTyped, InvariantUncrashed, PTL
  DEF Spec, Sound, KeepsTurns, Serial!Spec
=============================================================================
