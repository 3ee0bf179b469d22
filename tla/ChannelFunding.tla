--------------------------- MODULE ChannelFunding --------------------------
(***************************************************************************)
(* How a channel gets its funding transaction and, when it is coloured,    *)
(* its RGB asset: the /openchannel handler (routes.rs), the LDK events     *)
(* FundingGenerationReady, ChannelPending, ChannelClosed and               *)
(* DiscardFunding (ldk.rs), and send_begin / send_end of the wallet        *)
(* adapter.                                                                *)
(*                                                                         *)
(* Handlers of the API are serialised by the unlocked_app_state guard;     *)
(* events are handled one at a time by the background processor, next to   *)
(* them.  An event is removed from LDK's queue when its handler returns Ok *)
(* and is delivered again after ReplayEvent, or after a crash before the   *)
(* ChannelManager was persisted.  The asset and amount an initiator is     *)
(* about to lock live in ONE file for all channels, pending_rgb_transfer;  *)
(* rgb_send_lock, an in-memory boolean, is what keeps two openings apart.  *)
(***************************************************************************)
EXTENDS Naturals, Sequences, FiniteSets, EventQueue

CONSTANTS
    Channels,       \* channels this node opens, one request each
    Colored,        \* those that carry an asset
    Faults,         \* calls that may fail, of AllFaults
    MaxCrashes,     \* bound on crashes
    MaxFailures,     \* bound on calls that fail
    None

AllFaults == {"begin", "create", "post", "broadcast", "transfer", "save"}

ASSUME FundingAssumption ==
    /\ Colored \subseteq Channels
    /\ None \notin Channels
    /\ Faults \subseteq AllFaults
    /\ MaxCrashes \in Nat /\ MaxFailures \in Nat

VARIABLES
    \* memory
    sendLock,       \* rgb_send_lock
    api,            \* where the running /openchannel is
    opening,        \* the channel it opens
    ev,             \* where handle_ldk_events is
    cur,            \* the channel of the event it handles, Head(events)
    evColored,      \* its is_colored / is_chan_colored
    evTransfer,     \* what send_end read from the pending file
    \* disk
    info,           \* channels with an RGB channel info file
    pending,        \* pending_rgb_transfer.json: whose contract and amount
    ids,            \* channel_ids: temporary ids that became channel ids
    tracked,        \* locked_channel_utxos.json
    \* LDK (external)
    stage,          \* of each channel
    events,         \* pending events
    handled,        \* handled since the ChannelManager was last persisted
    \* the outside
    sent,           \* how often the funding transaction was broadcast with success
    posted,         \* consignments posted to the proxy
    transfers,      \* transfer calls accepted by F1r3node, in order
    \* bounds
    crashes,        \* so far
    failed          \* the calls that failed

apiVars == <<api, opening>>
evVars == <<ev, cur, evColored, evTransfer>>
ldkVars == <<stage, events, handled>>
outVars == <<sent, posted, transfers>>
vars == <<sendLock, apiVars, evVars, info, pending, ids, tracked, ldkVars,
          outVars, crashes, failed>>

Stages == {"none", "created", "accepted", "generated", "signed", "funded", "closed"}
Kinds == {"FundingGenerationReady", "ChannelPending", "ChannelClosed", "DiscardFunding"}
Events == [kind : Kinds, ch : Channels]
Transfers == [to : Channels, asset : Channels]

TypeOK ==
    /\ sendLock \in BOOLEAN
    /\ api \in {"idle", "begin", "lock", "create", "info"}
    /\ opening \in Channels \cup {None}
    /\ ev \in {"idle", "post", "generate", "read", "broadcast", "transfer", "track",
               "remove", "unlock", "dead"}
    /\ cur \in Channels \cup {None}
    /\ evColored \in BOOLEAN
    /\ evTransfer \in Channels \cup {None}
    /\ info \subseteq Channels
    /\ pending \in Channels \cup {None}
    /\ ids \subseteq Channels
    /\ tracked \subseteq Channels
    /\ stage \in [Channels -> Stages]
    /\ events \in Seq(Events)
    /\ handled \in Seq(Events)
    /\ sent \in [Channels -> Nat]
    /\ posted \subseteq Channels
    /\ transfers \in Seq(Transfers)
    /\ crashes \in 0 .. MaxCrashes
    /\ failed \subseteq Faults /\ Cardinality(failed) <= MaxFailures

Init ==
    /\ sendLock = FALSE
    /\ api = "idle" /\ opening = None
    /\ ev = "idle" /\ cur = None /\ evColored = FALSE /\ evTransfer = None
    /\ info = {} /\ pending = None /\ ids = {} /\ tracked = {}
    /\ stage = [c \in Channels |-> "none"]
    /\ events = <<>> /\ handled = <<>>
    /\ sent = [c \in Channels |-> 0] /\ posted = {} /\ transfers = <<>>
    /\ crashes = 0 /\ failed = {}

Event(k, c) == [kind |-> k, ch |-> c]
SetStage(c, s) == stage' = [stage EXCEPT ![c] = s]

\* A call that may fail does, for the first time
Fails(f) ==
    /\ f \in Faults \ failed
    /\ Cardinality(failed) < MaxFailures
    /\ failed' = failed \cup {f}

----------------------------------------------------------------------------
(* POST /openchannel *)

\* Mutation: rgb_send_lock is not looked at
OpenUnchecked(c) ==
    /\ api = "idle"
    /\ stage[c] = "none"
    /\ c \notin ids
    /\ opening' = c
    /\ api' = IF c \in Colored THEN "begin" ELSE "lock"
    /\ UNCHANGED <<sendLock, evVars, info, pending, ids, tracked, ldkVars, outVars,
                   crashes, failed>>

\* The checks: no opening in progress, a fresh temporary channel id
Open(c) ==
    /\ api = "idle"
    /\ stage[c] = "none"
    /\ ~sendLock
    /\ c \notin ids
    /\ opening' = c
    /\ api' = IF c \in Colored THEN "begin" ELSE "lock"
    /\ UNCHANGED <<sendLock, evVars, info, pending, ids, tracked, ldkVars, outVars,
                   crashes, failed>>

\* rgb_send_begin to a fake script: a feasibility check whose psbt is thrown
\* away, but whose contract and amount reach the pending file
OpenBegin ==
    /\ api = "begin"
    /\ pending' = opening
    /\ api' = "lock"
    /\ UNCHANGED <<sendLock, opening, evVars, info, ids, tracked, ldkVars, outVars,
                   crashes, failed>>

OpenBeginFails ==
    /\ api = "begin"
    /\ Fails("begin")
    /\ SetStage(opening, "closed")
    /\ api' = "idle" /\ opening' = None
    /\ UNCHANGED <<sendLock, evVars, info, pending, ids, tracked, events, handled,
                   outVars, crashes>>

\* Mutation: the lock is never taken
OpenWithoutLock ==
    /\ api = "lock"
    /\ api' = "create"
    /\ UNCHANGED <<sendLock, opening, evVars, info, pending, ids, tracked, ldkVars,
                   outVars, crashes, failed>>

OpenLock ==
    /\ api = "lock"
    /\ sendLock' = TRUE
    /\ api' = "create"
    /\ UNCHANGED <<opening, evVars, info, pending, ids, tracked, ldkVars, outVars,
                   crashes, failed>>

\* Mutation: the handler forgets its channel before it has written the info files
OpenCreateForgetting ==
    /\ api = "create"
    /\ SetStage(opening, "created")
    /\ api' = IF opening \in Colored THEN "info" ELSE "idle"
    /\ opening' = None
    /\ UNCHANGED <<sendLock, evVars, info, pending, ids, tracked, events, handled,
                   outVars, crashes, failed>>

\* create_channel only queues a message: the peer may answer before the handler
\* has written the channel info files
OpenCreate ==
    /\ api = "create"
    /\ SetStage(opening, "created")
    /\ api' = IF opening \in Colored THEN "info" ELSE "idle"
    /\ opening' = IF opening \in Colored THEN opening ELSE None
    /\ UNCHANGED <<sendLock, evVars, info, pending, ids, tracked, events, handled,
                   outVars, crashes, failed>>

OpenCreateFails ==
    /\ api = "create"
    /\ Fails("create")
    /\ sendLock' = FALSE
    /\ SetStage(opening, "closed")
    /\ api' = "idle" /\ opening' = None
    /\ UNCHANGED <<evVars, info, pending, ids, tracked, events, handled, outVars,
                   crashes>>

OpenWriteInfo ==
    /\ api = "info"
    /\ info' = info \cup {opening}
    /\ api' = "idle" /\ opening' = None
    /\ UNCHANGED <<sendLock, evVars, pending, ids, tracked, ldkVars, outVars, crashes,
                   failed>>

----------------------------------------------------------------------------
(* What the peer makes LDK do (external). *)

PeerAccepts(c) ==
    /\ stage[c] = "created"
    /\ SetStage(c, "accepted")
    /\ events' = Append(events, Event("FundingGenerationReady", c))
    /\ UNCHANGED <<sendLock, apiVars, evVars, info, pending, ids, tracked, handled,
                   outVars, crashes, failed>>

\* An error message or a disconnection before funding_signed
PeerGone(c) ==
    /\ stage[c] \in {"created", "accepted", "generated"}
    /\ SetStage(c, "closed")
    /\ events' = events \o
         (IF stage[c] = "generated"
          THEN <<Event("ChannelClosed", c), Event("DiscardFunding", c)>>
          ELSE <<Event("ChannelClosed", c)>>)
    /\ UNCHANGED <<sendLock, apiVars, evVars, info, pending, ids, tracked, handled,
                   outVars, crashes, failed>>

PeerSigns(c) ==
    /\ stage[c] = "generated"
    /\ SetStage(c, "signed")
    /\ events' = Append(events, Event("ChannelPending", c))
    /\ UNCHANGED <<sendLock, apiVars, evVars, info, pending, ids, tracked, handled,
                   outVars, crashes, failed>>

----------------------------------------------------------------------------
(* The event handler. *)

\* The background processor takes the first event, of kind k for channel c
Ready(k, c) == ev = "idle" /\ events # <<>> /\ Head(events) = Event(k, c)

\* The handler returns Ok: LDK drops the event
Handled ==
    /\ ev' = "idle" /\ cur' = None
    /\ events' = Tail(events)
    /\ handled' = IF MaxCrashes = crashes THEN <<>> ELSE Append(handled, Head(events))

\* The handler returns ReplayEvent: the event stays where it is
Replay == ev' = "idle" /\ cur' = None /\ UNCHANGED <<events, handled>>

\* FundingGenerationReady: is_colored, then send_begin overwrites the pending
\* file, sign_psbt, and the psbt file of the transaction is written
GenerateFunding(c) ==
    /\ Ready("FundingGenerationReady", c)
    /\ cur' = c
    /\ evColored' = (c \in info)
    /\ pending' = IF c \in info THEN c ELSE pending
    /\ ev' = IF c \in info THEN "post" ELSE "generate"
    /\ UNCHANGED <<sendLock, apiVars, evTransfer, info, ids, tracked, ldkVars, outVars,
                   crashes, failed>>

\* send_begin, send_btc_begin and sign_psbt are unwrapped: the background
\* processor dies with them
GenerateFundingPanics(c) ==
    /\ Ready("FundingGenerationReady", c)
    /\ Fails("begin")
    /\ ev' = "dead"
    /\ UNCHANGED <<sendLock, apiVars, cur, evColored, evTransfer, info, pending, ids,
                   tracked, ldkVars, outVars, crashes>>

PostConsignment ==
    /\ ev = "post"
    /\ posted' = posted \cup {cur}
    /\ ev' = "generate"
    /\ UNCHANGED <<sendLock, apiVars, cur, evColored, evTransfer, info, pending, ids,
                   tracked, ldkVars, sent, transfers, crashes, failed>>

PostConsignmentFails ==
    /\ ev = "post"
    /\ Fails("post")
    /\ Replay
    /\ UNCHANGED <<sendLock, apiVars, evColored, evTransfer, info, pending, ids,
                   tracked, stage, outVars, crashes>>

\* funding_transaction_generated; an error when the channel is gone by now
FundingGenerated ==
    /\ ev = "generate"
    /\ IF stage[cur] = "accepted"
       THEN SetStage(cur, "generated") /\ UNCHANGED sendLock
       ELSE sendLock' = FALSE /\ UNCHANGED stage
    /\ Handled
    /\ UNCHANGED <<apiVars, evColored, evTransfer, info, pending, ids, tracked,
                   outVars, crashes, failed>>

\* ChannelPending at the node that opened the channel, as its psbt file tells
ChannelPending(c) ==
    /\ Ready("ChannelPending", c)
    /\ ids' = ids \cup {c}
    /\ cur' = c
    /\ evColored' = (c \in info)
    /\ ev' = IF c \in info THEN "read" ELSE "broadcast"
    /\ UNCHANGED <<sendLock, apiVars, evTransfer, info, pending, tracked, ldkVars,
                   outVars, crashes, failed>>

\* send_end: the pending file tells what is transferred
SendEndRead ==
    /\ ev = "read"
    /\ IF pending = None
       THEN Replay /\ UNCHANGED evTransfer
       ELSE /\ evTransfer' = pending
            /\ ev' = "broadcast"
            /\ UNCHANGED <<cur, events, handled>>
    /\ UNCHANGED <<sendLock, apiVars, evColored, info, pending, ids, tracked, stage,
                   outVars, crashes, failed>>

\* The indexer accepts the transaction, perhaps one it has already: send_end goes on
\* with the transfer whenever the call returns Ok
Broadcast ==
    /\ ev = "broadcast"
    /\ sent' = [sent EXCEPT ![cur] = @ + 1]
    /\ ev' = IF evColored THEN "transfer" ELSE "unlock"
    /\ UNCHANGED <<sendLock, apiVars, cur, evColored, evTransfer, info, pending, ids,
                   tracked, ldkVars, posted, transfers, crashes, failed>>

\* Mutation: a transaction that is already known is taken for a new one
BroadcastForgetful ==
    /\ ev = "broadcast"
    /\ sent[cur] > 0
    /\ ev' = IF evColored THEN "transfer" ELSE "unlock"
    /\ UNCHANGED <<sendLock, apiVars, cur, evColored, evTransfer, info, pending, ids,
                   tracked, ldkVars, outVars, crashes, failed>>

\* "already in utxo set", "txn-already-in-mempool": send_end goes on without the
\* transfer, send_btc_end fails
BroadcastKnown ==
    /\ ev = "broadcast"
    /\ sent[cur] > 0
    /\ IF evColored THEN ev' = "remove" /\ UNCHANGED <<cur, events, handled>> ELSE Replay
    /\ UNCHANGED <<sendLock, apiVars, evColored, evTransfer, info, pending, ids,
                   tracked, stage, outVars, crashes, failed>>

\* Mutation: every failed broadcast is taken for a transaction already known
BroadcastFailsAsKnown ==
    /\ ev = "broadcast"
    /\ Fails("broadcast")
    /\ IF evColored THEN ev' = "remove" /\ UNCHANGED <<cur, events, handled>> ELSE Replay
    /\ UNCHANGED <<sendLock, apiVars, evColored, evTransfer, info, pending, ids,
                   tracked, stage, outVars, crashes>>

BroadcastFails ==
    /\ ev = "broadcast"
    /\ Fails("broadcast")
    /\ Replay
    /\ UNCHANGED <<sendLock, apiVars, evColored, evTransfer, info, pending, ids,
                   tracked, stage, outVars, crashes>>

\* contract.call_method("transfer") from the genesis UTXO to the funding output
Transfer ==
    /\ ev = "transfer"
    /\ transfers' = Append(transfers, [to |-> cur, asset |-> evTransfer])
    /\ ev' = "track"
    /\ UNCHANGED <<sendLock, apiVars, cur, evColored, evTransfer, info, pending, ids,
                   tracked, ldkVars, sent, posted, crashes, failed>>

TransferFails ==
    /\ ev = "transfer"
    /\ Fails("transfer")
    /\ Replay
    /\ UNCHANGED <<sendLock, apiVars, evColored, evTransfer, info, pending, ids,
                   tracked, stage, outVars, crashes>>

\* save_state, then track_locked_utxo; an error of either is replayed
TrackLockedUtxo ==
    /\ ev = "track"
    /\ tracked' = tracked \cup {cur}
    /\ ev' = "remove"
    /\ UNCHANGED <<sendLock, apiVars, cur, evColored, evTransfer, info, pending, ids,
                   ldkVars, outVars, crashes, failed>>

TrackFails ==
    /\ ev = "track"
    /\ Fails("save")
    /\ Replay
    /\ UNCHANGED <<sendLock, apiVars, evColored, evTransfer, info, pending, ids,
                   tracked, stage, outVars, crashes>>

SendEndRemove ==
    /\ ev = "remove"
    /\ pending' = None
    /\ ev' = "unlock"
    /\ UNCHANGED <<sendLock, apiVars, cur, evColored, evTransfer, info, ids, tracked,
                   ldkVars, outVars, crashes, failed>>

\* Mutation: the lock is kept once the channel is funded
FundedKeepingLock ==
    /\ ev = "unlock"
    /\ SetStage(cur, "funded")
    /\ Handled
    /\ UNCHANGED <<sendLock, apiVars, evColored, evTransfer, info, pending, ids,
                   tracked, outVars, crashes, failed>>

Funded ==
    /\ ev = "unlock"
    /\ sendLock' = FALSE
    /\ SetStage(cur, "funded")
    /\ Handled
    /\ UNCHANGED <<apiVars, evColored, evTransfer, info, pending, ids, tracked,
                   outVars, crashes, failed>>

\* ChannelClosed does not touch the lock, DiscardFunding clears it
ChannelClosed(c) ==
    /\ Ready("ChannelClosed", c)
    /\ ids' = ids \ {c}
    /\ Handled
    /\ UNCHANGED <<sendLock, apiVars, evColored, evTransfer, info, pending, tracked,
                   stage, outVars, crashes, failed>>

DiscardFunding(c) ==
    /\ Ready("DiscardFunding", c)
    /\ sendLock' = FALSE
    /\ ids' = ids \ {c}
    /\ Handled
    /\ UNCHANGED <<apiVars, evColored, evTransfer, info, pending, tracked, stage,
                   outVars, crashes, failed>>

----------------------------------------------------------------------------
(* The ChannelManager is persisted now and then, and the process may crash. *)

Persist ==
    /\ handled # <<>>
    /\ handled' = <<>>
    /\ UNCHANGED <<sendLock, apiVars, evVars, info, pending, ids, tracked, stage,
                   events, outVars, crashes, failed>>

\* LDK drops channels without a signed funding transaction, never persists
\* FundingGenerationReady, and delivers again what was handled after the last
\* persist; UnlockedAppState starts with rgb_send_lock = false
Crash ==
    /\ crashes < MaxCrashes
    /\ crashes' = crashes + 1
    /\ LET past == handled \o events
           kept == Pick(past, {i \in DOMAIN past : past[i].kind # "FundingGenerationReady"})
           redone == {e.ch : e \in {d \in Members(kept) : d.kind = "ChannelPending"}}
       IN /\ events' = kept
          /\ stage' = [c \in Channels |->
                         IF c \in redone THEN "signed"
                         ELSE IF stage[c] \in {"created", "accepted", "generated"}
                              \/ opening = c
                         THEN "closed" ELSE stage[c]]
    /\ handled' = <<>>
    /\ sendLock' = FALSE
    /\ api' = "idle" /\ opening' = None
    /\ ev' = "idle" /\ cur' = None /\ evColored' = FALSE /\ evTransfer' = None
    /\ UNCHANGED <<info, pending, ids, tracked, outVars, failed>>

----------------------------------------------------------------------------
OpenChannel ==
    \/ \E c \in Channels : Open(c)
    \/ OpenBegin \/ OpenBeginFails \/ OpenLock \/ OpenCreate \/ OpenCreateFails
    \/ OpenWriteInfo

Peer(c) == PeerAccepts(c) \/ PeerGone(c) \/ PeerSigns(c)

TakeEvent(c) ==
    \/ GenerateFunding(c) \/ GenerateFundingPanics(c) \/ ChannelPending(c)
    \/ ChannelClosed(c) \/ DiscardFunding(c)

HandleEvent ==
    \/ \E c \in Channels : TakeEvent(c)
    \/ PostConsignment \/ PostConsignmentFails \/ FundingGenerated
    \/ SendEndRead \/ Broadcast \/ BroadcastKnown \/ BroadcastFails
    \/ Transfer \/ TransferFails \/ TrackLockedUtxo \/ TrackFails \/ SendEndRemove
    \/ Funded

Next ==
    \/ OpenChannel
    \/ \E c \in Channels : Peer(c)
    \/ HandleEvent
    \/ Persist \/ Crash

\* The background processor keeps handling events; failed are bounded, so it
\* meets a call that works.  Nothing else is fair: not the user, not the peer.
Spec == Init /\ [][Next]_vars /\ WF_vars(HandleEvent)

----------------------------------------------------------------------------
(* Properties *)

\* The transfers onto the funding output of c
Onto(c) == {i \in DOMAIN transfers : transfers[i].to = c}

InProgress(c) ==
    \/ opening = c /\ api = "create"
    \/ stage[c] \in {"created", "accepted", "generated", "signed"}

\* Until a crash, at most one channel is between create_channel and the end of
\* its send_end: rgb_send_lock is what the shared pending file relies on, and no
\* DiscardFunding or failed funding of one channel frees the lock of another.
OneOpening ==
    crashes = 0 =>
        \A c, d \in Channels : InProgress(c) /\ InProgress(d) => c = d

\* Until a crash, what F1r3node is asked to move onto a funding output is the
\* contract and amount that channel was opened with, although every opening
\* writes them to the same file and events are replayed.
TransferMatchesChannel ==
    crashes = 0 => \A i \in DOMAIN transfers : transfers[i].asset = transfers[i].to

\* However often ChannelPending is delivered, whatever fails and wherever the process
\* crashes, no more transfers are made onto a funding output than broadcasts of its
\* transaction were accepted: one, if the indexer refuses what it has already.
OneTransferPerBroadcast ==
    \A c \in Channels : Cardinality(Onto(c)) <= sent[c]

\* If F1r3node accepts every transfer and nothing crashes, a coloured channel
\* whose consignment the peer was given, and that was reported funded, has its
\* asset, however often its events were replayed.  (Without the consignment it
\* may not: the peer may answer before OpenWriteInfo.)
FundedHasAsset ==
    crashes = 0 /\ "transfer" \notin failed =>
        \A c \in posted : stage[c] = "funded" =>
            \E i \in DOMAIN transfers : transfers[i].to = c

\* Once a funding transaction is signed a moment comes when no channel waits for its
\* transaction any more, those that it was sent for are funded, and the lock is free
\* for the next opening, unless the handler died or the process did.
SignedGetsFunded ==
    (\E c \in Channels : stage[c] = "signed") ~>
        \/ /\ ~sendLock
           /\ \A c \in Channels : /\ stage[c] # "signed"
                                 /\ sent[c] > 0 => stage[c] = "funded"
        \/ ev = "dead" \/ crashes > 0

\* The openings as SerialOpening sees them
Serial == INSTANCE SerialOpening
    WITH serving <- {c \in Channels : crashes = 0 /\ InProgress(c)},
         funded <- {c \in Channels : crashes = 0 /\ stage[c] = "funded"},
         due <- {c \in Channels : ev = "transfer" /\ cur = c},
         moved <- transfers,
         disturbed <- crashes > 0

\* Channels are served in turn: no two openings overlap, a funding transaction goes
\* out and an asset moves only in the turn of its channel, each move answers one
\* broadcast that was accepted and no channel is reported funded without the
\* transaction or given up with it.  Replayed events, failing calls, peers that leave
\* and the file all openings share do not change that; after a crash only the order
\* and the one move for each broadcast remain.
KeepsTurns == Serial!Spec

(* Statements of the repository that the code does not keep. *)

\* send_end: when the broadcast fails with "already in utxo set", "the transfer
\* was already done - skip it"
SkippedWasTransferred ==
    crashes = 0 /\ ev = "remove" => \E i \in DOMAIN transfers : transfers[i].to = cur

\* error.rs: "Cannot perform this operation while an open channel operation is in
\* progress" is only answered while one is.
LockMeansOpening ==
    crashes = 0 /\ sendLock =>
        \/ \E c \in Channels : InProgress(c)
        \/ events # <<>>
=============================================================================
