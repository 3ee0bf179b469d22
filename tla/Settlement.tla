----------------------------- MODULE Settlement -----------------------------
(***************************************************************************)
(* The close of channels that carry an asset, and the wallet whose outputs *)
(* the asset returns to.  At the close the assets of the channel go on     *)
(* F1r3node from its funding witness id to one witness id for the opener   *)
(* and one for the acceptor.  When LDK says ChannelClosed each node claims *)
(* its share to a small bitcoin output of its own, records the claim and   *)
(* releases the lock of the channel.                                       *)
(*                                                                         *)
(* The state is one node's: the opener of some channels and the acceptor   *)
(* of others, all carrying the same asset.  Three things touch its wallet: *)
(* API handlers, the event handler and LDK's calls, each step under the    *)
(* wallet_manager mutex.  F1r3node, the proxy and LDK are external.        *)
(***************************************************************************)
EXTENDS Naturals, FiniteSets

CONSTANTS
    Channels,
    Opened,         \* those this node opened
    Peers,
    Peer,           \* the other side of a channel
    Outputs,        \* small outputs the wallet may come to have
    MaxCrashes,     \* bound on crashes
    Us,             \* this node's own key
    None

ASSUME SettlementAssumption ==
    /\ Opened \subseteq Channels
    /\ Peer \in [Channels -> Peers]
    /\ None \notin Channels \cup Peers \cup Outputs
    /\ Us \notin Peers \cup {None}
    /\ {"none", "channel", "witness", "nothing"} \cap Outputs = {}
    /\ MaxCrashes \in Nat

VARIABLES
    place,          \* F1r3node: where the share of this node is, an output once claimed
    registered,     \* F1r3node: whose key the share of the other side is under
    proxy,          \* the proxy: the key last posted as the acceptor's
    cached,         \* channel_counterparties[asset] of f1r3fly_state.json
    locked,         \* locked_channel_utxos.json
    info,           \* channels with an RGB channel info file
    records,        \* claim storage: the output a channel was claimed to
    unspent,        \* outputs of the wallet
    spent,
    stage,          \* of a channel: open, closing, and its ChannelClosed
    handling,       \* the channel whose ChannelClosed is handled
    step,           \* where in handle_rgb_channel_close that is
    picked,         \* the output get_claim_utxo returned
    errors,         \* channels with "Failed to handle RGB channel close" in the log
    ignored,        \* channels whose lock or info file could not go, of which no log tells
    crashes         \* so far

nodeVars == <<place, registered, proxy, cached>>
fileVars == <<locked, info, records>>
walletVars == <<unspent, spent>>
handlerVars == <<handling, step, picked>>
logVars == <<errors, ignored>>
vars == <<nodeVars, fileVars, walletVars, stage, handlerVars, logVars, crashes>>

Keys == Peers \cup {Us}
Stages == {"no", "open", "closing", "queued", "handled", "persisted"}

\* The steps of handle_rgb_channel_close that may return an error
Fallible == {"pick", "create", "list", "claim", "record", "save"}

TypeOK ==
    /\ place \in [Channels -> {"none", "channel", "witness", "nothing"} \cup Outputs]
    /\ registered \in [Channels -> Keys \cup {None}]
    /\ proxy \in Keys \cup {None} /\ cached \in Keys \cup {None}
    /\ locked \subseteq Opened /\ info \subseteq Channels
    /\ records \in [Channels -> Outputs \cup {None}]
    /\ unspent \subseteq Outputs /\ spent \subseteq Outputs /\ unspent \cap spent = {}
    /\ stage \in [Channels -> Stages]
    /\ handling \in Channels \cup {None}
    /\ step \in {"idle", "release", "clean"} \cup Fallible
    /\ handling = None <=> step = "idle"
    /\ picked \in Outputs \cup {None}
    /\ errors \subseteq Channels /\ ignored \subseteq Channels
    /\ crashes \in Nat

Init ==
    /\ place = [c \in Channels |-> "none"]
    /\ registered = [c \in Channels |-> None]
    /\ proxy = None /\ cached = None
    /\ locked = {} /\ info = {} /\ records = [c \in Channels |-> None]
    /\ unspent = {} /\ spent = {}
    /\ stage = [c \in Channels |-> "no"]
    /\ handling = None /\ step = "idle" /\ picked = None
    /\ errors = {} /\ ignored = {} /\ crashes = 0

\* The mutex of the wallet is held from the claim until its record is saved
WalletFree == step \notin {"record", "save"}

\* locked_channel_utxos.json is written in place: a crash or an error on the way leaves
\* it as it was or, once truncated, with nothing that is read back
HalfWritten == {locked, {}}

----------------------------------------------------------------------------
(* Outputs *)

\* get_occupied_utxos
Occupied == {records[c] : c \in Channels}

\* What list_unspents shows without rgb_allocations: what the coin selection of
\* create_utxos may take and what is small enough to claim to
Available == unspent \ Occupied

\* One transaction that makes new outputs and may take some of the others as inputs
MakeOutputs(new, inputs) ==
    /\ new \subseteq Outputs \ (unspent \cup spent) /\ inputs \subseteq Available
    /\ unspent' = (unspent \ inputs) \cup new
    /\ spent' = spent \cup inputs

\* create_utxos of /createutxos
CreateUtxos(new, inputs) ==
    /\ WalletFree
    /\ new # {} /\ MakeOutputs(new, inputs)
    /\ UNCHANGED <<nodeVars, fileVars, stage, handlerVars, logVars, crashes>>

\* send_btc hands nothing to exclude to the coin selection of the wallet, and what a
\* PSBT of send_btc_begin took may hold an asset by the time it is broadcast
SpendOutputs(inputs) ==
    /\ WalletFree
    /\ inputs # {} /\ inputs \subseteq unspent
    /\ unspent' = unspent \ inputs
    /\ spent' = spent \cup inputs
    /\ UNCHANGED <<nodeVars, fileVars, stage, handlerVars, logVars, crashes>>

----------------------------------------------------------------------------
(* Channels *)

AcceptorKey(c) == IF c \in Opened THEN Peer[c] ELSE Us

\* The funding is done (see ChannelFunding): the acceptor posts its key to the proxy
\* under the id of the asset, which may keep what it had, and only the opener
\* tracks the lock.  When that fails or crashes the event is replayed and the lock is
\* not tracked again.
Open(c) ==
    /\ stage[c] = "no"
    /\ stage' = [stage EXCEPT ![c] = "open"]
    /\ place' = [place EXCEPT ![c] = "channel"]
    /\ proxy' \in {AcceptorKey(c)} \cup ({proxy} \ {None})
    /\ info' = info \cup {c}
    /\ locked' \in IF c \in Opened THEN {locked \cup {c}} \cup HalfWritten ELSE {locked}
    /\ UNCHANGED <<registered, cached, records, walletVars, handlerVars, logVars,
                   crashes>>

\* /closechannel refuses a channel that is already shutting down; the other side
\* may close it, too
CloseChannel(c) ==
    /\ stage[c] = "open"
    /\ stage' = [stage EXCEPT ![c] = "closing"]
    /\ UNCHANGED <<nodeVars, fileVars, walletVars, handlerVars, logVars, crashes>>

\* The key of the other side: the one cached under the asset, which a save_state of an
\* issuance, a transfer or a claim may have dropped since, else the one on the proxy
CounterpartyKeys == {cached, proxy} \ {None}

\* settle_channel_close, by the opener; the share of this node may be empty
Settle(c, share) ==
    /\ stage[c] = "closing" /\ place[c] = "channel"
    /\ WalletFree
    /\ place' = [place EXCEPT ![c] = share]
    /\ IF c \in Opened
       THEN \E k \in CounterpartyKeys :
               registered' = [registered EXCEPT ![c] = k] /\ cached' = k
       ELSE UNCHANGED <<registered, cached>>
    /\ UNCHANGED <<proxy, fileVars, walletVars, stage, handlerVars, logVars, crashes>>

\* F1r3node refuses the settlement; the key that was fetched stays cached
SettleFails(c) ==
    /\ stage[c] = "closing" /\ place[c] = "channel" /\ c \in Opened
    /\ WalletFree
    /\ cached' \in CounterpartyKeys
    /\ UNCHANGED <<place, registered, proxy, fileVars, walletVars, stage, handlerVars,
                   logVars, crashes>>

\* LDK queues ChannelClosed, for a forced close perhaps without a settlement
Closed(c) ==
    /\ stage[c] = "closing"
    /\ stage' = [stage EXCEPT ![c] = "queued"]
    /\ UNCHANGED <<nodeVars, fileVars, walletVars, handlerVars, logVars, crashes>>

----------------------------------------------------------------------------
(* ChannelClosed.  Whatever handle_rgb_channel_close returns, the event is handled. *)

\* Mutation: the step is not reset
EventHandledBusy(c) ==
    /\ stage' = [stage EXCEPT ![c] = "handled"]
    /\ handling' = None /\ picked' = None
    /\ UNCHANGED step

EventHandled(c) ==
    /\ stage' = [stage EXCEPT ![c] = "handled"]
    /\ handling' = None /\ step' = "idle" /\ picked' = None

\* Mutation: only the opener claims
CloseSkippedAccepted(c) ==
    /\ handling = None /\ stage[c] = "queued"
    /\ c \notin info \/ place[c] \in {"channel", "nothing"} \/ c \notin Opened
    /\ EventHandled(c)
    /\ UNCHANGED <<nodeVars, fileVars, walletVars, logVars, crashes>>

\* No info file, or nothing to claim (the share may be empty in a channel that was
\* not settled, too): nothing else is done
CloseSkipped(c) ==
    /\ handling = None /\ stage[c] = "queued"
    /\ c \notin info \/ place[c] \in {"channel", "nothing"}
    /\ EventHandled(c)
    /\ UNCHANGED <<nodeVars, fileVars, walletVars, logVars, crashes>>

CloseBegins(c) ==
    /\ handling = None /\ stage[c] = "queued"
    /\ c \in info /\ place[c] # "nothing"
    /\ handling' = c /\ step' = "pick"
    /\ UNCHANGED <<nodeVars, fileVars, walletVars, stage, picked, logVars, crashes>>

\* get_claim_utxo
GetClaimUtxo(u) ==
    /\ step = "pick" /\ WalletFree
    /\ u \in Available
    /\ picked' = u /\ step' = "claim"
    /\ UNCHANGED <<nodeVars, fileVars, walletVars, stage, handling, logVars, crashes>>

\* Its fallback, when none is listed: create_utxos, and then the last one of all that
\* are listed, whatever came and went in between
NothingListed ==
    /\ step = "pick" /\ WalletFree
    /\ Available = {}
    /\ step' = "create"
    /\ UNCHANGED <<nodeVars, fileVars, walletVars, stage, handling, picked, logVars,
                   crashes>>

CreateClaimUtxo(new, inputs) ==
    /\ step = "create" /\ WalletFree
    /\ MakeOutputs({new}, inputs)
    /\ step' = "list"
    /\ UNCHANGED <<nodeVars, fileVars, stage, handling, picked, logVars, crashes>>

LastUnspent(u) ==
    /\ step = "list" /\ WalletFree
    /\ u \in unspent
    /\ picked' = u /\ step' = "claim"
    /\ UNCHANGED <<nodeVars, fileVars, walletVars, stage, handling, logVars, crashes>>

\* Mutation: the claim is recorded before it is made
ClaimRecordedFirst ==
    /\ step = "claim" /\ WalletFree
    /\ place[handling] = "witness"
    /\ records' = [records EXCEPT ![handling] = picked]
    /\ step' = "record"
    /\ UNCHANGED <<nodeVars, locked, info, walletVars, stage, handling, picked, logVars,
                   crashes>>

\* The call of claim to F1r3node; there is something at the witness id once
Claim ==
    /\ step = "claim" /\ WalletFree
    /\ place[handling] = "witness"
    /\ place' = [place EXCEPT ![handling] = picked]
    /\ step' = "record"
    /\ UNCHANGED <<registered, proxy, cached, fileVars, walletVars, stage, handling,
                   picked, logVars, crashes>>

\* insert_pending_claim, unless there is a record of the witness id
RecordClaim ==
    /\ step = "record"
    /\ records' = [records EXCEPT ![handling] = IF @ = None THEN picked ELSE @]
    /\ step' = "save"
    /\ UNCHANGED <<nodeVars, locked, info, walletVars, stage, handling, picked, logVars,
                   crashes>>

\* mark_claim_completed and save_state
SaveClaim ==
    /\ step = "save"
    /\ step' = "release"
    /\ UNCHANGED <<nodeVars, fileVars, walletVars, stage, handling, picked, logVars,
                   crashes>>

\* Mutation: the lock is released and the files are removed all the same
CloseFailsCleaning ==
    /\ step \in Fallible
    /\ step' = "release"
    /\ errors' = errors \cup {handling}
    /\ UNCHANGED <<nodeVars, fileVars, walletVars, stage, handling, picked, ignored,
                   crashes>>

\* An error of any of these is logged, and nothing else: no output can be had,
\* F1r3node refuses the claim (there is nothing at the witness id, or it is under
\* another key), or the claim or the state cannot be written
CloseFails ==
    /\ step \in Fallible
    /\ EventHandled(handling)
    /\ errors' = errors \cup {handling}
    /\ UNCHANGED <<nodeVars, fileVars, walletVars, ignored, crashes>>

\* release_locked_utxo
ReleaseLocked ==
    /\ step = "release"
    /\ locked' = locked \ {handling}
    /\ step' = "clean"
    /\ UNCHANGED <<nodeVars, info, records, walletVars, stage, handling, picked, logVars,
                   crashes>>

\* Its error is dropped
ReleaseFails ==
    /\ step = "release"
    /\ locked' \in HalfWritten
    /\ step' = "clean"
    /\ ignored' = ignored \cup {handling}
    /\ UNCHANGED <<nodeVars, info, records, walletVars, stage, handling, picked, errors,
                   crashes>>

RemoveInfo ==
    /\ step = "clean"
    /\ info' = info \ {handling}
    /\ EventHandled(handling)
    /\ UNCHANGED <<nodeVars, locked, records, walletVars, logVars, crashes>>

\* So is the error of remove_file
RemoveFails ==
    /\ step = "clean"
    /\ EventHandled(handling)
    /\ ignored' = ignored \cup {handling}
    /\ UNCHANGED <<nodeVars, fileVars, walletVars, errors, crashes>>

----------------------------------------------------------------------------
(* Crashes *)

\* LDK persists the ChannelManager, without the events that were handled
Persist ==
    /\ \E c \in Channels : stage[c] = "handled"
    /\ stage' = [c \in Channels |-> IF stage[c] = "handled" THEN "persisted" ELSE stage[c]]
    /\ UNCHANGED <<nodeVars, fileVars, walletVars, handlerVars, logVars, crashes>>

\* A crash at any moment and the next unlock, which may make the outputs that
\* ensure_claim_utxos_available wants
Restart(new, inputs) ==
    /\ crashes < MaxCrashes
    /\ crashes' = crashes + 1
    /\ stage' = [c \in Channels |-> IF stage[c] = "handled" THEN "queued" ELSE stage[c]]
    /\ handling' = None /\ step' = "idle" /\ picked' = None
    /\ \/ MakeOutputs(new, inputs) /\ Cardinality(Available) + Cardinality(new) = 2
       \/ new = {} /\ inputs = {} /\ UNCHANGED <<unspent, spent>>
    /\ locked' \in IF step = "release" THEN HalfWritten ELSE {locked}
    /\ UNCHANGED <<nodeVars, info, records, logVars>>

----------------------------------------------------------------------------
WalletOperation ==
    \/ \E new, inputs \in SUBSET Outputs : CreateUtxos(new, inputs)
    \/ \E inputs \in SUBSET Outputs : SpendOutputs(inputs)

HandleClose ==
    \/ \E c \in Channels : CloseSkipped(c) \/ CloseBegins(c)
    \/ \E u \in Outputs : GetClaimUtxo(u) \/ LastUnspent(u)
    \/ \E new \in Outputs, inputs \in SUBSET Outputs : CreateClaimUtxo(new, inputs)
    \/ NothingListed \/ Claim \/ RecordClaim \/ SaveClaim \/ CloseFails
    \/ ReleaseLocked \/ ReleaseFails \/ RemoveInfo \/ RemoveFails

Next ==
    \/ \E c \in Channels :
          \/ Open(c) \/ CloseChannel(c) \/ Closed(c) \/ SettleFails(c)
          \/ \E share \in {"witness", "nothing"} : Settle(c, share)
    \/ WalletOperation \/ HandleClose
    \/ Persist
    \/ \E new, inputs \in SUBSET Outputs : Restart(new, inputs)

\* Events keep being handled
Fairness == WF_vars(HandleClose)

Spec == Init /\ [][Next]_vars /\ Fairness

----------------------------------------------------------------------------
(* Properties *)

Custody == INSTANCE AssetCustody
    WITH place <- [c \in Channels |-> IF place[c] \in Outputs THEN "claimed" ELSE place[c]],
         locked <- locked

\* Through crashes, errors and events delivered again a share is settled and
\* claimed once, and no path through handle_rgb_channel_close releases the lock of
\* what is still at the witness id, but for a write of the lock file that is cut off.
KeepsCustody == Custody!Spec

\* As long as a share waits at its witness id the info file of its channel is
\* there, which is all the node has to find the share again.
InfoUntilClaimed ==
    \A c \in Channels : place[c] \in {"channel", "witness"} => c \in info

\* The claim storage agrees with F1r3node, on which output holds which share: a
\* ChannelClosed that is handled again with another output changes neither, and
\* no crash leaves a record of a claim that was not made.
RecordsMatchNode ==
    \A c \in Channels : records[c] # None => place[c] = records[c]

\* A share that waits when its channel is closed comes to be claimed, with its lock
\* released and its info file removed unless an error of that was dropped, or the
\* log has an error for it.
ClosedIsClaimed ==
    \A c \in Channels :
        stage[c] = "queued" /\ place[c] = "witness"
        ~> \/ place[c] \in Outputs /\ (c \in locked \cup info => c \in ignored)
           \/ c \in errors

(* Statements of the repository that the code does not keep. *)

\* release_locked_utxo: "Release a UTXO from locked status (called on channel
\* close)".  It is not when there was nothing to claim.
LockReleasedOnClose ==
    \A c \in Channels :
        stage[c] \in {"handled", "persisted"} /\ c \in locked => c \in errors \cup ignored

\* get_counterparty_wallet_pubkey: "Used by settle_channel_close() to get the
\* counterparty's pubkey for witness registration".
CounterpartyRegistered ==
    \A c \in Channels : registered[c] \in {None, Peer[c]}
=============================================================================
