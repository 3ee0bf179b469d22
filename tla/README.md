# A TLA+ development of the RGB Lightning Node

The daemon of this repository is one process that runs an LDK Lightning node
whose channels may carry RGB assets, with contracts executed by F1r3node.  It
serves an HTTP API (`src/routes.rs`), handles the events LDK queues
(`handle_ldk_events` in `src/ldk.rs`) and keeps its RGB wallet behind an adapter
(`src/f1r3fly_rgb_adapter.rs`).  This directory models the parts where several
tasks, events or crashes meet, checks them with TLC and proves the main results
with TLAPS.

## The system

Every part below runs in one of three kinds of task: an HTTP handler (detached
from its connection by `no_cancel`, so it always runs to its end), the LDK
background processor, which hands events to `handle_ldk_events` one at a time,
or one of the tasks `start_ldk` spawns (listener, reconnection, block polling).

| part | state it keeps | operations | how it meets the others |
|---|---|---|---|
| Node lifecycle | `changing_state`, `unlocked_app_state` behind a tokio mutex, `ldk_background_services`, the mnemonic file | unlock, lock, init, restore, backup, changepassword, shutdown | every API handler reads the flag and keeps the guard of the tokio mutex for its body |
| Channel opening | `rgb_send_lock`, channel info files, `pending_rgb_transfer.json`, psbt files, `channel_ids`, `locked_channel_utxos.json` | /openchannel, FundingGenerationReady, ChannelPending, ChannelClosed, DiscardFunding | API handler and event handler share the lock and the files; LDK delivers events again |
| Swaps | `maker_swaps`, `taker_swaps` | makerinit, makerexecute, taker, listswaps, getswap, HTLCIntercepted, payment events | the API reads a copy and writes back, the event handler updates in between |
| Payments | `inbound_payments`, `outbound_payments` | sendpayment, keysend, lninvoice, invoicestatus, listpayments, payment events, startup | the API adds before it calls LDK, the event handler updates, startup fails what LDK does not know |
| RGB amounts | one info file per channel, payment info files | PaymentClaimed, PaymentSent, PaymentForwarded | applied once per delivered event, before the status is written |
| Channel close | locked UTXO file, channel info files, claim storage, cached keys | closechannel, settle_channel_close (called by LDK), ChannelClosed | the event handler calls F1r3node and shares the wallet's outputs with the API |
| Wallet outputs | the wallet behind the `wallet_manager` mutex | createutxos, sendbtc, funding transactions | whatever holds the mutex; claims pick an output and use it later |
| Peer store | `channel_peer_data` | connectpeer, openchannel, disconnectpeer, reconnection | API and reconnection task share the file |
| Tokens | revocation list | revoketoken, middleware | every request reads it |

The behaviours that are hard to test are listed, each at its line, as "hazards"
in `PROJECT.json`.  What makes each part correct:

* lifecycle: a handler never sees the node change under it, a change always ends,
  keys are never replaced, at most one LDK instance works on the data;
* opening: two openings never mix in the shared file, each funding output gets
  its own asset, once for each broadcast that is accepted, the lock is released;
* swaps: a status says what became of the payment, only accepted terms are
  forwarded, no request blocks the store;
* payments: an invoice is paid once at most, the status converges to what LDK
  did, amounts are applied once and before a payment counts as Succeeded;
* close: a share is claimed once, to an output on record, and nothing the node
  needs to find it goes before that;
* peers: the file is always the map before or after a request, the peer of an
  opened channel is in it, and is reconnected.

## Modules

### NodeLifecycle (`MCNodeLifecycle`, `NodeLifecycle_proofs`)

One process per client and one, `Daemon`, for `shutdown_signal`.  `pc[c]` tells
where the client's handler is and `op[c]` which handler it runs; `Labels` are the
points at which another task can run: the two awaits of `check_locked` and
`check_unlocked` (flag first, guard second), the truncation and the writing of the
mnemonic file, every assignment of lock and unlock, the await of the background
processor and the loop on the peer port.  `guard` is the holder of the tokio mutex.
An LDK instance is what a successful `start_ldk` spawned; `bp`, `stopping` and
`port` are what `stop_ldk` sees of it.  A client that is both an operator and a user
sends any request.  `botched` records the ways a process can be left in a bad state:
a panic of `start_ldk` ("start"), an unlock refused after its listener was spawned
("announce"), a panic of `stop_ldk` on its join handle ("join") or on the peer port
("port"), and a lock or unlock that began while another went on ("overlap"), which a
cleared flag makes possible.  `firstSeed` is a history variable.  `Restart` is a
crash or an exit followed by a new start; only the mnemonic file survives.

| action | code |
|---|---|
| `Request`, `RequestLockWhileChanging`, `Acquire`, `AcquireRefused`, `RejectLock` | `check_changing_state`, `check_locked`, `check_unlocked`, the Err arm of lock |
| `PrepareMnemonic`, `TruncateMnemonic`, `WriteMnemonic`, `SaveFails`, `FinishBody` | init, restore, changepassword, backup and every call of the unlocked API |
| `BeginChange` ... `EndChange` | unlock, and the two ends of lock |
| `StopSignal`, `Join`, `JoinPanics`, `PortReleased`, `PortNotReleased` | `stop_ldk`, from lock and from the shutdown |
| `BackgroundExit`, `BackgroundPanic`, `ListenerExit` | the tasks of `start_ldk` |
| `Cancel`, `WaitStateChange`, `Exit`, `Restart` | `main`, `shutdown_signal`, /shutdown |

Left out: what the unlocked API calls do (one `FinishBody`), the contents of a
backup, and the archive restore unpacks besides the mnemonic.

### EventQueue (`EventQueue_proofs`)

LDK's pending events as a sequence, whose head `handle_ldk_events` is given next.
`Members` are its events; `Pick` is what LDK makes of it at a restart, the events
at some places in their order.  LDK is not part of this repository: the module is
used by the crashes of ChannelFunding and Swaps, and its lemmas by their proofs and
those of Payments.

### ChannelFunding, SerialOpening (`ChannelFunding_proofs`)

The node that opens channels: the handler (`api`, `opening`), the event handler
(`ev`, `cur` and its local variables), the files (`info`, `pending`, `ids`,
`tracked`), LDK (`stage`, `events`, `handled`) and the outside (`sent`, how often a
broadcast of a funding transaction was accepted, `posted`, `transfers`).  A channel
stands for its asset and amount as well: `pending = c` says that the file holds the
contract and amount of channel `c`. An event leaves the queue when its handler
returns Ok; `Replay` is the `ReplayEvent` result.  `handled` holds what was handled
since the ChannelManager was last persisted; a crash delivers it again, except
FundingGenerationReady, which LDK does not persist.  The peer and LDK's own steps
(`PeerAccepts`, `PeerGone`, `PeerSigns`, `Persist`, `Crash`) are external.

send_end tells a first broadcast from a later one by the indexer's answer.  The
indexer is external: `Broadcast` may succeed for a transaction it has accepted
before, `BroadcastKnown` is the answer send_end recognises, `BroadcastFails` any
other error.

`SerialOpening` is what the openings promise: one channel is served at a time, its
transaction is sent and its own asset moved in its turn, in that order; each move
answers one broadcast that was accepted, which is left without a move only when that
is refused (`Miss`) or the process crashes; a channel counts as funded only with its
transaction sent and is given up only without.  `KeepsTurns` states that
ChannelFunding implements it; the turn of a channel goes from the assignment of
`rgb_send_lock` to the end of its ChannelPending, or of the channel.  A crash ends
the turns, and the order and the one move for each broadcast remain.  A channel may
be served without a move: it is plain, or the finding of `transfer_skipped` applies.

Left out: the accepting side, peers and addresses, fees and balances (they only
decide whether `Open` happens), the second info file of a channel.

### Swaps, AtomicSwap (`Swaps_proofs`)

One maker and one taker, each with its store (`maker_swaps` of the one,
`taker_swaps` of the other), its running API handler (`api`; handlers of a node are
serialised by the tokio guard), and its queue of LDK events (`queue`, `handled`,
`dead` as in ChannelFunding).  `leg` is the HTLC that goes from the maker through
the taker back to the maker, and `legTerms` what it carries; LDK moves it
(`Network`, external).  /listswaps and /getswap copy the store and write back one
swap at a time what the clock made of the copy (`ListSwaps`, `MapSwap`), with events
in between.  HTLCIntercepted takes the taker's store twice: to compare the terms,
and again to write the status; then it answers LDK. `verdict` is where the handler
is between these three steps, and /taker and the lists run in each gap.  `crossed`
is a history variable: the swaps whose terms /taker replaced between the comparison
and the status.  A panic of a handler that holds a store poisons it (`poisoned`), a
panic of the event handler ends it (`dead`).

| action | code |
|---|---|
| `MakerInit`, `Taker` | makerinit, taker |
| `ExecutePending`, `ExecuteSend`, `ExecuteSendFails`, `ExecuteFailed`, `ExecuteExpired`, `ExecuteUnknown` | makerexecute |
| `ListSwaps`, `MapSwap` | listswaps, getswap |
| `InterceptUnknown`, `InterceptUnknownLate`; `InterceptCompare`, `InterceptWrite`, `InterceptAnswer`, `InterceptLate` | HTLCIntercepted: no such swap; the two holdings of `taker_swaps` and the answer |
| `PaymentClaimable`, `PaymentSucceeded`, `PaymentFailed`, `PaymentForwarded`, `PoisonedStore` | the payment events of a swap |

Terms are model values: two quantities and two assets either match or do not.
Left out: routes and fees (they only decide whether `ExecutePending` happens),
the channel amounts the events update, the branch of HTLCIntercepted for an
HTLC that is no swap (LDK reports none: `accept_intercept_htlcs` is not set).
The model also shows, without a property against it, that the maker's status can
leave Succeeded: by a second /makerexecute, and by a list that had read Pending.

`AtomicSwap` is what the taker is promised, without statuses, lists and events: it
is bound only by terms it accepted when it looked at the offer, these do not change
from then on while it is bound, whatever it accepts in the meantime, and once the
maker is paid the taker's payment is not withdrawn.  `KeepsTerms` states that Swaps
implements it: the accepted terms are those of the taker's store, the taker agrees
when it compares them with the HTLC, is bound from its answer to HTLCIntercepted
until the HTLC is gone, and settled from the claim on.  A crash that brings an HTLC
back to the interception withdraws it.  The promise is about the HTLC and not about
the statuses, which may lag behind it or, as above, leave Succeeded.

### Payments (`Payments_proofs`, `PaymentsOnce_proofs`)

One node and its payments by id: `Invoices` (BOLT11, can be paid again),
`Fresh` (keysends), `Offers` (BOLT12, no asset), `Inbound` hashes and payments
it `Forwards`.  `outbound` and `inbound` are the two stores; `offered[p]` and
`received[p]` count how often the amount of a payment was applied to its
channel; `api` and `target` are the one running handler; `queue` and `handled`
are LDK's events as in the other modules; `counted` says that the handler of
the first event is between the amount and the status, the two files it writes.
`ldk`, `arrived` and `fulfilled` are LDK's: what it knows of a payment and how
often its HTLC was really fulfilled.

| action | code |
|---|---|
| `AddOutboundPayment`, `Send`, `SendRefused`, `SendFailed` | sendpayment and keysend around the call to LDK |
| `LnInvoice`, `InvoiceStatus`, `Listed` | lninvoice, invoicestatus, listpayments |
| `PaymentClaimable`, `ClaimedAmount`, `PaymentClaimed`, `SentAmount`, `PaymentSent`, `PaymentFailed`, `ForwardedAmount`, `PaymentForwarded` | the events, in the order of their writes |
| `FailOutboundPendingPayments`, `Restart` | what `start_ldk` does before the first event |

A keysend or an offer has a new id each time, so the one in the stores is not
sent again.  A payment has one channel; a panic after the payment was accepted
(an invoice without amount) changes the response only.

### Settlement, AssetCustody (`MCSettlement`, `Settlement_proofs`)

The close of channels with one asset at one node, opener of some (`Opened`),
acceptor of the others.  `place[c]` is where the node's share is on F1r3node: in
the channel's funding witness, at its own witness id, nowhere, or on the output
it was claimed to; `registered[c]` whose key the other side's share is under.
`locked`, `info`, `records` are the three files, `cached` the key that
settle_channel_close keeps under the asset, `unspent` and `spent` the wallet's
outputs.  `step` is where handle_rgb_channel_close is; every one of its calls is a
step, with the wallet operations of other tasks in between, except from a claim to
the state saved after its record, which one holding of the mutex covers
(`WalletFree`).  Each step up to there may fail; `errors` is the log line of the
event's Err branch.  The errors of the release and of the removal are dropped by the
code, and `ignored` records the channels they concern.  The lock file is rewritten
in place and read as empty when it is cut off: an error or a crash while a lock is
made or released may lose the locks of all channels (`HalfWritten`).

| action | code |
|---|---|
| `CreateUtxos`, `SpendOutputs` | create_utxos; send_btc and funding transactions, which may spend any output |
| `Open`, `CloseChannel`, `Settle`, `SettleFails` | track_locked_utxo, closechannel, settle_channel_close |
| `CloseSkipped`, `CloseBegins`, `CloseFails` | ChannelClosed, and the errors of handle_rgb_channel_close |
| `GetClaimUtxo`, `NothingListed`, `CreateClaimUtxo`, `LastUnspent` | get_claim_utxo: the list, a new output, the second list |
| `Claim`, `RecordClaim`, `SaveClaim` | the claim, its record, save_state |
| `ReleaseLocked`, `ReleaseFails`, `RemoveInfo`, `RemoveFails` | release_locked_utxo and remove_file |
| `Restart` | the next unlock, with ensure_claim_utxos_available |

`AssetCustody` is what the close promises: a share goes from the channel to its
witness id and from there to the wallet, each once and none back, and a lock is
released after the claim only, or lost with the file by a write that is cut off.
`KeepsCustody` states that Settlement implements it, the output of a claim mapped to
"claimed".  The model also shows, without a property against it, that a claim may go
to an output that was spent after it was picked, and that two shares may come to lie
on one output, when the last one of the second list is not the new one.
Confirmations, fees, amounts (but for an empty share) and the chain's view of an
output are left out.

### PeerStore, PeerBook (`PeerStore_proofs`)

The file of channel peers as a map (`file`) and the temporary file it is
replaced by (`tmp`), the one running handler, the reconnection task (`seen` is
what it read, `todo` whom it still tries), and the connections.  An address is
the one the peer listens at or another one.  `PeerBook` is the map with one
entry changed at a time; `FileIsBook` states that PeerStore implements it across
crashes.

| action | code |
|---|---|
| `ConnectPeer`, `OpenChannel`, `DisconnectPeer` | the handlers up to the file |
| `WritePeer`, `RenamePeer`, `WriteOthers`, `RenameOthers` | persist_channel_peer, delete_channel_peer |
| `CreateChannel`, `Drop` | what the handlers do after it |
| `Tick`, `Reconnect` | the reconnection task |
| `AcceptChannel` | OpenChannelRequest |

## Runs

| run | what it shows | bounds |
|---|---|---|
| `lifecycle` | `GuardedView`, `SeedKept`, `OneNode`, `SettledStateAgrees` under every outcome of `start_ldk` | 2 clients that send any request, 2 instances, 2 seeds, 1 password |
| `lifecycle_live` | `ChangeEnds`, `LockTakesEffect`, `ShutdownCompletes` under every outcome of `start_ldk` | 1 operator, 1 other client, 2 instances, 1 seed |
| `funding` | `OneOpening`, `TransferMatchesChannel`, `OneTransferPerBroadcast`, `FundedHasAsset`, `SignedGetsFunded`, and `KeepsTurns` (refinement) | 2 coloured channels and a plain one, 1 crash, 1 failing call of any kind |
| `transfer_skipped` | finding: a failed transfer is later taken for done | 1 failing transfer, no crash |
| `swaps` | `SucceededWasPaid`, `PendingMatchesHtlc`, and `KeepsTerms` (refinement) | 1 swap, 2 terms, 2 payments, 1 crash, the clock stands still |
| `swaps_live` | `PaidIsReported`, `PendingEnds` | 1 swap, matching terms, 1 payment, 1 crash, 2 clock values |
| `lock_stuck` | finding: `rgb_send_lock` outlives its opening | no failure, no crash |
| `payments` | `StoredBeforeSent`, `SucceededIsCounted`, `PaidAtMostOnce`, `AmountsMatchPayments`, `PendingSettles`, `ClaimedIsReported` | an invoice and 2 attempts, an offer, one inbound payment, one forward, 1 restart |
| `settlement` | `InfoUntilClaimed`, `RecordsMatchNode`, `ClosedIsClaimed`, and `KeepsCustody` (refinement) | one channel opened and one accepted, 2 small outputs, 1 crash |
| `settlement_key` | finding: a share is registered under the key of another peer | 2 opened channels, 2 peers, no crash |
| `lock_kept` | finding: a close with nothing to claim keeps the lock | as `settlement`, no crash |
| `peers` | `OpenedPeerIsStored`, `ChannelPeerReconnects`, and `FileIsBook` (refinement) | 2 peers, 2 addresses, 1 crash |

Why the bounds are enough.  Lifecycle: the guard admits one handler, so a second
client is enough for a request that waits while another holds it (init against
restore), that read the flag before a change began, or whose refused lock clears the
flag of another's change and lets a third request overlap it; as many as wish may
follow one another.  Two instances are needed for an old background processor next
to a new one, and two seeds for one to replace the other.  Instances, clients and
seeds are interchangeable and no property of the safety run names one, so the run
uses their symmetry; the liveness run uses none.  It has one operator because
`LockTakesEffect` is false with two (below), and the second instance is for the
unlock after one that was refused late, whose listener still has the port.

Funding: the shared file needs two coloured channels to be wrong about, a plain one
takes the other branches; one crash and one failure already give a replayed event
after any step.

Swaps: the entries of different payment hashes do not influence each other, but for
a poisoned store and the one handler at a time, so one swap is enough; a second
payment for it is what events of the first can be confused with.  Only one set of
terms is offered, since no step reads the maker's; the taker accepts either.  In the
safety run the clock stands still: lists then write back nothing, and that the
statuses they age do no harm is left to the proofs and to `swaps_live`.  Its two
clock values are one before and one after the expiry and the end of the day that
Pending may last (`Lifetime` and `PendingLimit` are 0), so both are passed by the
same step; it has one payment and one set of terms to stay small.

Payments: payments meet in the queue, the handler and the restart only; an invoice
has the retries, an offer the step before its HTLC, and one payment of each other
kind orders its events among theirs.  A keysend takes the same steps as an invoice
and is left to the proofs.

Settlement: two channels compete for outputs and for the one cached key; the second
output is what a repeated claim may pick, and with both taken the fallback comes.
One restart already delivers any handled event again.  PeerStore: a second peer is
what a write for the first could lose.

`CHECK_DEADLOCK FALSE` in all but the lifecycle runs: channels are not opened again
and payments, clock, attempts and crashes are bounded, so the models end.
`MaxCrashes`, `MaxRestarts`, `MaxFailures` and `MaxTries` bound the crashes, the
restarts, the failed calls and the attempts LDK accepts.

Scope of the properties, as they say themselves: `OneNode` and
`SettledStateAgrees` speak of the time before a shutdown and of processes in which
no two changes overlapped; `OneNode`, and what `SettledStateAgrees` says of the port
and of background processors still exiting, also of those in which no unlock was
refused late and, for the latter, no lock died halfway.  Nothing keeps two operators
from overlapping: one's refused lock clears the flag of the other's change, and a
third request then begins next to it.  `ChangeEnds` and `LockTakesEffect` except the
changes that die halfway (`DiedHalfway`): `start_ldk` panics, `stop_ldk` panics
because its background processor died or because an unlock refused for its announce
parameters left a listener on the port (`src/ldk.rs:2422`), or two changes overlap.

The funding properties other than `OneTransferPerBroadcast` and `KeepsTurns` speak
of runs without a crash: after one, `rgb_send_lock` is false again while
`pending_rgb_transfer.json` and a replayed ChannelPending remain, so an opening
after the restart can overwrite what the old one will transfer, and an event
replayed after the file was removed is replayed for ever. `FundedHasAsset` also
excludes a transfer F1r3node refused (the finding of `transfer_skipped`) and a
channel whose consignment was never posted, because the peer answered before the
info files were written.

`OneTransferPerBroadcast` is what send_end itself ensures; that there is one
transfer depends on the indexer, which must refuse a transaction it has already.
`SignedGetsFunded` allows a peer that leaves before the broadcast.

`PendingMatchesHtlc` excepts swaps whose terms /taker replaced between the
comparison (`src/ldk.rs:1347`) and the update of the status (`src/ldk.rs:1360`):
the store then shows as Pending what nobody compared.  What was compared is still
what the HTLC carries, which is what `KeepsTerms` says, without the exception.
`PendingEnds` excepts a crash of /makerexecute between the status and the payment,
after which Pending lasts until a list a day later.

`PaidAtMostOnce` and `AmountsMatchPayments` speak of the time before the first
restart.  After one, a PaymentFailed of a first attempt that is delivered again
marks a second attempt Failed; when that one succeeds and LDK has forgotten it, a
third can be sent, and an amount whose event is delivered again is applied again.
`StoredBeforeSent`, `SucceededIsCounted`, `PendingSettles` and `ClaimedIsReported`
hold across restarts.  `ClosedIsClaimed` allows an error in the log, after which
nothing tries again, and a lock or an info file that stays because the code drops
the error of releasing or removing it (`src/ldk.rs:558`, `570`, `574`);
`InfoUntilClaimed` says that what is needed to try again is kept.
`ChannelPeerReconnects` asks for the right address: connectpeer stores one it has
not tried if the peer is connected already.

### Divergences stated in the modules without a run

Four statements about the node are defined at the end of their modules and fail
in them; no run lists them.

* `NoCallDuringChange`, `FlagCoversChange` (NodeLifecycle): "Cannot call other
  APIs while node is changing state" (`src/error.rs:48`).  A request that read
  the flag before a lock set it runs its body during the change; and the Err arm
  of lock (`src/routes.rs:2574`) clears the flag of another request's change.
* `PortAlwaysReleased` (NodeLifecycle): `panic!("LDK peer port not being
  released")` (`src/ldk.rs:2422`) is reached by the lock after an unlock that was
  refused for its announce parameters, because its listener runs on.
* send_end (`src/f1r3fly_rgb_adapter.rs:1284`) broadcasts "first. If it succeeds, we
  need to execute the F1r3node transfer", to skip one that "was already done".  If
  the indexer answers Ok for a transaction it has, the transfer is made again: a
  second transfer is reachable in ChannelFunding.
* `OnlyWaitingForwarded` (Swaps): HTLCIntercepted does not look at the status, so
  the HTLC of a swap that is not Waiting is forwarded
  (`src/test/swap_roundtrip_fail_whitelist.rs:112` expects otherwise).

## Fairness

Tasks that can run do run: weak fairness on the background processor's and
listener's exit, on the 300 ms polling of `shutdown_signal` and on the end of axum's
graceful shutdown.  Tokio's mutex is FIFO, so a task waiting for the guard gets it
although others keep taking it, and the loop at the end of `stop_ldk` gives up after
ten seconds whatever happens to the port in between: strong fairness on the steps of
each client after its request (`Task`), and on the `StopLdk` of the shutdown.
Requests, signals, panics, crashes, users and peers are not fair.  In ChannelFunding
only the event handler is fair; failing calls are bounded, so it meets a call that
works.  In Swaps a handler of the API that started runs to its end (`no_cancel`, and
lists do not wait), both event handlers are fair, and so is each HTLC: its timeouts
resolve it if nothing else does.  In Payments it is the same for the handler, the
events and each outbound payment.  In Settlement only the event handler is fair: its
calls answer or fail.  In PeerStore the reconnection task, each of its attempts and
a handler that started are; peers may drop a connection at any time.

## Proofs

Every invariant, action property and refinement of a passing run is proved, for
every value of the constants that the named assumption of its module allows.

`EventQueue_proofs` has the facts about queues of events the other modules cite:
what an append, a tail and a concatenation leave in a queue, when its events stay
distinct, and what LDK's rebuilt queue holds (`PickProperties`: the events at the
given places, each once, in their order).  A filter written with `SelectSeq` is
recursive and nothing follows about it for every queue; `Pick` numbers the places
instead, and that the k-th place exists and is unique follows from the least k for
which it would not.

`NodeLifecycle_proofs` proves `TypeCorrect`, `GuardedViewHolds` and
`SeedKeptHolds` for any sets of clients, instances, seeds and passwords, from
`LifecycleAssumption` (operators and users may be the same clients; the special
values and the daemon are none of them).  The inductive invariant is

    IInv == TypeOK /\ GuardedView /\ BufferReady /\ SeedCarried /\ SeedKept

`GuardedView` is inductive with the types: the guard is taken when it is free
and the Option is only written while nobody holds it.  `SeedKept` is not: a
handler between its check and its write must hold a whole file (`BufferReady`)
with the node's seed (`SeedCarried`), and an absent file must mean that none was
ever written; `GuardedView` then rules out a second handler between them.

`OneNodeHolds` and `SettledStateAgreesHolds` are proved for any number of operators,
instances and outcomes of `start_ldk`, with no assumption but that one.  Their
invariant

    Calm == ~Cancelled /\ "overlap" \notin botched => Phases

gives, for each step of an unlock and of a lock (`Phase`), what the three pieces of
state, the background processors and the peer port are; outside of them (`Settled`)
the pieces agree.  A change that begins next to another one is recorded
(`OverlapRemembered`); as long as none is, the steps of one change are the only ones
that touch the instances (`LoneChangeStep`), while requests, bodies and refused locks
of any other client leave them alone (`Undisturbed`).  A failed start, a panic and a
lock that died halfway all lead back to `Settled`, with less said of the port; after
a requested shutdown nothing is claimed until the restart.

`ChannelFunding_proofs` proves `TypeCorrect` and `OneTransferPerBroadcastHolds` for
any channels, crashes and failures.  The first invariant is

    IInv == Typed /\ Ordered /\ OneTransferPerBroadcast

`Ordered` says that behind the broadcast the transaction of the handler's channel was
accepted, and that a handler about to transfer has more accepted broadcasts than
transfers of its channel, which is why the next one fits.
`OneOpeningHolds`, `TransferMatchesChannelHolds` and `FundedHasAssetHolds` follow
from a second one,

    Apart == Queued /\ Locked /\ FileIsOwners /\ AssetFollows

which every step but a crash keeps: LDK queues one event of a kind for a channel, in
the stage that fits it (`Queued`); a channel that is being opened, waits for its
funding or has its funding event pending holds `rgb_send_lock`, and there is one
such channel at most (`Locked`); the pending file is that channel's
(`FileIsOwners`); and a transfer lies between a broadcast and the release of the
lock (`AssetFollows`). `KeepsTurnsHolds` is the refinement, from both invariants:
before a crash the channel whose event is handled is the owner, so broadcast,
transfer and end are steps of its turn; after one only the first invariant is left,
and it is what the order needs.

`Swaps_proofs` proves `TypeCorrect`, `SucceededWasPaidHolds`,
`PendingMatchesHtlcHolds` and the refinement `KeepsTermsHolds` for any swaps, terms,
payments, clock and crashes, from three invariants that build on each other.  `Paid`
has the types and says that an event which makes a swap Succeeded, whether it waits
or may be delivered again, comes after the taker's claim (`QueueOK`), that an HTLC
past the claim is paid (`LegOK`), and that the maker knows every swap a request, a
list, an HTLC or an event of its is about, so only entries that exist are written.
`Ordered` says that the taker's interceptions wait in the order of their payments,
that the last one has the terms of the HTLC, and that none waits for an HTLC that was
answered; without it a verdict could be about another HTLC than the one that is
forwarded.

    IInv == Judged /\ PendingMatchesHtlc

`Judged` carries the result of the comparison over the release of the mutex: a
handler that found a match, and one that wrote Pending while the store still shows
it, has the terms of its HTLC in the store, unless /taker crossed it.

The refinement has one lemma per kind of step: most steps change nothing AtomicSwap
sees (`Hidden`), and of the taker's entry only a status (`StatusHidden`); /taker
accepts, `InterceptCompare` agrees when the terms match (`CompareSimulates`), the
status is hidden (`WriteSimulates`), `InterceptAnswer` binds under the terms agreed
upon (`ForwardSimulates`), `PaymentClaimable` settles, and the steps of LDK and a
crash withdraw or complete.

`Payments_proofs` proves `TypeCorrect`, `StoredBeforeSentHolds` and
`SucceededIsCountedHolds` for any payments, attempts and restarts, from
`PaymentsAssumption` (outbound, inbound and forwarded payments are different
ones, and None is no payment).  The invariant is

    IInv == TypeOK /\ Stored /\ Backed /\ Counting /\ Succeeded

What an event means when it is handled, perhaps for a second time, decides both
properties: every event that waits or may be delivered again is about a payment
in the store (`Stored`), an event of success about a fulfilled one (`Backed`),
and a handler that goes on after the amount is still at the event that it wrote
it for (`Counting`).

`PaymentsOnce_proofs` proves `PaidAtMostOnceHolds` and
`AmountsMatchPaymentsHolds`.  `Once` says that, until the first restart, every
payment has at most one event, and lists the combinations of its entry in the
store, LDK's record, its event and its amounts that exist: six for an outbound
payment, four for an inbound one and three for a forward.  A Pending entry then
stands for an attempt that was not answered, so a new one is only added when LDK
neither knows the payment nor has an event for it.

`Settlement_proofs` proves `TypeCorrect`, `InfoUntilClaimedHolds`,
`RecordsMatchNodeHolds` and the refinement `KeepsCustodyHolds`, for any channels,
peers, outputs and crashes, from `SettlementAssumption`.  The invariant is

    IInv == TypeOK /\ Claiming /\ Unopened /\ InfoUntilClaimed /\ RecordsMatchNode

`Claiming` ties the step of the handler to the place of its share: at `record` and
`save` it is on the picked output, in the later steps on some output, so the lock
and the file go after the claim, whether or not these steps fail.  `Unopened` says
that a channel not opened yet has nothing anywhere.

`PeerStore_proofs` proves `TypeCorrect`, `OpenedPeerIsStoredHolds` and the
refinement `FileIsBookHolds` from

    IInv == TypeOK /\ Staged /\ Reserved /\ OpenedPeerIsStored

`Staged` says that before the rename the temporary file is the file with one
entry changed, `Reserved` that from the check of disconnectpeer on no channel is
opened to its peer, and from the store of openchannel on its peer is in the file.

Only model-checked: the ten liveness properties, which the prover cannot treat
(`ChangeEnds`, `LockTakesEffect`, `ShutdownCompletes`, `SignedGetsFunded`,
`PaidIsReported`, `PendingEnds`, `PendingSettles`, `ClaimedIsReported`,
`ClosedIsClaimed`, `ChannelPeerReconnects`).

## Not modelled

* Authentication tokens (`src/auth.rs`): a list that grows under one lock, and
  checks that are functions of the token.  One hazard is noted: the file of the
  list is written after the lock is dropped, so of two revocations at once the
  older list may be written last.
* The encrypted backup format (`src/backup.rs`), the bitcoind client
  (`src/bitcoind.rs`), the command line and errors: conversions and calls without
  state that several tasks share.
* Issuance, transfers outside channels, balances: calls into the contract and
  wallet libraries, whose state is not in this repository.
* The accepting side of an opening: consignment download and the asset database
  are the Lightning library's and the wallet's.
* HTLCs inside a channel and the asset amounts they carry before they are
  fulfilled or failed: the Lightning library's.

What could be added: payments over several channels with their payment info files,
and what remains of the lifecycle after two changes overlapped.
