------------------------- MODULE Settlement_proofs -------------------------
(***************************************************************************)
(* The custody of the assets of closed channels, for any channels, peers,  *)
(* outputs and number of crashes: what the claim storage and the files of  *)
(* the node say agrees with F1r3node, and the close of channels implements *)
(* AssetCustody.  The handler of ChannelClosed forgets between two steps   *)
(* what F1r3node answered, so the invariant remembers it.                  *)
(***************************************************************************)
EXTENDS Settlement, TLAPS

\* What handle_rgb_channel_close may rely on at each of its steps.
Claiming ==
    /\ step \in {"claim", "record", "save"} => picked # None
    /\ step \in {"record", "save"} => place[handling] = picked
    /\ step \in {"release", "clean"} => place[handling] \in Outputs

\* A channel that was not opened has no share on F1r3node.
Unopened == \A c \in Channels : stage[c] = "no" => place[c] = "none"

IInv == TypeOK /\ Claiming /\ Unopened /\ InfoUntilClaimed /\ RecordsMatchNode

\* At the start there is no channel, and the wallet holds what the asset was issued to.
LEMMA InitHolds == SettlementAssumption /\ Init => IInv
BY DEF SettlementAssumption, Init, IInv, TypeOK, Claiming, Unopened, InfoUntilClaimed,
       RecordsMatchNode, Keys, Stages

\* Outputs come and go: a step that changes nothing else keeps the invariant.
LEMMA WalletStep ==
    ASSUME SettlementAssumption, IInv, WalletOperation
    PROVE  IInv'
<1>1. UNCHANGED <<nodeVars, fileVars, stage, handlerVars, logVars, crashes>>
  BY DEF WalletOperation, CreateUtxos, SpendOutputs
<1>2. /\ unspent' \subseteq Outputs /\ spent' \subseteq Outputs
      /\ unspent' \cap spent' = {}
  BY DEF WalletOperation, CreateUtxos, MakeOutputs, Available, SpendOutputs, IInv, TypeOK
<1>3. TypeOK'
  BY <1>1, <1>2 DEF IInv, TypeOK, Fallible, logVars, nodeVars, fileVars, handlerVars
<1>4. QED
  BY <1>1, <1>3 DEF IInv, Claiming, Unopened, InfoUntilClaimed, RecordsMatchNode, nodeVars,
                    fileVars, handlerVars

\* A channel is opened, closed and settled by its opener.
LEMMA ChannelStep ==
    ASSUME SettlementAssumption, IInv, NEW c \in Channels,
           \/ Open(c) \/ CloseChannel(c) \/ Closed(c) \/ SettleFails(c)
           \/ \E share \in {"witness", "nothing"} : Settle(c, share)
    PROVE  IInv'
<1> USE SettlementAssumption DEF SettlementAssumption, IInv
<1>1. CASE Open(c)
  <2>1. place[c] = "none" /\ AcceptorKey(c) \in Keys
    BY <1>1 DEF Open, Unopened, AcceptorKey, Keys
  <2>2. TypeOK'
    BY <1>1, <2>1 DEF Open, HalfWritten, TypeOK, Fallible, logVars, Stages, walletVars,
                      handlerVars
  <2>3. /\ place' = [place EXCEPT ![c] = "channel"] /\ stage' = [stage EXCEPT ![c] = "open"]
        /\ info' = info \cup {c}
        /\ UNCHANGED <<records, step, handling, picked>>
    BY <1>1 DEF Open, handlerVars
  <2>4. handling # c \/ step \notin {"record", "save", "release", "clean"}
    BY <2>1 DEF Claiming, TypeOK
  <2>5. Claiming'
    BY <2>3, <2>4 DEF Claiming, TypeOK
  <2>6. records[c] = None
    BY <2>1 DEF RecordsMatchNode, TypeOK
  <2>7. QED
    BY <2>2, <2>3, <2>5, <2>6
       DEF TypeOK, Unopened, InfoUntilClaimed, RecordsMatchNode
<1>2. CASE CloseChannel(c) \/ Closed(c)
  BY <1>2 DEF CloseChannel, Closed, TypeOK, Fallible, logVars, Claiming, Unopened,
              InfoUntilClaimed, RecordsMatchNode, Stages, nodeVars, fileVars, walletVars,
              handlerVars
<1>3. ASSUME NEW share \in {"witness", "nothing"}, Settle(c, share)
      PROVE  IInv'
  <2>1. place[c] = "channel" /\ stage[c] = "closing"
    BY <1>3 DEF Settle
  <2>2. CounterpartyKeys \subseteq Keys
    BY DEF CounterpartyKeys, TypeOK
  <2>3. TypeOK'
    BY <1>3, <2>2 DEF Settle, TypeOK, Fallible, logVars, fileVars, walletVars, handlerVars
  <2>4. /\ place' = [place EXCEPT ![c] = share]
        /\ UNCHANGED <<info, records, stage, step, handling, picked>>
    BY <1>3 DEF Settle, fileVars, handlerVars
  <2>5. handling # c \/ step \notin {"record", "save", "release", "clean"}
    BY <2>1 DEF Claiming, TypeOK
  <2>6. Claiming'
    BY <2>4, <2>5 DEF Claiming, TypeOK
  <2>7. records[c] = None /\ c \in info
    BY <2>1 DEF RecordsMatchNode, InfoUntilClaimed, TypeOK
  <2>8. QED
    BY <2>1, <2>3, <2>4, <2>6, <2>7
       DEF TypeOK, Unopened, InfoUntilClaimed, RecordsMatchNode
<1>4. CASE SettleFails(c)
  <2>1. CounterpartyKeys \subseteq Keys
    BY DEF CounterpartyKeys, TypeOK
  <2>2. QED
    BY <1>4, <2>1 DEF SettleFails, TypeOK, Fallible, logVars, Claiming, Unopened,
                      InfoUntilClaimed, RecordsMatchNode, fileVars, walletVars,
                      handlerVars
<1>5. QED BY <1>1, <1>2, <1>3, <1>4

\* The event is handled, and the handler rests.
LEMMA Rests ==
    ASSUME IInv, NEW c \in Channels, EventHandled(c),
           UNCHANGED <<nodeVars, fileVars, walletVars, ignored, crashes>>,
           errors' \subseteq Channels
    PROVE  IInv'
BY DEF IInv, TypeOK, EventHandled, Claiming, Unopened, InfoUntilClaimed, RecordsMatchNode,
       Stages, nodeVars, fileVars, walletVars

\* An output is picked, one that was listed or the last one after one was made.
LEMMA PickStep ==
    ASSUME SettlementAssumption, IInv,
           \/ \E u \in Outputs : GetClaimUtxo(u) \/ LastUnspent(u)
           \/ \E new \in Outputs, inputs \in SUBSET Outputs : CreateClaimUtxo(new, inputs)
           \/ NothingListed
    PROVE  IInv'
<1> USE SettlementAssumption DEF SettlementAssumption, IInv
<1>1. /\ UNCHANGED <<nodeVars, fileVars, stage, handling, logVars, crashes>>
      /\ \/ step' = "claim" /\ picked' \in Outputs
         \/ step' \in {"create", "list"} /\ picked' = picked
      /\ step \in {"pick", "create", "list"}
  BY DEF GetClaimUtxo, LastUnspent, CreateClaimUtxo, NothingListed
<1>2. /\ unspent' \subseteq Outputs /\ spent' \subseteq Outputs
      /\ unspent' \cap spent' = {}
  BY DEF GetClaimUtxo, LastUnspent, CreateClaimUtxo, NothingListed, MakeOutputs, Available,
         TypeOK, walletVars
<1>3. TypeOK'
  BY <1>1, <1>2 DEF TypeOK, Fallible, nodeVars, fileVars, logVars
<1>4. QED
  BY <1>1, <1>3 DEF Claiming, Unopened, InfoUntilClaimed, RecordsMatchNode, nodeVars,
                    fileVars

\* The share is claimed to the picked output; there was no record of it.
LEMMA ClaimStep ==
    ASSUME SettlementAssumption, IInv, Claim
    PROVE  IInv'
<1> USE SettlementAssumption DEF SettlementAssumption, IInv
<1>1. handling \in Channels /\ picked \in Outputs /\ place[handling] = "witness"
  BY DEF Claim, TypeOK, Claiming
<1>2. /\ place' = [place EXCEPT ![handling] = picked]
      /\ step' = "record"
      /\ UNCHANGED <<registered, proxy, cached, fileVars, walletVars, stage, handling,
                     picked, logVars, crashes>>
  BY DEF Claim
<1>3. TypeOK'
  BY <1>1, <1>2 DEF TypeOK, Fallible, logVars, fileVars, walletVars
<1>4. Claiming'
  BY <1>1, <1>2 DEF Claiming, TypeOK
<1>5. stage[handling] # "no" /\ records[handling] = None
  BY <1>1 DEF Unopened, RecordsMatchNode, TypeOK
<1>6. QED
  BY <1>1, <1>2, <1>3, <1>4, <1>5
     DEF TypeOK, Unopened, InfoUntilClaimed, RecordsMatchNode, fileVars

\* What is recorded is what was claimed, and it is saved as it is.
LEMMA RecordStep ==
    ASSUME SettlementAssumption, IInv, RecordClaim \/ SaveClaim
    PROVE  IInv'
<1> USE SettlementAssumption DEF SettlementAssumption, IInv
<1> DEFINE r == IF records[handling] = None THEN picked ELSE records[handling]
<1>1. CASE RecordClaim
  <2>1. /\ handling \in Channels /\ picked \in Outputs
        /\ place[handling] = picked
    BY <1>1 DEF RecordClaim, TypeOK, Claiming
  <2>2. r = picked
    BY <2>1 DEF RecordsMatchNode
  <2>3. /\ records' = [records EXCEPT ![handling] = r]
        /\ step' = "save"
        /\ UNCHANGED <<nodeVars, locked, info, walletVars, stage, handling, picked, logVars,
                       crashes>>
    BY <1>1 DEF RecordClaim
  <2> HIDE DEF r
  <2>4. TypeOK'
    BY <2>1, <2>2, <2>3 DEF TypeOK, Fallible, nodeVars, walletVars, logVars
  <2>5. QED
    BY <2>1, <2>2, <2>3, <2>4
       DEF TypeOK, Claiming, Unopened, InfoUntilClaimed, RecordsMatchNode, nodeVars
<1>2. CASE SaveClaim
  <2>1. handling \in Channels /\ picked \in Outputs /\ place[handling] = picked
    BY <1>2 DEF SaveClaim, TypeOK, Claiming
  <2>2. QED
    BY <1>2, <2>1 DEF SaveClaim, TypeOK, Claiming, Unopened, InfoUntilClaimed,
                      RecordsMatchNode, nodeVars, fileVars, walletVars, logVars
<1>3. QED BY <1>1, <1>2

\* The lock and the info file go after the claim only, if they go.
LEMMA CleanStep ==
    ASSUME SettlementAssumption, IInv,
           ReleaseLocked \/ ReleaseFails \/ RemoveInfo \/ RemoveFails
    PROVE  IInv'
<1> USE SettlementAssumption DEF SettlementAssumption, IInv
<1>1. handling \in Channels /\ place[handling] \in Outputs
  BY DEF ReleaseLocked, ReleaseFails, RemoveInfo, RemoveFails, TypeOK, Claiming
<1>2. CASE ReleaseLocked \/ ReleaseFails
  BY <1>1, <1>2 DEF ReleaseLocked, ReleaseFails, HalfWritten, TypeOK, Claiming, Unopened,
                    InfoUntilClaimed, RecordsMatchNode, nodeVars, walletVars, logVars
<1>3. CASE RemoveInfo \/ RemoveFails
  <2>1. TypeOK'
    BY <1>1, <1>3 DEF RemoveInfo, RemoveFails, EventHandled, TypeOK, Stages, nodeVars,
                      fileVars, walletVars, logVars
  <2>2. InfoUntilClaimed'
    BY <1>1, <1>3 DEF RemoveInfo, RemoveFails, InfoUntilClaimed, nodeVars, fileVars
  <2>3. QED
    BY <1>3, <2>1, <2>2 DEF RemoveInfo, RemoveFails, EventHandled, TypeOK, Claiming,
                            Unopened, RecordsMatchNode, Stages, nodeVars, fileVars
<1>4. QED BY <1>2, <1>3

\* ChannelClosed from its first look at the info file to its end or its error.
LEMMA HandleStep ==
    ASSUME SettlementAssumption, IInv, HandleClose
    PROVE  IInv'
<1>1. ASSUME NEW c \in Channels, CloseSkipped(c) PROVE IInv'
  <2>1. EventHandled(c) /\ UNCHANGED <<nodeVars, fileVars, walletVars, logVars, crashes>>
    BY <1>1 DEF CloseSkipped
  <2>2. QED BY <2>1, Rests DEF IInv, TypeOK, Fallible, logVars
<1>2. ASSUME NEW c \in Channels, CloseBegins(c) PROVE IInv'
  BY <1>2 DEF CloseBegins, SettlementAssumption, IInv, TypeOK, Fallible, logVars,
              Claiming, Unopened, InfoUntilClaimed, RecordsMatchNode, nodeVars, fileVars,
              walletVars
<1>3. CASE CloseFails
  <2>1. handling \in Channels
    BY <1>3 DEF CloseFails, IInv, TypeOK, Fallible, logVars
  <2>2. /\ EventHandled(handling) /\ errors' \subseteq Channels
        /\ UNCHANGED <<nodeVars, fileVars, walletVars, ignored, crashes>>
    BY <1>3, <2>1 DEF CloseFails, IInv, TypeOK
  <2>3. QED BY <2>1, <2>2, Rests
<1>4. QED
  BY <1>1, <1>2, <1>3, PickStep, ClaimStep, RecordStep, CleanStep DEF HandleClose

\* LDK's persistence, and a crash at any moment of the handler.
LEMMA RestartStep ==
    ASSUME SettlementAssumption, IInv,
           Persist \/ \E new, inputs \in SUBSET Outputs : Restart(new, inputs)
    PROVE  IInv'
<1> USE SettlementAssumption DEF SettlementAssumption, IInv
<1>1. CASE Persist
  BY <1>1 DEF Persist, TypeOK, Fallible, logVars, Claiming, Unopened, InfoUntilClaimed,
              RecordsMatchNode, Stages, nodeVars, fileVars, walletVars, handlerVars
<1>2. ASSUME NEW new \in SUBSET Outputs, NEW inputs \in SUBSET Outputs,
             Restart(new, inputs)
      PROVE  IInv'
  <2>1. /\ unspent' \subseteq Outputs /\ spent' \subseteq Outputs
        /\ unspent' \cap spent' = {}
    BY <1>2 DEF Restart, MakeOutputs, Available, TypeOK
  <2>2. /\ stage' \in [Channels -> Stages]
        /\ \A c \in Channels : stage'[c] = "no" => stage[c] = "no"
    BY <1>2 DEF Restart, TypeOK, Stages
  <2>3. /\ UNCHANGED <<nodeVars, info, records, logVars>>
        /\ handling' = None /\ step' = "idle" /\ picked' = None
        /\ crashes' = crashes + 1 /\ locked' \subseteq locked
    BY <1>2 DEF Restart, HalfWritten
  <2>4. TypeOK'
    BY <2>1, <2>2, <2>3 DEF TypeOK, logVars, nodeVars
  <2>5. QED
    BY <2>2, <2>3, <2>4 DEF Claiming, Unopened, InfoUntilClaimed, RecordsMatchNode,
                            nodeVars
<1>3. QED BY <1>1, <1>2

LEMMA StepHolds == SettlementAssumption /\ IInv /\ [Next]_vars => IInv'
<1> SUFFICES ASSUME SettlementAssumption, IInv, [Next]_vars PROVE IInv'
    OBVIOUS
<1>1. CASE Next
  BY <1>1, ChannelStep, WalletStep, HandleStep, RestartStep DEF Next
<1>2. CASE UNCHANGED vars
  BY <1>2 DEF IInv, TypeOK, Fallible, logVars, Claiming, Unopened, InfoUntilClaimed,
              RecordsMatchNode, vars, nodeVars, fileVars, walletVars, handlerVars
<1>3. QED BY <1>1, <1>2

\* What the theorems rest on.
LEMMA Invariant == Spec => []IInv
<1>1. Init => IInv
  BY InitHolds, SettlementAssumption
<1>2. IInv /\ [Next]_vars => IInv'
  BY StepHolds, SettlementAssumption
<1>3. QED BY <1>1, <1>2, PTL DEF Spec

\* Every reachable state of the node and its wallet is well typed.
THEOREM TypeCorrect == Spec => []TypeOK
BY Invariant, PTL DEF IInv

\* As long as a share waits on F1r3node the node keeps the file it needs to find it.
THEOREM InfoUntilClaimedHolds == Spec => []InfoUntilClaimed
BY Invariant, PTL DEF IInv

\* The claim storage agrees with F1r3node, through any crashes and repeated events.
THEOREM RecordsMatchNodeHolds == Spec => []RecordsMatchNode
BY Invariant, PTL DEF IInv

----------------------------------------------------------------------------
(* The refinement *)

\* The place of a share as AssetCustody has it.
Abstract == [c \in Channels |-> IF place[c] \in Outputs THEN "claimed" ELSE place[c]]

\* A step of the close is a step of AssetCustody, or none.
LEMMA StepSimulates ==
    ASSUME SettlementAssumption, IInv, [Next]_vars
    PROVE  [Custody!Next]_<<Abstract, locked>>
<1> USE SettlementAssumption DEF SettlementAssumption, IInv
<1>1. ASSUME NEW c \in Channels, Open(c) PROVE Custody!Next
  <2>1. /\ Abstract[c] = "none"
        /\ Abstract' = [Abstract EXCEPT ![c] = "channel"]
    BY <1>1 DEF Open, Unopened, Abstract, TypeOK
  <2>2. locked' \in {locked, locked \cup {c}, {}}
    BY <1>1 DEF Open, HalfWritten
  <2>3. Custody!Open(c)
    BY <2>1, <2>2 DEF Custody!Open, Custody!Move, Abstract
  <2>4. QED BY <2>3 DEF Custody!Next
<1>2. ASSUME NEW c \in Channels, NEW share \in {"witness", "nothing"}, Settle(c, share)
      PROVE  Custody!Next
  <2>1. /\ Abstract[c] = "channel"
        /\ Abstract' = [Abstract EXCEPT ![c] = share]
        /\ locked' = locked
    BY <1>2 DEF Settle, Abstract, TypeOK, fileVars
  <2>2. Custody!Settle(c)
    BY <2>1 DEF Custody!Settle, Custody!Move, Abstract
  <2>3. QED BY <2>2 DEF Custody!Next
<1>3. ASSUME NEW c \in Channels, c = handling, Claim PROVE Custody!Next
  <2>1. picked \in Outputs
    BY <1>3 DEF Claim, TypeOK, Claiming
  <2>2. /\ Abstract[c] = "witness"
        /\ Abstract' = [Abstract EXCEPT ![c] = "claimed"]
        /\ locked' = locked
    BY <1>3, <2>1 DEF Claim, Abstract, TypeOK, fileVars
  <2>3. Custody!Claim(c)
    BY <2>2 DEF Custody!Claim, Custody!Move, Abstract
  <2>4. QED BY <2>3 DEF Custody!Next
<1>4. ASSUME NEW c \in Channels, c = handling, ReleaseLocked \/ ReleaseFails
      PROVE  [Custody!Next]_<<Abstract, locked>>
  <2>1. Abstract[c] = "claimed"
    BY <1>4 DEF ReleaseLocked, ReleaseFails, TypeOK, Claiming, Abstract
  <2>2. Abstract' = Abstract /\ locked' \in {locked, locked \ {c}, {}}
    BY <1>4 DEF ReleaseLocked, ReleaseFails, HalfWritten, Abstract, nodeVars
  <2>3. CASE locked' = locked
    BY <2>2, <2>3
  <2>4. CASE locked' \in {locked \ {c}, {}}
    <3>1. Custody!Release(c)
      BY <2>1, <2>2, <2>4 DEF Custody!Release, Abstract
    <3>2. QED BY <3>1 DEF Custody!Next
  <2>5. QED BY <2>2, <2>3, <2>4
<1>5. ASSUME NEW c \in Channels,
             \/ CloseChannel(c) \/ Closed(c) \/ SettleFails(c)
             \/ CloseSkipped(c) \/ CloseBegins(c)
      PROVE  UNCHANGED <<Abstract, locked>>
  BY <1>5 DEF CloseChannel, Closed, SettleFails, CloseSkipped, CloseBegins, Abstract,
              nodeVars, fileVars
<1>6. CASE \/ WalletOperation \/ NothingListed \/ RecordClaim \/ SaveClaim \/ CloseFails
           \/ RemoveInfo \/ RemoveFails \/ Persist \/ UNCHANGED vars
  <2>1. place' = place /\ locked' = locked
    BY <1>6 DEF WalletOperation, CreateUtxos, SpendOutputs, NothingListed, RecordClaim,
                SaveClaim, CloseFails, RemoveInfo, RemoveFails, Persist, vars, nodeVars,
                fileVars
  <2>2. QED BY <2>1 DEF Abstract
<1>7. ASSUME NEW new, NEW inputs, NEW u,
             GetClaimUtxo(u) \/ LastUnspent(u) \/ CreateClaimUtxo(new, inputs)
      PROVE  UNCHANGED <<Abstract, locked>>
  BY <1>7 DEF GetClaimUtxo, LastUnspent, CreateClaimUtxo, Abstract, nodeVars, fileVars
<1>8. ASSUME NEW new, NEW inputs, Restart(new, inputs)
      PROVE  [Custody!Next]_<<Abstract, locked>>
  <2>1. Abstract' = Abstract
    BY <1>8 DEF Restart, Abstract, nodeVars
  <2>2. CASE locked' = locked
    BY <2>1, <2>2
  <2>3. CASE locked' # locked
    <3>1. step = "release" /\ locked' = {}
      BY <1>8, <2>3 DEF Restart, HalfWritten
    <3>2. handling \in Channels /\ Abstract[handling] = "claimed"
      BY <3>1 DEF TypeOK, Claiming, Abstract
    <3>3. PICK c \in Channels : Abstract[c] = "claimed"
      BY <3>2
    <3>4. Custody!Release(c)
      BY <2>1, <3>1, <3>3 DEF Custody!Release, Abstract
    <3>5. QED BY <3>4 DEF Custody!Next
  <2>4. QED BY <2>2, <2>3
<1>9. Claim \/ ReleaseLocked \/ ReleaseFails => handling \in Channels
  BY DEF Claim, ReleaseLocked, ReleaseFails, TypeOK
<1>10. QED
  BY <1>1, <1>2, <1>3, <1>4, <1>5, <1>6, <1>7, <1>8, <1>9 DEF Next, HandleClose

\* The close of channels implements AssetCustody: shares move one way and once, and
\* no lock is released before the claim.
THEOREM KeepsCustodyHolds == Spec => KeepsCustody
<1>1. Init => Custody!Init
  BY SettlementAssumption DEF SettlementAssumption, Init, Custody!Init
<1>2. IInv /\ [Next]_vars => [Custody!Next]_Custody!custodyVars
  BY StepSimulates, SettlementAssumption DEF Abstract, Custody!custodyVars
<1>3. QED
  BY <1>1, <1>2, Invariant, PTL DEF Spec, KeepsCustody, Custody!Spec
=============================================================================
