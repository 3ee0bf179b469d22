-------------------------- MODULE PeerStore_proofs --------------------------
(***************************************************************************)
(* OpenedPeerIsStored, and that the file of channel peers implements the   *)
(* map of PeerBook, for any peers and any number of crashes.  The file is  *)
(* replaced in two steps, so the invariant says what the file that will    *)
(* replace it holds; and the check of /disconnectpeer is far from the      *)
(* rename, so it says that nothing undoes the check in between.            *)
(***************************************************************************)
EXTENDS PeerStore, TLAPS

\* The file that is about to be renamed differs from the old one in one entry.
Staged ==
    /\ api \in {"storing", "storingToOpen"} =>
          address \in Addresses /\ tmp = [file EXCEPT ![target] = address]
    /\ api = "deleting" => tmp = [file EXCEPT ![target] = None]

\* The peer a channel is about to be created with is in the file, the one that is
\* about to be deleted has none from this node.
Reserved ==
    /\ api = "create" => file[target] # None
    /\ api \in {"delete", "deleting"} => target \notin opened

IInv == TypeOK /\ Staged /\ Reserved /\ OpenedPeerIsStored

\* At the start there is no file and no channel.
LEMMA InitHolds == PeerStoreAssumption /\ Init => IInv
BY DEF PeerStoreAssumption, Init, IInv, TypeOK, Staged, Reserved, OpenedPeerIsStored, Book,
       Steps, Addresses, Nobody

\* A request begins: nothing is written yet.
LEMMA RequestStep ==
    ASSUME PeerStoreAssumption, IInv, NEW p \in Peers,
           \/ \E a \in Addresses : ConnectPeer(p, a)
           \/ \E a \in Addresses \cup {KnownAddress(p)} : OpenChannel(p, a)
           \/ DisconnectPeer(p)
    PROVE  IInv'
<1> USE DEF IInv
<1>1. KnownAddress(p) \in Addresses \cup {None}
  BY DEF KnownAddress, TypeOK, Book, Addresses
<1>2. TypeOK'
  BY <1>1 DEF PeerStoreAssumption, TypeOK, ConnectPeer, OpenChannel, DisconnectPeer,
              ConnectIfNecessary, Steps, fileVars, taskVars, peerVars
<1>3. UNCHANGED <<file, tmp, opened>> /\ api' \in {"store", "storeToOpen", "delete"}
      /\ (api' = "delete" => target' \notin channels)
  BY DEF ConnectPeer, OpenChannel, DisconnectPeer, fileVars, peerVars
<1>4. QED
  BY <1>2, <1>3 DEF TypeOK, Staged, Reserved, OpenedPeerIsStored

\* The rest of a request: write, rename, and then the channel or the connection.
LEMMA FinishStep ==
    ASSUME PeerStoreAssumption, IInv, Finish
    PROVE  IInv'
<1> USE DEF IInv
<1>1. api # "idle" => target \in Peers
  BY DEF TypeOK
<1>2. CASE WritePeer
  <2>1. tmp' = [file EXCEPT ![target] = address] /\ tmp' \in Book /\ address \in Addresses
    BY <1>1, <1>2 DEF WritePeer, TypeOK, Book
  <2>2. UNCHANGED <<file, target, address, opened>>
        /\ api' \in {"storing", "storingToOpen"}
    BY <1>2 DEF WritePeer, peerVars
  <2>3. TypeOK'
    BY <1>2, <2>1, <2>2 DEF WritePeer, TypeOK, Steps, peerVars, taskVars
  <2>4. QED BY <2>1, <2>2, <2>3 DEF Staged, Reserved, OpenedPeerIsStored
<1>3. CASE RenamePeer
  <2>1. file' = tmp /\ file' = [file EXCEPT ![target] = address] /\ address # None
    BY <1>3 DEF RenamePeer, Staged, PeerStoreAssumption
  <2>2. TypeOK'
    BY <1>1, <1>3 DEF RenamePeer, TypeOK, Idle, Steps, peerVars, taskVars
  <2>3. api' \in {"idle", "create"} /\ (api' = "create" => target' = target)
        /\ opened' = opened
    BY <1>3 DEF RenamePeer, Idle, peerVars
  <2>4. \A p \in Peers : file[p] # None \/ p = target => file'[p] # None
    BY <2>1 DEF TypeOK, Book
  <2>5. QED BY <1>1, <1>3, <2>2, <2>3, <2>4
            DEF RenamePeer, Staged, Reserved, OpenedPeerIsStored, TypeOK
<1>4. CASE CreateChannel
  <2>1. TypeOK'
    BY <1>1, <1>4 DEF CreateChannel, TypeOK, Idle, Steps, fileVars, taskVars
  <2>2. api' = "idle" /\ file' = file /\ opened' \subseteq opened \cup {target}
    BY <1>4 DEF CreateChannel, Idle, fileVars
  <2>3. QED BY <1>4, <2>1, <2>2
            DEF CreateChannel, Staged, Reserved, OpenedPeerIsStored
<1>5. CASE WriteOthers
  <2>1. tmp' = [file EXCEPT ![target] = None] /\ tmp' \in Book
    BY <1>1, <1>5 DEF WriteOthers, TypeOK, Book
  <2>2. UNCHANGED <<file, target, address, opened>> /\ api = "delete" /\ api' = "deleting"
    BY <1>5 DEF WriteOthers, peerVars
  <2>3. TypeOK'
    BY <1>5, <2>1, <2>2 DEF WriteOthers, TypeOK, Steps, peerVars, taskVars
  <2>4. QED BY <2>1, <2>2, <2>3 DEF Staged, Reserved, OpenedPeerIsStored
<1>6. CASE RenameOthers
  <2>1. file' = tmp /\ file' = [file EXCEPT ![target] = None] /\ target \notin opened
    BY <1>6 DEF RenameOthers, Staged, Reserved
  <2>2. TypeOK'
    BY <1>1, <1>6 DEF RenameOthers, TypeOK, Steps, peerVars, taskVars
  <2>3. api' = "drop" /\ opened' = opened
    BY <1>6 DEF RenameOthers, peerVars
  <2>4. \A p \in Peers : p # target => file'[p] = file[p]
    BY <2>1 DEF TypeOK, Book
  <2>5. QED BY <2>1, <2>2, <2>3, <2>4
            DEF Staged, Reserved, OpenedPeerIsStored, TypeOK
<1>7. CASE Drop
  BY <1>1, <1>7 DEF Drop, TypeOK, Staged, Reserved, OpenedPeerIsStored, Idle, Steps,
                    fileVars, taskVars
<1>8. QED BY <1>2, <1>3, <1>4, <1>5, <1>6, <1>7 DEF Finish

\* The task and the other peers write no file; channels with a peer are accepted
\* and closed, but not opened.
LEMMA OtherStep ==
    ASSUME IInv,
           \/ Task
           \/ \E p \in Peers :
                 PeerConnects(p) \/ PeerDrops(p) \/ AcceptChannel(p) \/ ChannelsClose(p)
    PROVE  IInv'
<1> USE DEF IInv
<1>1. UNCHANGED <<file, tmp, api, target, address>> /\ opened' \subseteq opened
  BY DEF Task, Tick, Reconnect, PeerConnects, PeerDrops, AcceptChannel, ChannelsClose,
         fileVars, apiVars, peerVars, taskVars
<1>2. connected' \in [Peers -> {"no", "out", "in"}]
  BY DEF TypeOK, Task, Tick, Reconnect, PeerConnects, PeerDrops, AcceptChannel,
         ChannelsClose, peerVars
<1>3. opened' \subseteq channels' /\ channels' \subseteq Peers
  BY DEF TypeOK, Task, Tick, Reconnect, PeerConnects, PeerDrops, AcceptChannel,
         ChannelsClose, peerVars
<1>4. seen' \in Book /\ todo' \subseteq Peers /\ crashes' \in Nat
  BY DEF TypeOK, Task, Tick, Reconnect, PeerConnects, PeerDrops, AcceptChannel,
         ChannelsClose, taskVars
<1>5. QED
  BY <1>1, <1>2, <1>3, <1>4 DEF TypeOK, Staged, Reserved, OpenedPeerIsStored

\* A crash ends the request, whatever it has written.
LEMMA CrashStep ==
    ASSUME IInv, Crash
    PROVE  IInv'
BY DEF IInv, TypeOK, Staged, Reserved, OpenedPeerIsStored, Crash, Idle, Nobody, Book, Steps,
       fileVars

LEMMA StepHolds == PeerStoreAssumption /\ IInv /\ [Next]_vars => IInv'
<1> SUFFICES ASSUME PeerStoreAssumption, IInv, [Next]_vars PROVE IInv'
    OBVIOUS
<1>1. CASE Next
  <2>1. ASSUME NEW p \in Peers,
               \/ \E a \in Addresses : ConnectPeer(p, a)
               \/ \E a \in Addresses \cup {KnownAddress(p)} : OpenChannel(p, a)
               \/ DisconnectPeer(p)
        PROVE  IInv'
    BY <2>1, RequestStep
  <2>2. CASE Finish
    BY <2>2, FinishStep
  <2>3. CASE \/ Task
             \/ \E p \in Peers :
                   PeerConnects(p) \/ PeerDrops(p) \/ AcceptChannel(p) \/ ChannelsClose(p)
    BY <2>3, OtherStep
  <2>4. CASE Crash
    BY <2>4, CrashStep
  <2>5. QED BY <1>1, <2>1, <2>2, <2>3, <2>4 DEF Next
<1>2. CASE UNCHANGED vars
  BY <1>2 DEF IInv, TypeOK, Staged, Reserved, OpenedPeerIsStored, vars, fileVars, apiVars,
              peerVars, taskVars
<1>3. QED BY <1>1, <1>2

\* What the two theorems rest on.
LEMMA Invariant == Spec => []IInv
<1>1. Init => IInv
  BY InitHolds, PeerStoreAssumption
<1>2. IInv /\ [Next]_vars => IInv'
  BY StepHolds, PeerStoreAssumption
<1>3. QED BY <1>1, <1>2, PTL DEF Spec

\* Every reachable state of the store, its handlers and the task is well typed.
THEOREM TypeCorrect == Spec => []TypeOK
BY Invariant, PTL DEF IInv

\* The peer of a channel this node opened is in the file, however the requests that
\* store and delete peers, the channels others open and crashes interleave.
THEOREM OpenedPeerIsStoredHolds == Spec => []OpenedPeerIsStored
BY Invariant, PTL DEF IInv

\* A step of the store is a store or a delete of one peer, or leaves the map alone.
LEMMA StepSimulates ==
    ASSUME IInv, [Next]_vars
    PROVE  [PeerBook!Next]_file
<1>1. CASE RenamePeer
  <2>1. target \in Peers /\ address \in Addresses
        /\ file' = [file EXCEPT ![target] = address]
    BY <1>1 DEF RenamePeer, IInv, TypeOK, Staged
  <2>2. QED BY <2>1 DEF PeerBook!Next, PeerBook!Store
<1>2. CASE RenameOthers
  <2>1. target \in Peers /\ file' = [file EXCEPT ![target] = None]
    BY <1>2 DEF RenameOthers, IInv, TypeOK, Staged
  <2>2. QED BY <2>1 DEF PeerBook!Next, PeerBook!Delete
<1>3. CASE ~RenamePeer /\ ~RenameOthers
  <2>1. file' = file
    BY <1>3 DEF Next, Finish, WritePeer, CreateChannel, WriteOthers, Drop, ConnectPeer,
                OpenChannel, DisconnectPeer, PeerConnects, PeerDrops, AcceptChannel,
                ChannelsClose, Task, Tick, Reconnect, Crash, vars, fileVars
  <2>2. QED BY <2>1
<1>4. QED BY <1>1, <1>2, <1>3

\* The file implements the map: each request takes effect at its rename, at once,
\* and a crash before it has none.
THEOREM FileIsBookHolds == Spec => FileIsBook
<1>1. Init => PeerBook!Init
  BY DEF Init, PeerBook!Init, Nobody
<1>2. IInv /\ [Next]_vars => [PeerBook!Next]_file
  BY StepSimulates
<1>3. QED BY <1>1, <1>2, Invariant, PTL DEF Spec, FileIsBook, PeerBook!Spec
=============================================================================
