----------------------------- MODULE PeerStore ------------------------------
(***************************************************************************)
(* The file of channel peers, the handlers that write it (/connectpeer,    *)
(* /openchannel and /disconnectpeer) and the task that, every second,      *)
(* reads it and connects again to the peers the node has channels with.    *)
(*                                                                         *)
(* The handlers are serialised by the unlocked_app_state guard, the task   *)
(* and the connections the other peers make or drop are not.  A file is    *)
(* replaced by writing another one and renaming it, so that nobody sees a  *)
(* half of it and a crash leaves the one or the other.                     *)
(***************************************************************************)
EXTENDS Naturals

CONSTANTS
    Peers,
    Right,          \* the address a peer listens at, and another one: that of an
    Wrong,          \* incoming connection, or what a client believes
    MaxCrashes,     \* bound on crashes
    None

Addresses == {Right, Wrong}

ASSUME PeerStoreAssumption ==
    /\ Right # Wrong /\ None \notin Peers \cup Addresses
    /\ MaxCrashes \in Nat

VARIABLES
    file,           \* what CHANNEL_PEER_DATA says
    tmp,            \* what the file that will replace it says
    api,            \* where the running handler is
    target,         \* the peer it is about
    address,        \* and its address
    connected,      \* how a peer is connected
    channels,       \* peers the node has a channel with
    opened,         \* those it opened one with
    seen,           \* what the task read
    todo,           \* peers it tries to connect to
    crashes         \* so far

Nobody == [p \in Peers |-> None]

apiVars == <<api, target, address>>
fileVars == <<file, tmp>>
peerVars == <<connected, channels, opened>>
taskVars == <<seen, todo>>
vars == <<fileVars, apiVars, peerVars, taskVars, crashes>>

Book == [Peers -> Addresses \cup {None}]
Steps == {"idle", "store", "storing", "storeToOpen", "storingToOpen", "create",
          "delete", "deleting", "drop"}

TypeOK ==
    /\ file \in Book /\ tmp \in Book /\ seen \in Book
    /\ api \in Steps
    /\ target \in Peers \cup {None} /\ (target = None <=> api = "idle")
    /\ address \in Addresses \cup {None}
    /\ api \in {"store", "storeToOpen"} => address # None
    /\ connected \in [Peers -> {"no", "out", "in"}]
    /\ opened \subseteq channels /\ channels \subseteq Peers
    /\ todo \subseteq Peers
    /\ crashes \in Nat

Init ==
    /\ file = Nobody /\ tmp = Nobody
    /\ api = "idle" /\ target = None /\ address = None
    /\ connected = [p \in Peers |-> "no"] /\ channels = {} /\ opened = {}
    /\ seen = Nobody /\ todo = {}
    /\ crashes = 0

----------------------------------------------------------------------------
(* The API *)

Idle == api' = "idle" /\ target' = None /\ address' = None

\* connect_peer_if_necessary: an address is tried only for a peer that is not
\* connected, and do_connect_peer succeeds at the right one
ConnectIfNecessary(p, a) ==
    \/ connected[p] # "no" /\ UNCHANGED connected
    \/ /\ connected[p] = "no" /\ a = Right
       /\ connected' = [connected EXCEPT ![p] = "out"]

\* /connectpeer
ConnectPeer(p, a) ==
    /\ api = "idle"
    /\ ConnectIfNecessary(p, a)
    /\ api' = "store" /\ target' = p /\ address' = a
    /\ UNCHANGED <<fileVars, channels, opened, taskVars, crashes>>

\* The address /openchannel uses when the client gives none: that of the connection,
\* else the one in the file
KnownAddress(p) ==
    IF connected[p] = "out" THEN Right ELSE IF connected[p] = "in" THEN Wrong ELSE file[p]

\* Mutation: the channel is created before the peer is stored
OpenChannelFirst(p, a) ==
    /\ api = "idle"
    /\ a # None
    /\ ConnectIfNecessary(p, a)
    /\ channels' = channels \cup {p} /\ opened' = opened \cup {p}
    /\ api' = "store" /\ target' = p /\ address' = a
    /\ UNCHANGED <<fileVars, taskVars, crashes>>

\* /openchannel, given an address or not
OpenChannel(p, a) ==
    /\ api = "idle"
    /\ a # None
    /\ ConnectIfNecessary(p, a)
    /\ api' = "storeToOpen" /\ target' = p /\ address' = a
    /\ UNCHANGED <<fileVars, channels, opened, taskVars, crashes>>

\* Mutation: the file is emptied to be written again
WritePeerInPlace ==
    /\ api \in {"store", "storeToOpen"}
    /\ tmp' = [file EXCEPT ![target] = address]
    /\ file' = Nobody
    /\ api' = IF api = "store" THEN "storing" ELSE "storingToOpen"
    /\ UNCHANGED <<target, address, peerVars, taskVars, crashes>>

\* persist_channel_peer: the lines of the others and the new one
WritePeer ==
    /\ api \in {"store", "storeToOpen"}
    /\ tmp' = [file EXCEPT ![target] = address]
    /\ api' = IF api = "store" THEN "storing" ELSE "storingToOpen"
    /\ UNCHANGED <<file, target, address, peerVars, taskVars, crashes>>

RenamePeer ==
    /\ api \in {"storing", "storingToOpen"}
    /\ file' = tmp
    /\ IF api = "storing"
       THEN Idle
       ELSE api' = "create" /\ UNCHANGED <<target, address>>
    /\ UNCHANGED <<tmp, peerVars, taskVars, crashes>>

\* create_channel, for a peer that is still connected; or the request is refused
CreateChannel ==
    /\ api = "create"
    /\ \/ /\ connected[target] # "no"
          /\ channels' = channels \cup {target} /\ opened' = opened \cup {target}
       \/ UNCHANGED <<channels, opened>>
    /\ Idle
    /\ UNCHANGED <<fileVars, connected, taskVars, crashes>>

\* /disconnectpeer refuses a peer the node has a channel with
DisconnectPeer(p) ==
    /\ api = "idle"
    /\ p \notin channels
    /\ api' = "delete" /\ target' = p
    /\ UNCHANGED <<fileVars, address, peerVars, taskVars, crashes>>

\* delete_channel_peer
WriteOthers ==
    /\ api = "delete"
    /\ tmp' = [file EXCEPT ![target] = None]
    /\ api' = "deleting"
    /\ UNCHANGED <<file, target, address, peerVars, taskVars, crashes>>

RenameOthers ==
    /\ api = "deleting"
    /\ file' = tmp
    /\ api' = "drop"
    /\ UNCHANGED <<tmp, target, address, peerVars, taskVars, crashes>>

\* Mutation: the request ends and its peer is kept
DropBusy ==
    /\ api = "drop"
    /\ connected' = [connected EXCEPT ![target] = "no"]
    /\ api' = "idle"
    /\ UNCHANGED <<target, address, fileVars, channels, opened, taskVars, crashes>>

\* disconnect_by_node_id, or the error that there is no such peer
Drop ==
    /\ api = "drop"
    /\ connected' = [connected EXCEPT ![target] = "no"]
    /\ Idle
    /\ UNCHANGED <<fileVars, channels, opened, taskVars, crashes>>

----------------------------------------------------------------------------
(* The task *)

\* Mutation: the file is read once, at the start
TickUnread ==
    /\ todo = {}
    /\ todo' = {p \in channels : connected[p] = "no"}
    /\ UNCHANGED <<seen, fileVars, apiVars, peerVars, crashes>>

\* read_channel_peer_data, and then the peers with channels that are not connected
Tick ==
    /\ todo = {}
    /\ seen' = file
    /\ todo' = {p \in channels : connected[p] = "no"}
    /\ UNCHANGED <<fileVars, apiVars, peerVars, crashes>>

\* do_connect_peer with the address that was read, if there was one
Reconnect(p) ==
    /\ p \in todo
    /\ todo' = todo \ {p}
    /\ connected' = IF seen[p] = Right /\ connected[p] = "no"
                    THEN [connected EXCEPT ![p] = "out"] ELSE connected
    /\ UNCHANGED <<seen, fileVars, apiVars, channels, opened, crashes>>

----------------------------------------------------------------------------
(* The others, and crashes *)

PeerConnects(p) ==
    /\ connected[p] = "no"
    /\ connected' = [connected EXCEPT ![p] = "in"]
    /\ UNCHANGED <<fileVars, apiVars, channels, opened, taskVars, crashes>>

PeerDrops(p) ==
    /\ connected[p] # "no"
    /\ connected' = [connected EXCEPT ![p] = "no"]
    /\ UNCHANGED <<fileVars, apiVars, channels, opened, taskVars, crashes>>

\* OpenChannelRequest, which accepts whoever asks and stores nothing
AcceptChannel(p) ==
    /\ connected[p] # "no"
    /\ channels' = channels \cup {p}
    /\ UNCHANGED <<fileVars, apiVars, connected, opened, taskVars, crashes>>

\* All channels with the peer are closed
ChannelsClose(p) ==
    /\ p \in channels
    /\ channels' = channels \ {p} /\ opened' = opened \ {p}
    /\ UNCHANGED <<fileVars, apiVars, connected, taskVars, crashes>>

Crash ==
    /\ crashes < MaxCrashes
    /\ crashes' = crashes + 1
    /\ Idle
    /\ connected' = [p \in Peers |-> "no"]
    /\ seen' = Nobody /\ todo' = {}
    /\ UNCHANGED <<fileVars, channels, opened>>

----------------------------------------------------------------------------
Finish == WritePeer \/ RenamePeer \/ CreateChannel \/ WriteOthers \/ RenameOthers \/ Drop

Task == Tick \/ \E p \in Peers : Reconnect(p)

Next ==
    \/ \E p \in Peers :
          \/ \E a \in Addresses : ConnectPeer(p, a)
          \/ \E a \in Addresses \cup {KnownAddress(p)} : OpenChannel(p, a)
          \/ DisconnectPeer(p)
          \/ PeerConnects(p) \/ PeerDrops(p) \/ AcceptChannel(p) \/ ChannelsClose(p)
    \/ Finish \/ Task
    \/ Crash

\* The task goes on, and so does a request that started (no_cancel)
Fairness == WF_vars(Tick) /\ (\A p \in Peers : WF_vars(Reconnect(p))) /\ WF_vars(Finish)

Spec == Init /\ [][Next]_vars /\ Fairness

----------------------------------------------------------------------------
(* Properties *)

PeerBook == INSTANCE PeerBook WITH book <- file

\* Whatever the handler was doing when the node stopped, and whatever the task
\* reads meanwhile, the file is the map before the request or the one after it.
FileIsBook == PeerBook!Spec

\* The peer of a channel this node opened is in the file: it is stored before the
\* channel is created and cannot be deleted, also by requests and crashes between.
OpenedPeerIsStored == \A p \in opened : file[p] # None

\* A peer the node has a channel with comes to be connected again after any drop or
\* crash, as long as its right address is in the file.
ChannelPeerReconnects ==
    \A p \in Peers :
        p \in channels /\ file[p] = Right
        ~> connected[p] # "no" \/ p \notin channels \/ file[p] # Right
=============================================================================
