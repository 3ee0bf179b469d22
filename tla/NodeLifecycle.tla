--------------------------- MODULE NodeLifecycle ---------------------------
(***************************************************************************)
(* How the daemon goes from locked to unlocked and back, and how every     *)
(* HTTP handler is kept off the node while it does (routes.rs, main.rs,    *)
(* the start and stop halves of ldk.rs, the mnemonic file of utils.rs).    *)
(*                                                                         *)
(* Three pieces of shared state decide everything: the boolean             *)
(* changing_state behind a std Mutex, the Option<Arc<UnlockedAppState>>    *)
(* behind a tokio Mutex (whose guard a handler keeps for its whole body),  *)
(* and the Option<LdkBackgroundServices>.  A handler is a tokio task that  *)
(* no_cancel has detached from its connection, so it always runs to its    *)
(* end.  The tasks start_ldk spawns (background processor, peer listener)  *)
(* are modelled by what stop_ldk can observe of them.                      *)
(***************************************************************************)
EXTENDS Naturals, FiniteSets

CONSTANTS
    Operators,      \* clients that send /unlock and /lock
    Users,          \* clients that send every other request, perhaps the same
    Daemon,         \* the shutdown_signal future of main
    Instances,      \* LDK instances alive at once (bound on leaked ones)
    Seeds,          \* mnemonics
    Passwords,
    StartOutcomes,  \* which ways start_ldk may end, of AllOutcomes
    Absent, Torn,   \* no mnemonic file, and one that was only partly written
    None

AllOutcomes == {"ok", "early_error", "announce_error", "panic"}

\* start_ldk panicked, start_ldk was refused late, stop_ldk panicked on a join or on
\* the peer port, and two clients changed the state at the same time
Mishaps == {"start", "announce", "join", "port", "overlap"}

OperatorOps == {"unlock", "lock"}
LockedOps == {"init", "backup", "restore", "changepassword"}
UserOps == LockedOps \cup {"api"}
Ops == OperatorOps \cup UserOps

ASSUME LifecycleAssumption ==
    /\ Daemon \notin Operators \cup Users
    /\ None \notin Operators \cup Users \cup {Daemon} \cup Instances \cup Ops
    /\ {Absent, Torn} \cap [seed : Seeds, pw : Passwords] = {}
    /\ Absent # Torn
    /\ StartOutcomes \subseteq AllOutcomes

VARIABLES
    changing,   \* AppState.changing_state
    guard,      \* holder of the tokio Mutex around unlocked_app_state
    app,        \* unlocked_app_state: the LDK instance it belongs to
    services,   \* ldk_background_services
    bp,         \* background processor of each instance
    stopping,   \* instances whose stop_processing flag is set
    port,       \* instance whose listener task owns the LDK peer port
    mnemonic,   \* the encrypted mnemonic file
    pc, op,     \* where each task is, in which handler
    inst,       \* the instance a task is starting or joining
    buf,        \* what a task is about to write to the mnemonic file
    botched,    \* what went wrong for good since the process started, of Mishaps
    firstSeed   \* history: the seed of the first mnemonic written

ldkVars == <<services, bp, stopping, port>>
fileVars == <<mnemonic, firstSeed>>
vars == <<changing, guard, app, ldkVars, fileVars, pc, op, inst, buf, botched>>

Clients == Operators \cup Users
Procs == Clients \cup {Daemon}

\* check_locked or check_unlocked: which value of the Option the handler asks for
WantsLocked(o) == o = "unlock" \/ o \in LockedOps

Files == [seed : Seeds, pw : Passwords]

\* Where a lock or an unlock that passed its check is until it is over
Changing == {"password", "start", "spawned", "publish", "services", "stop",
             "join", "port", "unpublish", "unservice", "clear"}
Labels == {"idle", "wait", "body", "keys", "write", "reject", "poll", "drain", "exited"}
          \cup Changing

TypeOK ==
    /\ changing \in BOOLEAN
    /\ guard \in Clients \cup {None}
    /\ app \in Instances \cup {None}
    /\ services \in Instances \cup {None}
    /\ bp \in [Instances -> {"off", "running", "exiting", "failed"}]
    /\ stopping \subseteq Instances
    /\ port \in Instances \cup {None}
    /\ mnemonic \in {Absent, Torn} \cup Files
    /\ pc \in [Procs -> Labels]
    /\ op \in [Procs -> Ops \cup {None}]
    /\ inst \in [Procs -> Instances \cup {None}]
    /\ buf \in [Procs -> Files \cup {None}]
    /\ botched \subseteq Mishaps
    /\ firstSeed \in Seeds \cup {None}

Init ==
    /\ changing = FALSE
    /\ guard = None
    /\ app = None
    /\ services = None
    /\ bp = [i \in Instances |-> "off"]
    /\ stopping = {}
    /\ port = None
    /\ mnemonic = Absent
    /\ pc = [p \in Procs |-> "idle"]
    /\ op = [p \in Procs |-> None]
    /\ inst = [p \in Procs |-> None]
    /\ buf = [p \in Procs |-> None]
    /\ botched = {}
    /\ firstSeed = None

Cancelled == pc[Daemon] # "idle"
Serving == pc[Daemon] \notin {"drain", "exited"}

Goto(p, l) == pc' = [pc EXCEPT ![p] = l]

\* A lock or an unlock is between its check and its end
ChangeGoesOn == \E c \in Clients : pc[c] \in Changing

\* The handler returns: its task ends and its locals go with it
Return(p) ==
    /\ Goto(p, "idle")
    /\ op' = [op EXCEPT ![p] = None]
    /\ inst' = [inst EXCEPT ![p] = None]
    /\ buf' = [buf EXCEPT ![p] = None]

----------------------------------------------------------------------------
(* Entering a handler: the flag is read first, the guard awaited after.    *)

Request(c, o) ==
    /\ pc[c] = "idle"
    /\ Serving
    /\ (c \in Operators /\ o \in OperatorOps) \/ (c \in Users /\ o \in UserOps)
    /\ ~changing
    /\ op' = [op EXCEPT ![c] = o]
    /\ Goto(c, "wait")
    /\ UNCHANGED <<changing, guard, app, ldkVars, fileVars, inst, buf, botched>>

\* check_unlocked failed on the flag inside lock (any other handler just returns)
RequestLockWhileChanging(c) ==
    /\ pc[c] = "idle"
    /\ Serving
    /\ c \in Operators
    /\ changing
    /\ op' = [op EXCEPT ![c] = "lock"]
    /\ Goto(c, "reject")
    /\ UNCHANGED <<changing, guard, app, ldkVars, fileVars, inst, buf, botched>>

Acquire(c) ==
    /\ pc[c] = "wait"
    /\ guard = None
    /\ WantsLocked(op[c]) <=> app = None
    /\ guard' = c
    /\ Goto(c, "body")
    /\ UNCHANGED <<changing, app, ldkVars, fileVars, op, inst, buf, botched>>

\* The Option is not what the handler wants: Err, and the guard is dropped
AcquireRefused(c) ==
    /\ pc[c] = "wait"
    /\ guard = None
    /\ ~(WantsLocked(op[c]) <=> app = None)
    /\ IF op[c] = "lock"
       THEN Goto(c, "reject") /\ UNCHANGED <<op, inst, buf>>
       ELSE Return(c)
    /\ UNCHANGED <<changing, guard, app, ldkVars, fileVars, botched>>

\* The Err arm of lock: update_changing_state(false), whatever the error was
RejectLock(c) ==
    /\ pc[c] = "reject"
    /\ changing' = FALSE
    /\ Return(c)
    /\ UNCHANGED <<guard, app, ldkVars, fileVars, botched>>

----------------------------------------------------------------------------
(* Handlers that keep the guard for their whole body.                      *)

\* Ends an api or backup call, or an init, restore or changepassword that
\* was refused (weak or wrong password, already initialized, bad backup)
FinishBody(c) ==
    /\ pc[c] = "body"
    /\ op[c] \in LockedOps \cup {"api"}
    /\ guard' = None
    /\ Return(c)
    /\ UNCHANGED <<changing, app, ldkVars, fileVars, botched>>

\* check_already_initialized, then a fresh seed or the one of the backup
NewMnemonic(c) ==
    /\ op[c] \in {"init", "restore"}
    /\ mnemonic = Absent
    /\ \E f \in Files : buf' = [buf EXCEPT ![c] = f]

\* check_password_validity decrypts what the new password will encrypt
\* Mutation: nothing is prepared, whatever the buffer holds is written
ReencryptNothing(c) ==
    /\ op[c] = "changepassword"
    /\ mnemonic \in Files
    /\ UNCHANGED buf

ReencryptMnemonic(c) ==
    /\ op[c] = "changepassword"
    /\ mnemonic \in Files
    /\ \E p \in Passwords : buf' = [buf EXCEPT ![c] = [mnemonic EXCEPT !.pw = p]]

\* Mutation: the guard is dropped before the keys are generated and saved
PrepareMnemonicUnguarded(c) ==
    /\ pc[c] = "body"
    /\ NewMnemonic(c) \/ ReencryptMnemonic(c)
    /\ Goto(c, "keys")
    /\ guard' = None
    /\ UNCHANGED <<changing, app, ldkVars, fileVars, op, inst, botched>>

PrepareMnemonic(c) ==
    /\ pc[c] = "body"
    /\ NewMnemonic(c) \/ ReencryptMnemonic(c)
    /\ Goto(c, "keys")
    /\ UNCHANGED <<changing, guard, app, ldkVars, fileVars, op, inst, botched>>

\* fs::write truncates the file ...
TruncateMnemonic(c) ==
    /\ pc[c] = "keys"
    /\ mnemonic' = Torn
    /\ Goto(c, "write")
    /\ UNCHANGED <<changing, guard, app, ldkVars, firstSeed, op, inst, buf, botched>>

\* ... and then fills it; the handler returns and drops the guard
WriteMnemonic(c) ==
    /\ pc[c] = "write"
    /\ mnemonic' = buf[c]
    /\ firstSeed' = IF firstSeed = None THEN buf[c].seed ELSE firstSeed
    /\ guard' = None
    /\ Return(c)
    /\ UNCHANGED <<changing, app, ldkVars, botched>>

\* FailedKeysCreation: the file could not be opened, or not be filled
SaveFails(c) ==
    /\ pc[c] \in {"keys", "write"}
    /\ guard' = None
    /\ Return(c)
    /\ UNCHANGED <<changing, app, ldkVars, fileVars, botched>>

----------------------------------------------------------------------------
(* unlock *)

\* Both lock and unlock set the flag and drop the guard, in this order.  The flag was
\* read before the guard was awaited, and a refused lock clears it: the change of
\* another client may be going on
BeginChange(c) ==
    /\ pc[c] = "body"
    /\ op[c] \in OperatorOps
    /\ changing' = TRUE
    /\ guard' = None
    /\ Goto(c, IF op[c] = "unlock" THEN "password" ELSE "stop")
    /\ botched' = IF ChangeGoesOn THEN botched \cup {"overlap"} ELSE botched
    /\ UNCHANGED <<app, ldkVars, fileVars, op, inst, buf>>

PasswordOk(c) ==
    /\ pc[c] = "password"
    /\ mnemonic \in Files
    /\ Goto(c, "start")
    /\ UNCHANGED <<changing, guard, app, ldkVars, fileVars, op, inst, buf, botched>>

\* Mutation: the error paths forget update_changing_state(false)
UnlockFailsKeepingFlag(c) ==
    /\ \/ pc[c] = "password"
       \/ pc[c] = "start" /\ "early_error" \in StartOutcomes
    /\ Return(c)
    /\ UNCHANGED <<changing, guard, app, ldkVars, fileVars, botched>>

\* NotInitialized, WrongPassword (also what a half-written file gives), or an
\* error of start_ldk before it spawns anything
UnlockFails(c) ==
    /\ \/ pc[c] = "password"
       \/ pc[c] = "start" /\ "early_error" \in StartOutcomes
    /\ changing' = FALSE
    /\ Return(c)
    /\ UNCHANGED <<guard, app, ldkVars, fileVars, botched>>

\* One of the unwraps and expects of start_ldk; nothing resets the flag
StartPanics(c) ==
    /\ pc[c] = "start"
    /\ "panic" \in StartOutcomes
    /\ botched' = botched \cup {"start"}
    /\ Return(c)
    /\ UNCHANGED <<changing, guard, app, ldkVars, fileVars>>

Free(i) ==
    /\ bp[i] = "off"
    /\ i \notin {port, app, services}
    /\ \A p \in Procs : inst[p] # i

\* The listener task dies on its expect when the port is taken; start_ldk does
\* not notice
StartSpawn(c, i) ==
    /\ pc[c] = "start"
    /\ Free(i)
    /\ bp' = [bp EXCEPT ![i] = "running"]
    /\ stopping' = stopping \ {i}
    /\ port' = IF port = None THEN i ELSE port
    /\ inst' = [inst EXCEPT ![c] = i]
    /\ Goto(c, "spawned")
    /\ UNCHANGED <<changing, guard, app, services, fileVars, op, buf, botched>>

StartSucceeds(c) ==
    /\ pc[c] = "spawned"
    /\ "ok" \in StartOutcomes
    /\ Goto(c, "publish")
    /\ UNCHANGED <<changing, guard, app, ldkVars, fileVars, op, inst, buf, botched>>

\* announce_addresses and announce_alias are only validated here: dropping
\* bp_exit makes the background processor exit on its own, nobody awaits it, and
\* stop_processing stays false
AnnounceRejected(c) ==
    /\ pc[c] = "spawned"
    /\ "announce_error" \in StartOutcomes
    /\ bp' = [bp EXCEPT ![inst[c]] = IF @ = "running" THEN "exiting" ELSE @]
    /\ changing' = FALSE
    /\ botched' = botched \cup {"announce"}
    /\ Return(c)
    /\ UNCHANGED <<guard, app, services, stopping, port, fileVars>>

\* Mutation: the Option is assigned without waiting for the guard
PublishUnguarded(c) ==
    /\ \/ pc[c] = "publish" /\ app' = inst[c] /\ Goto(c, "services")
       \/ pc[c] = "unpublish" /\ app' = None /\ Goto(c, "unservice")
    /\ UNCHANGED <<changing, guard, ldkVars, fileVars, op, inst, buf, botched>>

\* update_unlocked_app_state takes the guard for the assignment only
Publish(c) ==
    /\ guard = None
    /\ \/ pc[c] = "publish" /\ app' = inst[c] /\ Goto(c, "services")
       \/ pc[c] = "unpublish" /\ app' = None /\ Goto(c, "unservice")
    /\ UNCHANGED <<changing, guard, ldkVars, fileVars, op, inst, buf, botched>>

\* Mutation: lock leaves ldk_background_services as it was
SetServicesOnUnlockOnly(c) ==
    /\ \/ pc[c] = "services" /\ services' = inst[c]
       \/ pc[c] = "unservice" /\ UNCHANGED services
    /\ Goto(c, "clear")
    /\ UNCHANGED <<changing, guard, app, bp, stopping, port, fileVars, op, inst, buf,
                   botched>>

SetServices(c) ==
    /\ \/ pc[c] = "services" /\ services' = inst[c]
       \/ pc[c] = "unservice" /\ services' = None
    /\ Goto(c, "clear")
    /\ UNCHANGED <<changing, guard, app, bp, stopping, port, fileVars, op, inst, buf, botched>>

EndChange(c) ==
    /\ pc[c] = "clear"
    /\ changing' = FALSE
    /\ Return(c)
    /\ UNCHANGED <<guard, app, ldkVars, fileVars, botched>>

----------------------------------------------------------------------------
(* stop_ldk, called by lock and by the shutdown future.                    *)

\* Mutation: stop_processing is not set
StopSignalListenerKept(p) ==
    /\ pc[p] = "stop"
    /\ IF services # None /\ bp[services] = "running"
       THEN /\ bp' = [bp EXCEPT ![services] = "exiting"]
            /\ inst' = [inst EXCEPT ![p] = services]
            /\ Goto(p, "join")
       ELSE Goto(p, "port") /\ UNCHANGED <<bp, inst>>
    /\ UNCHANGED <<changing, guard, app, services, stopping, port, fileVars, op, buf, botched>>

\* Mutation: the join handle is awaited but bp_exit is never sent
StopSignalNotSent(p) ==
    /\ pc[p] = "stop"
    /\ IF services = None
       THEN Goto(p, "port") /\ UNCHANGED <<stopping, inst>>
       ELSE /\ stopping' = stopping \cup {services}
            /\ inst' = [inst EXCEPT ![p] = services]
            /\ Goto(p, "join")
    /\ UNCHANGED <<changing, guard, app, services, bp, port, fileVars, op, buf, botched>>

\* Only the first caller finds the join handle to await
StopSignal(p) ==
    /\ pc[p] = "stop"
    /\ IF services = None THEN UNCHANGED <<bp, stopping>>
       ELSE /\ stopping' = stopping \cup {services}
            /\ bp' = [bp EXCEPT ![services] = IF @ = "running" THEN "exiting" ELSE @]
    /\ IF services # None /\ bp[services] = "running"
       THEN inst' = [inst EXCEPT ![p] = services] /\ Goto(p, "join")
       ELSE Goto(p, "port") /\ UNCHANGED inst
    /\ UNCHANGED <<changing, guard, app, services, port, fileVars, op, buf, botched>>

\* Mutation: stop_ldk does not await the background processor
JoinNothing(p) ==
    /\ pc[p] = "join"
    /\ Goto(p, "port")
    /\ inst' = [inst EXCEPT ![p] = None]
    /\ UNCHANGED <<changing, guard, app, ldkVars, fileVars, op, buf, botched>>

Join(p) ==
    /\ pc[p] = "join"
    /\ bp[inst[p]] = "off"
    /\ Goto(p, "port")
    /\ inst' = [inst EXCEPT ![p] = None]
    /\ UNCHANGED <<changing, guard, app, ldkVars, fileVars, op, buf, botched>>

\* join_handle.await.unwrap(): the background processor panicked, or failed its
\* last persist, after it was told to stop; lock panics with the flag set
JoinPanics(p) ==
    /\ pc[p] = "join"
    /\ bp[inst[p]] = "failed"
    /\ bp' = [bp EXCEPT ![inst[p]] = "off"]
    /\ botched' = botched \cup {"join"}
    /\ IF p = Daemon
       THEN Goto(p, "exited") /\ inst' = [inst EXCEPT ![p] = None] /\ UNCHANGED <<op, buf>>
       ELSE Return(p)
    /\ UNCHANGED <<changing, guard, app, services, stopping, port, fileVars>>

PortReleased(p) ==
    /\ pc[p] = "port"
    /\ port = None
    /\ Goto(p, IF p = Daemon THEN "drain" ELSE "unpublish")
    /\ UNCHANGED <<changing, guard, app, ldkVars, fileVars, op, inst, buf, botched>>

PortHeld(p) == pc[p] = "port" /\ port # None /\ port \notin stopping

\* After ten seconds: panic!("LDK peer port not being released"); the owner of
\* the port was never told to stop
PortNotReleased(p) ==
    /\ PortHeld(p)
    /\ botched' = botched \cup {"port"}
    /\ IF p = Daemon
       THEN Goto(p, "exited") /\ UNCHANGED <<op, inst, buf>>
       ELSE Return(p)
    /\ UNCHANGED <<changing, guard, app, ldkVars, fileVars>>

\* The background processor sees bp_exit and finishes its last persist
BackgroundExit(i) ==
    /\ bp[i] = "exiting"
    /\ bp' = [bp EXCEPT ![i] = "off"]
    /\ UNCHANGED <<changing, guard, app, services, stopping, port, fileVars, pc, op,
                   inst, buf, botched>>

\* A panic of the event handler ends the task: stop_ldk then finds bp_exit closed,
\* or the join handle it awaits already gives an error
BackgroundPanic(i) ==
    /\ bp[i] \in {"running", "exiting"}
    /\ bp' = [bp EXCEPT ![i] =
                 IF \E p \in Procs : pc[p] = "join" /\ inst[p] = i THEN "failed" ELSE "off"]
    /\ UNCHANGED <<changing, guard, app, services, stopping, port, fileVars, pc, op,
                   inst, buf, botched>>

\* accept returns (stop_ldk connects to the port itself) and the flag is set
ListenerExit(i) ==
    /\ port = i
    /\ i \in stopping
    /\ port' = None
    /\ UNCHANGED <<changing, guard, app, services, bp, stopping, fileVars, pc, op,
                   inst, buf, botched>>

----------------------------------------------------------------------------
(* Shutdown, crash and restart.                                            *)

\* ctrl-c and SIGTERM at any time; /shutdown only when the flag is clear, and
\* its get_unlocked_app_state() is not awaited, so no guard is involved
Cancel ==
    /\ pc[Daemon] = "idle"
    /\ Goto(Daemon, "poll")
    /\ UNCHANGED <<changing, guard, app, ldkVars, fileVars, op, inst, buf, botched>>

\* shutdown_signal retries every 300 ms until it is the one that sets the flag
WaitStateChange ==
    /\ pc[Daemon] = "poll"
    /\ ~changing
    /\ changing' = TRUE
    /\ Goto(Daemon, "stop")
    /\ UNCHANGED <<guard, app, ldkVars, fileVars, op, inst, buf, botched>>

\* axum's graceful shutdown: no new request, the running ones finish
Exit ==
    /\ pc[Daemon] = "drain"
    /\ \A c \in Clients : pc[c] = "idle"
    /\ Goto(Daemon, "exited")
    /\ UNCHANGED <<changing, guard, app, ldkVars, fileVars, op, inst, buf, botched>>

\* The process ends, cleanly or not, and is started again: only the file is left
Restart ==
    /\ changing' = FALSE
    /\ guard' = None
    /\ app' = None
    /\ services' = None
    /\ bp' = [i \in Instances |-> "off"]
    /\ stopping' = {}
    /\ port' = None
    /\ pc' = [p \in Procs |-> "idle"]
    /\ op' = [p \in Procs |-> None]
    /\ inst' = [p \in Procs |-> None]
    /\ buf' = [p \in Procs |-> None]
    /\ botched' = {}
    /\ UNCHANGED fileVars

----------------------------------------------------------------------------
Unlock(c) ==
    \/ PasswordOk(c) \/ UnlockFails(c) \/ StartPanics(c) \/ StartSucceeds(c)
    \/ AnnounceRejected(c) \/ \E i \in Instances : StartSpawn(c, i)

Enter(c) == Acquire(c) \/ AcquireRefused(c)

HandlerStep(c) ==
    \/ RejectLock(c) \/ FinishBody(c) \/ PrepareMnemonic(c) \/ TruncateMnemonic(c)
    \/ WriteMnemonic(c) \/ SaveFails(c)
    \/ BeginChange(c) \/ Unlock(c) \/ SetServices(c) \/ EndChange(c)

StopLdk(p) ==
    \/ StopSignal(p) \/ Join(p) \/ JoinPanics(p) \/ PortReleased(p) \/ PortNotReleased(p)

ClientNext(c) ==
    \/ \E o \in Ops : Request(c, o)
    \/ RequestLockWhileChanging(c)
    \/ Enter(c) \/ HandlerStep(c) \/ Publish(c)

BackgroundNext(i) == BackgroundExit(i) \/ BackgroundPanic(i) \/ ListenerExit(i)

Next ==
    \/ \E c \in Clients : ClientNext(c)
    \/ \E p \in Procs : StopLdk(p)
    \/ \E i \in Instances : BackgroundNext(i)
    \/ Cancel \/ WaitStateChange \/ Exit \/ Restart

\* What a task does once its request came in
Task(c) == Enter(c) \/ HandlerStep(c) \/ Publish(c) \/ StopLdk(c)

\* Tasks that can run do run; a tokio Mutex is FIFO, so a task that waits for
\* the guard gets it although others keep asking; the loop at the end of stop_ldk
\* polls the port and gives up after ten seconds, so it ends even if the port is
\* taken again and again.  Clients, signals, panics and crashes are not fair.
Fairness ==
    /\ \A c \in Clients : SF_vars(Task(c))
    /\ SF_vars(StopLdk(Daemon)) /\ WF_vars(WaitStateChange \/ Exit)
    /\ \A i \in Instances : WF_vars(BackgroundExit(i)) /\ WF_vars(ListenerExit(i))

Spec == Init /\ [][Next]_vars /\ Fairness

----------------------------------------------------------------------------
(* Properties *)

InBody(c) == pc[c] \in {"body", "keys", "write"}

\* What check_locked or check_unlocked found stays true while the handler runs:
\* its unwrap of the Option never meets a node that was locked in the meantime,
\* and no unlock completes under a handler that needs the node locked.
GuardedView ==
    \A c \in Clients : InBody(c) => guard = c /\ (WantsLocked(op[c]) <=> app = None)

\* init and restore never replace the keys of a node that has some, and
\* changepassword keeps them, whatever requests and crashes come in between
\* (check_already_initialized and the write are under one guard).
SeedKept == mnemonic \in Files => mnemonic.seed = firstSeed

\* Until a shutdown is requested, and as long as no two changes overlapped, no two
\* background processors run at the same time on the same channel data: lock returns
\* only after the old one has persisted and ended.  (After an unlock that was refused
\* late the old one may still be exiting when the next unlock starts another.)
OneNode ==
    ~Cancelled /\ {"announce", "overlap"} \cap botched = {} =>
        Cardinality({i \in Instances : bp[i] \in {"running", "exiting"}}) <= 1

\* Between two changes the three pieces of state agree, whoever made the changes, as
\* long as none overlapped: an unlocked node has its own services, a locked one has
\* none, and no background processor runs that nobody owns.  The peer port goes with
\* them, unless an unlock that was refused late left its listener behind or a lock
\* died halfway.
SettledStateAgrees ==
    ~ChangeGoesOn /\ ~Cancelled /\ "overlap" \notin botched =>
        /\ app = services
        /\ \A i \in Instances : bp[i] = "running" => i = app
        /\ {"announce", "join"} \cap botched = {} =>
              port = app /\ \A i \in Instances : bp[i] = "exiting" => i = app

\* The ways a change may be left unfinished.  With the flag set: start_ldk panics,
\* stop_ldk panics because the background processor died, or because the peer port is
\* not released, and its owner was started by an unlock that was refused for its
\* announce parameters.  Or two changes overlapped.
DiedHalfway ==
    \/ {"start", "join", "overlap"} \cap botched # {}
    \/ {"announce", "port"} \subseteq botched

\* Every change of state ends (or the process does): a wrong password, an unlock that
\* start_ldk refuses early or late, and a completed lock all clear the flag.
ChangeEnds == changing ~> (~changing \/ Cancelled \/ DiedHalfway)

\* A lock that started stopping LDK does lock the node, unless stop_ldk panics in it:
\* the background processor it awaits died, or the listener of an unlock that was
\* refused for its announce parameters still owns the peer port.
LockTakesEffect ==
    \A c \in Operators :
        pc[c] = "stop" ~>
            (app = None /\ services = None) \/ Cancelled \/ DiedHalfway

\* Once shutdown_signal has won the flag the process does end.
ShutdownCompletes == pc[Daemon] = "stop" ~> pc[Daemon] \in {"exited", "idle"}

(* Statements of the repository that the code does not keep. *)

\* error.rs: "Cannot call other APIs while node is changing state"
NoCallDuringChange ==
    ~\E c, d \in Clients : pc[c] \in Changing /\ InBody(d)

\* The flag that makes the other handlers answer ChangingState is set for as
\* long as a lock or an unlock is going on.
FlagCoversChange == ChangeGoesOn => changing

\* stop_ldk: panic!("LDK peer port not being released") is not reached by a lock
\* that no shutdown disturbs.
PortAlwaysReleased == ~Cancelled => \A c \in Operators : ~PortHeld(c)
=============================================================================
