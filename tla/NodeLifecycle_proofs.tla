------------------------ MODULE NodeLifecycle_proofs ------------------------
(***************************************************************************)
(* For any number of clients, instances, seeds and passwords, and for every *)
(* outcome of start_ldk: a handler's view of the locked/unlocked state      *)
(* cannot change under it, and the keys of an initialised node are never    *)
(* replaced.  Both rest on one inductive invariant, IInv.                   *)
(***************************************************************************)
EXTENDS NodeLifecycle, TLAPS, FiniteSetTheorems

\* What a task is about to write is a whole mnemonic file
BufferReady == \A c \in Clients : pc[c] \in {"keys", "write"} => buf[c] \in Files

\* ... and carries the node's seed once there is one, for which a changed
\* password is not enough: a file that is absent has never been written
SeedCarried ==
    /\ mnemonic = Absent => firstSeed = None
    /\ \A c \in Clients :
          pc[c] \in {"keys", "write"} /\ firstSeed # None => buf[c].seed = firstSeed

IInv == TypeOK /\ GuardedView /\ BufferReady /\ SeedCarried /\ SeedKept

\* Every step keeps the types; WriteMnemonic needs the buffer to be filled
LEMMA TypeStep == TypeOK /\ BufferReady /\ [Next]_vars => TypeOK'
<1> SUFFICES ASSUME TypeOK /\ BufferReady, [Next]_vars
             PROVE  TypeOK'
    OBVIOUS
<1> USE LifecycleAssumption DEF ldkVars, fileVars, Procs, Clients, Goto,
            Return, TypeOK, BufferReady, Mishaps, OperatorOps, LockedOps, UserOps, Ops,
            Labels, Changing, Files
<1>1. ASSUME NEW c \in Clients, RejectLock(c) PROVE TypeOK'
    BY <1>1 DEF RejectLock
<1>2. ASSUME NEW c \in Clients, FinishBody(c) PROVE TypeOK'
    BY <1>2 DEF FinishBody
<1>3. ASSUME NEW c \in Clients, PrepareMnemonic(c) PROVE TypeOK'
    BY <1>3 DEF PrepareMnemonic, NewMnemonic, ReencryptMnemonic
<1>4. ASSUME NEW c \in Clients, TruncateMnemonic(c) PROVE TypeOK'
    BY <1>4 DEF TruncateMnemonic
<1>5. ASSUME NEW c \in Clients, WriteMnemonic(c) PROVE TypeOK'
    BY <1>5 DEF WriteMnemonic
<1>6. ASSUME NEW c \in Clients, SaveFails(c) PROVE TypeOK'
    BY <1>6 DEF SaveFails
<1>7. ASSUME NEW c \in Clients, BeginChange(c) PROVE TypeOK'
    BY <1>7 DEF BeginChange
<1>8. ASSUME NEW c \in Clients, PasswordOk(c) PROVE TypeOK'
    BY <1>8 DEF PasswordOk
<1>9. ASSUME NEW c \in Clients, UnlockFails(c) PROVE TypeOK'
    BY <1>9 DEF UnlockFails
<1>10. ASSUME NEW c \in Clients, StartPanics(c) PROVE TypeOK'
    BY <1>10 DEF StartPanics
<1>11. ASSUME NEW c \in Clients, StartSucceeds(c) PROVE TypeOK'
    BY <1>11 DEF StartSucceeds
<1>12. ASSUME NEW c \in Clients, AnnounceRejected(c) PROVE TypeOK'
    BY <1>12 DEF AnnounceRejected
<1>13. ASSUME NEW c \in Clients, SetServices(c) PROVE TypeOK'
    BY <1>13 DEF SetServices
<1>14. ASSUME NEW c \in Clients, EndChange(c) PROVE TypeOK'
    BY <1>14 DEF EndChange
<1>15. ASSUME NEW c \in Clients, RequestLockWhileChanging(c) PROVE TypeOK'
    BY <1>15 DEF RequestLockWhileChanging
<1>16. ASSUME NEW c \in Clients, Acquire(c) PROVE TypeOK'
    BY <1>16 DEF Acquire
<1>17. ASSUME NEW c \in Clients, AcquireRefused(c) PROVE TypeOK'
    BY <1>17 DEF AcquireRefused
<1>18. ASSUME NEW c \in Clients, Publish(c) PROVE TypeOK'
    BY <1>18 DEF Publish
<1>19. ASSUME NEW c \in Clients, NEW o \in Ops, Request(c, o) PROVE TypeOK'
    BY <1>19 DEF Request
<1>20. ASSUME NEW c \in Clients, NEW i \in Instances, StartSpawn(c, i) PROVE TypeOK'
    BY <1>20 DEF StartSpawn
<1>21. ASSUME NEW p \in Procs, StopSignal(p) PROVE TypeOK'
    BY <1>21 DEF StopSignal
<1>22. ASSUME NEW p \in Procs, Join(p) PROVE TypeOK'
    BY <1>22 DEF Join
<1>23. ASSUME NEW p \in Procs, PortReleased(p) PROVE TypeOK'
    BY <1>23 DEF PortReleased
<1>24. ASSUME NEW p \in Procs, PortNotReleased(p) PROVE TypeOK'
    BY <1>24 DEF PortNotReleased
<1>25. ASSUME NEW p \in Procs, JoinPanics(p) PROVE TypeOK'
    <2>1. bp' \in [Instances -> {"off", "running", "exiting", "failed"}]
        BY <1>25 DEF JoinPanics
    <2>2. pc' \in [Procs -> Labels] /\ op' \in [Procs -> Ops \cup {None}]
        BY <1>25 DEF JoinPanics
    <2>3. inst' \in [Procs -> Instances \cup {None}] /\ buf' \in [Procs -> Files \cup {None}]
        BY <1>25 DEF JoinPanics
    <2>4. botched' \subseteq Mishaps
        BY <1>25 DEF JoinPanics
    <2>5. QED
        BY <1>25, <2>1, <2>2, <2>3, <2>4 DEF JoinPanics
<1>26. ASSUME NEW i \in Instances, BackgroundExit(i) PROVE TypeOK'
    BY <1>26 DEF BackgroundExit
<1>27. ASSUME NEW i \in Instances, BackgroundPanic(i) PROVE TypeOK'
    BY <1>27 DEF BackgroundPanic
<1>28. ASSUME NEW i \in Instances, ListenerExit(i) PROVE TypeOK'
    BY <1>28 DEF ListenerExit
<1>29. CASE Cancel
    BY <1>29 DEF Cancel
<1>30. CASE WaitStateChange
    BY <1>30 DEF WaitStateChange
<1>31. CASE Exit
    BY <1>31 DEF Exit
<1>32. CASE Restart
    BY <1>32 DEF Restart
<1>33. CASE UNCHANGED vars
    BY <1>33 DEF vars
<1>34. QED
    BY <1>1, <1>2, <1>3, <1>4, <1>5, <1>6, <1>7, <1>8, <1>9, <1>10, <1>11,
       <1>12, <1>13, <1>14, <1>15, <1>16, <1>17, <1>18, <1>19, <1>20,
       <1>21, <1>22, <1>23, <1>24, <1>25, <1>26, <1>27, <1>28, <1>29,
       <1>30, <1>31, <1>32, <1>33
    DEF Next, ClientNext, Enter, HandlerStep, Unlock, StopLdk, BackgroundNext

\* The guard is taken only when it is free, and dropped only by the task that holds it
LEMMA GuardStep == TypeOK /\ GuardedView /\ [Next]_vars => GuardedView'
<1> SUFFICES ASSUME TypeOK /\ GuardedView, [Next]_vars
             PROVE  GuardedView'
    OBVIOUS
<1> USE LifecycleAssumption DEF ldkVars, fileVars, Procs, Clients, Goto, Return, TypeOK,
                                GuardedView, InBody, WantsLocked, OperatorOps, LockedOps,
                                UserOps, Ops
<1>1. ASSUME NEW c \in Clients, RejectLock(c) PROVE GuardedView'
    BY <1>1 DEF RejectLock
<1>2. ASSUME NEW c \in Clients, FinishBody(c) PROVE GuardedView'
    BY <1>2 DEF FinishBody
<1>3. ASSUME NEW c \in Clients, PrepareMnemonic(c) PROVE GuardedView'
    BY <1>3 DEF PrepareMnemonic, NewMnemonic, ReencryptMnemonic
<1>4. ASSUME NEW c \in Clients, TruncateMnemonic(c) PROVE GuardedView'
    BY <1>4 DEF TruncateMnemonic
<1>5. ASSUME NEW c \in Clients, WriteMnemonic(c) PROVE GuardedView'
    BY <1>5 DEF WriteMnemonic
<1>6. ASSUME NEW c \in Clients, SaveFails(c) PROVE GuardedView'
    BY <1>6 DEF SaveFails
<1>7. ASSUME NEW c \in Clients, BeginChange(c) PROVE GuardedView'
    BY <1>7 DEF BeginChange
<1>8. ASSUME NEW c \in Clients, PasswordOk(c) PROVE GuardedView'
    BY <1>8 DEF PasswordOk
<1>9. ASSUME NEW c \in Clients, UnlockFails(c) PROVE GuardedView'
    BY <1>9 DEF UnlockFails
<1>10. ASSUME NEW c \in Clients, StartPanics(c) PROVE GuardedView'
    BY <1>10 DEF StartPanics
<1>11. ASSUME NEW c \in Clients, StartSucceeds(c) PROVE GuardedView'
    BY <1>11 DEF StartSucceeds
<1>12. ASSUME NEW c \in Clients, AnnounceRejected(c) PROVE GuardedView'
    BY <1>12 DEF AnnounceRejected
<1>13. ASSUME NEW c \in Clients, SetServices(c) PROVE GuardedView'
    BY <1>13 DEF SetServices
<1>14. ASSUME NEW c \in Clients, EndChange(c) PROVE GuardedView'
    BY <1>14 DEF EndChange
<1>15. ASSUME NEW c \in Clients, RequestLockWhileChanging(c) PROVE GuardedView'
    BY <1>15 DEF RequestLockWhileChanging
<1>16. ASSUME NEW c \in Clients, Acquire(c) PROVE GuardedView'
    BY <1>16 DEF Acquire
<1>17. ASSUME NEW c \in Clients, AcquireRefused(c) PROVE GuardedView'
    BY <1>17 DEF AcquireRefused
<1>18. ASSUME NEW c \in Clients, Publish(c) PROVE GuardedView'
    BY <1>18 DEF Publish
<1>19. ASSUME NEW c \in Clients, NEW o \in Ops, Request(c, o) PROVE GuardedView'
    BY <1>19 DEF Request
<1>20. ASSUME NEW c \in Clients, NEW i \in Instances, StartSpawn(c, i) PROVE GuardedView'
    BY <1>20 DEF StartSpawn
<1>21. ASSUME NEW p \in Procs, StopSignal(p) PROVE GuardedView'
    BY <1>21 DEF StopSignal
<1>22. ASSUME NEW p \in Procs, Join(p) PROVE GuardedView'
    BY <1>22 DEF Join
<1>23. ASSUME NEW p \in Procs, PortReleased(p) PROVE GuardedView'
    BY <1>23 DEF PortReleased
<1>24. ASSUME NEW p \in Procs, PortNotReleased(p) PROVE GuardedView'
    BY <1>24 DEF PortNotReleased
<1>25. ASSUME NEW p \in Procs, JoinPanics(p) PROVE GuardedView'
    BY <1>25 DEF JoinPanics
<1>26. ASSUME NEW i \in Instances, BackgroundExit(i) PROVE GuardedView'
    BY <1>26 DEF BackgroundExit
<1>27. ASSUME NEW i \in Instances, BackgroundPanic(i) PROVE GuardedView'
    BY <1>27 DEF BackgroundPanic
<1>28. ASSUME NEW i \in Instances, ListenerExit(i) PROVE GuardedView'
    BY <1>28 DEF ListenerExit
<1>29. CASE Cancel
    BY <1>29 DEF Cancel
<1>30. CASE WaitStateChange
    BY <1>30 DEF WaitStateChange
<1>31. CASE Exit
    BY <1>31 DEF Exit
<1>32. CASE Restart
    BY <1>32 DEF Restart
<1>33. CASE UNCHANGED vars
    BY <1>33 DEF vars
<1>34. QED
    BY <1>1, <1>2, <1>3, <1>4, <1>5, <1>6, <1>7, <1>8, <1>9, <1>10, <1>11,
       <1>12, <1>13, <1>14, <1>15, <1>16, <1>17, <1>18, <1>19, <1>20,
       <1>21, <1>22, <1>23, <1>24, <1>25, <1>26, <1>27, <1>28, <1>29,
       <1>30, <1>31, <1>32, <1>33
    DEF Next, ClientNext, Enter, HandlerStep, Unlock, StopLdk, BackgroundNext

\* The buffer of a task that is about to write is its own
LEMMA BufferStep == TypeOK /\ BufferReady /\ [Next]_vars => BufferReady'
<1> SUFFICES ASSUME TypeOK /\ BufferReady, [Next]_vars
             PROVE  BufferReady'
    OBVIOUS
<1> USE LifecycleAssumption DEF ldkVars, fileVars, Procs, Clients, Goto, Return, TypeOK,
                                BufferReady, Files
<1>1. ASSUME NEW c \in Clients, RejectLock(c) PROVE BufferReady'
    BY <1>1 DEF RejectLock
<1>2. ASSUME NEW c \in Clients, FinishBody(c) PROVE BufferReady'
    BY <1>2 DEF FinishBody
<1>3. ASSUME NEW c \in Clients, PrepareMnemonic(c) PROVE BufferReady'
    BY <1>3 DEF PrepareMnemonic, NewMnemonic, ReencryptMnemonic
<1>4. ASSUME NEW c \in Clients, TruncateMnemonic(c) PROVE BufferReady'
    BY <1>4 DEF TruncateMnemonic
<1>5. ASSUME NEW c \in Clients, WriteMnemonic(c) PROVE BufferReady'
    BY <1>5 DEF WriteMnemonic
<1>6. ASSUME NEW c \in Clients, SaveFails(c) PROVE BufferReady'
    BY <1>6 DEF SaveFails
<1>7. ASSUME NEW c \in Clients, BeginChange(c) PROVE BufferReady'
    BY <1>7 DEF BeginChange
<1>8. ASSUME NEW c \in Clients, PasswordOk(c) PROVE BufferReady'
    BY <1>8 DEF PasswordOk
<1>9. ASSUME NEW c \in Clients, UnlockFails(c) PROVE BufferReady'
    BY <1>9 DEF UnlockFails
<1>10. ASSUME NEW c \in Clients, StartPanics(c) PROVE BufferReady'
    BY <1>10 DEF StartPanics
<1>11. ASSUME NEW c \in Clients, StartSucceeds(c) PROVE BufferReady'
    BY <1>11 DEF StartSucceeds
<1>12. ASSUME NEW c \in Clients, AnnounceRejected(c) PROVE BufferReady'
    BY <1>12 DEF AnnounceRejected
<1>13. ASSUME NEW c \in Clients, SetServices(c) PROVE BufferReady'
    BY <1>13 DEF SetServices
<1>14. ASSUME NEW c \in Clients, EndChange(c) PROVE BufferReady'
    BY <1>14 DEF EndChange
<1>15. ASSUME NEW c \in Clients, RequestLockWhileChanging(c) PROVE BufferReady'
    BY <1>15 DEF RequestLockWhileChanging
<1>16. ASSUME NEW c \in Clients, Acquire(c) PROVE BufferReady'
    BY <1>16 DEF Acquire
<1>17. ASSUME NEW c \in Clients, AcquireRefused(c) PROVE BufferReady'
    BY <1>17 DEF AcquireRefused
<1>18. ASSUME NEW c \in Clients, Publish(c) PROVE BufferReady'
    BY <1>18 DEF Publish
<1>19. ASSUME NEW c \in Clients, NEW o \in Ops, Request(c, o) PROVE BufferReady'
    BY <1>19 DEF Request
<1>20. ASSUME NEW c \in Clients, NEW i \in Instances, StartSpawn(c, i) PROVE BufferReady'
    BY <1>20 DEF StartSpawn
<1>21. ASSUME NEW p \in Procs, StopSignal(p) PROVE BufferReady'
    BY <1>21 DEF StopSignal
<1>22. ASSUME NEW p \in Procs, Join(p) PROVE BufferReady'
    BY <1>22 DEF Join
<1>23. ASSUME NEW p \in Procs, PortReleased(p) PROVE BufferReady'
    BY <1>23 DEF PortReleased
<1>24. ASSUME NEW p \in Procs, PortNotReleased(p) PROVE BufferReady'
    BY <1>24 DEF PortNotReleased
<1>25. ASSUME NEW p \in Procs, JoinPanics(p) PROVE BufferReady'
    BY <1>25 DEF JoinPanics
<1>26. ASSUME NEW i \in Instances, BackgroundExit(i) PROVE BufferReady'
    BY <1>26 DEF BackgroundExit
<1>27. ASSUME NEW i \in Instances, BackgroundPanic(i) PROVE BufferReady'
    BY <1>27 DEF BackgroundPanic
<1>28. ASSUME NEW i \in Instances, ListenerExit(i) PROVE BufferReady'
    BY <1>28 DEF ListenerExit
<1>29. CASE Cancel
    BY <1>29 DEF Cancel
<1>30. CASE WaitStateChange
    BY <1>30 DEF WaitStateChange
<1>31. CASE Exit
    BY <1>31 DEF Exit
<1>32. CASE Restart
    BY <1>32 DEF Restart
<1>33. CASE UNCHANGED vars
    BY <1>33 DEF vars
<1>34. QED
    BY <1>1, <1>2, <1>3, <1>4, <1>5, <1>6, <1>7, <1>8, <1>9, <1>10, <1>11,
       <1>12, <1>13, <1>14, <1>15, <1>16, <1>17, <1>18, <1>19, <1>20,
       <1>21, <1>22, <1>23, <1>24, <1>25, <1>26, <1>27, <1>28, <1>29,
       <1>30, <1>31, <1>32, <1>33
    DEF Next, ClientNext, Enter, HandlerStep, Unlock, StopLdk, BackgroundNext

\* The guard keeps any other task from writing between the check and the write
LEMMA SeedStep ==
    TypeOK /\ GuardedView /\ BufferReady /\ SeedCarried /\ SeedKept /\ [Next]_vars
    => (SeedCarried /\ SeedKept)'
<1> SUFFICES ASSUME TypeOK /\ GuardedView /\ BufferReady /\ SeedCarried /\ SeedKept,
                    [Next]_vars
             PROVE  (SeedCarried /\ SeedKept)'
    OBVIOUS
<1> USE LifecycleAssumption DEF ldkVars, fileVars, Procs, Clients, Goto, Return, TypeOK,
                                GuardedView, InBody, BufferReady, SeedCarried, SeedKept,
                                Files
<1>1. ASSUME NEW c \in Clients, RejectLock(c) PROVE (SeedCarried /\ SeedKept)'
    BY <1>1 DEF RejectLock
<1>2. ASSUME NEW c \in Clients, FinishBody(c) PROVE (SeedCarried /\ SeedKept)'
    BY <1>2 DEF FinishBody
<1>3. ASSUME NEW c \in Clients, PrepareMnemonic(c) PROVE (SeedCarried /\ SeedKept)'
    BY <1>3 DEF PrepareMnemonic, NewMnemonic, ReencryptMnemonic
<1>4. ASSUME NEW c \in Clients, TruncateMnemonic(c) PROVE (SeedCarried /\ SeedKept)'
    BY <1>4 DEF TruncateMnemonic
<1>5. ASSUME NEW c \in Clients, WriteMnemonic(c) PROVE (SeedCarried /\ SeedKept)'
    BY <1>5 DEF WriteMnemonic
<1>6. ASSUME NEW c \in Clients, SaveFails(c) PROVE (SeedCarried /\ SeedKept)'
    BY <1>6 DEF SaveFails
<1>7. ASSUME NEW c \in Clients, BeginChange(c) PROVE (SeedCarried /\ SeedKept)'
    BY <1>7 DEF BeginChange
<1>8. ASSUME NEW c \in Clients, PasswordOk(c) PROVE (SeedCarried /\ SeedKept)'
    BY <1>8 DEF PasswordOk
<1>9. ASSUME NEW c \in Clients, UnlockFails(c) PROVE (SeedCarried /\ SeedKept)'
    BY <1>9 DEF UnlockFails
<1>10. ASSUME NEW c \in Clients, StartPanics(c) PROVE (SeedCarried /\ SeedKept)'
    BY <1>10 DEF StartPanics
<1>11. ASSUME NEW c \in Clients, StartSucceeds(c) PROVE (SeedCarried /\ SeedKept)'
    BY <1>11 DEF StartSucceeds
<1>12. ASSUME NEW c \in Clients, AnnounceRejected(c) PROVE (SeedCarried /\ SeedKept)'
    BY <1>12 DEF AnnounceRejected
<1>13. ASSUME NEW c \in Clients, SetServices(c) PROVE (SeedCarried /\ SeedKept)'
    BY <1>13 DEF SetServices
<1>14. ASSUME NEW c \in Clients, EndChange(c) PROVE (SeedCarried /\ SeedKept)'
    BY <1>14 DEF EndChange
<1>15. ASSUME NEW c \in Clients, RequestLockWhileChanging(c) PROVE (SeedCarried /\ SeedKept)'
    BY <1>15 DEF RequestLockWhileChanging
<1>16. ASSUME NEW c \in Clients, Acquire(c) PROVE (SeedCarried /\ SeedKept)'
    BY <1>16 DEF Acquire
<1>17. ASSUME NEW c \in Clients, AcquireRefused(c) PROVE (SeedCarried /\ SeedKept)'
    BY <1>17 DEF AcquireRefused
<1>18. ASSUME NEW c \in Clients, Publish(c) PROVE (SeedCarried /\ SeedKept)'
    BY <1>18 DEF Publish
<1>19. ASSUME NEW c \in Clients, NEW o \in Ops, Request(c, o)
       PROVE  (SeedCarried /\ SeedKept)'
    BY <1>19 DEF Request
<1>20. ASSUME NEW c \in Clients, NEW i \in Instances, StartSpawn(c, i)
       PROVE  (SeedCarried /\ SeedKept)'
    BY <1>20 DEF StartSpawn
<1>21. ASSUME NEW p \in Procs, StopSignal(p) PROVE (SeedCarried /\ SeedKept)'
    BY <1>21 DEF StopSignal
<1>22. ASSUME NEW p \in Procs, Join(p) PROVE (SeedCarried /\ SeedKept)'
    BY <1>22 DEF Join
<1>23. ASSUME NEW p \in Procs, PortReleased(p) PROVE (SeedCarried /\ SeedKept)'
    BY <1>23 DEF PortReleased
<1>24. ASSUME NEW p \in Procs, PortNotReleased(p) PROVE (SeedCarried /\ SeedKept)'
    BY <1>24 DEF PortNotReleased
<1>25. ASSUME NEW p \in Procs, JoinPanics(p) PROVE (SeedCarried /\ SeedKept)'
    BY <1>25 DEF JoinPanics
<1>26. ASSUME NEW i \in Instances, BackgroundExit(i) PROVE (SeedCarried /\ SeedKept)'
    BY <1>26 DEF BackgroundExit
<1>27. ASSUME NEW i \in Instances, BackgroundPanic(i) PROVE (SeedCarried /\ SeedKept)'
    BY <1>27 DEF BackgroundPanic
<1>28. ASSUME NEW i \in Instances, ListenerExit(i) PROVE (SeedCarried /\ SeedKept)'
    BY <1>28 DEF ListenerExit
<1>29. CASE Cancel
    BY <1>29 DEF Cancel
<1>30. CASE WaitStateChange
    BY <1>30 DEF WaitStateChange
<1>31. CASE Exit
    BY <1>31 DEF Exit
<1>32. CASE Restart
    BY <1>32 DEF Restart
<1>33. CASE UNCHANGED vars
    BY <1>33 DEF vars
<1>34. QED
    BY <1>1, <1>2, <1>3, <1>4, <1>5, <1>6, <1>7, <1>8, <1>9, <1>10, <1>11,
       <1>12, <1>13, <1>14, <1>15, <1>16, <1>17, <1>18, <1>19, <1>20,
       <1>21, <1>22, <1>23, <1>24, <1>25, <1>26, <1>27, <1>28, <1>29,
       <1>30, <1>31, <1>32, <1>33
    DEF Next, ClientNext, Enter, HandlerStep, Unlock, StopLdk, BackgroundNext

----------------------------------------------------------------------------
\* Nothing holds the guard or is about to write when the daemon starts
LEMMA InitIInv == Init => IInv
BY LifecycleAssumption
   DEF Init, IInv, TypeOK, GuardedView, InBody, BufferReady, SeedCarried, SeedKept,
       Procs, Clients, Labels, Ops, Files, Mishaps

\* Each part of IInv is kept by every step, given the parts it leans on
LEMMA StepIInv == IInv /\ [Next]_vars => IInv'
BY TypeStep, GuardStep, BufferStep, SeedStep DEF IInv

\* The inductive invariant from which the properties of this module follow.
THEOREM Inductive == Spec => []IInv
BY InitIInv, StepIInv, PTL DEF Spec

\* Every reachable state of the daemon is well typed, for every set of clients.
THEOREM TypeCorrect == Spec => []TypeOK
BY Inductive, PTL DEF IInv

\* A handler's check of the Option stays true until it drops the guard: the
\* unwraps that follow check_unlocked cannot fail, and no init, restore, backup or
\* changepassword overlaps with a node that became unlocked.
THEOREM GuardedViewHolds == Spec => []GuardedView
BY Inductive, PTL DEF IInv

\* The keys of an initialised node survive every interleaving of init, restore,
\* changepassword, crashes and failed writes: the file never decrypts to another seed.
THEOREM SeedKeptHolds == Spec => []SeedKept
BY Inductive, PTL DEF IInv

----------------------------------------------------------------------------
(* Changes that do not overlap: what the properties of the LDK instance     *)
(* rest on.  The flag does not keep two clients from changing the state at  *)
(* once, so nothing is claimed from then on until the process starts again. *)

\* No background processor runs but that of i, and none is still exiting but for
\* the one of an unlock that was refused late
Only(i) ==
    /\ \A j \in Instances : bp[j] = "running" => j = i
    /\ "announce" \notin botched => \A j \in Instances : bp[j] # "exiting"

Clean == botched \cap {"announce", "join"} = {}

\* The peer port is that of i, which has not been told to stop
Port(i) == Clean => port = i /\ i \notin stopping

\* The port is being given back
PortLeaves == app \in stopping /\ (Clean => port \in {app, None})

Settled == app = services /\ Only(app) /\ Port(app)

\* Where the three pieces of state differ because a request is halfway
Halfway == {"spawned", "publish", "services", "join", "port", "unpublish", "unservice"}

\* What a client may rely on at each step of its lock or unlock
Phase(c) ==
    /\ pc[c] \in {"password", "start"} => app = None
    /\ pc[c] \in {"spawned", "publish"} => app = None /\ services = None
    /\ pc[c] = "services" => app = inst[c] /\ services = None
    /\ pc[c] \in {"spawned", "publish", "services"} =>
          inst[c] \in Instances /\ Only(inst[c]) /\ Port(inst[c])
    /\ pc[c] \in {"stop", "join", "port", "unpublish"} => app # None /\ app = services
    /\ pc[c] = "join" =>
          /\ inst[c] = app /\ PortLeaves
          /\ \A j \in Instances : bp[j] # "running"
          /\ "announce" \notin botched => \A j \in Instances : bp[j] = "exiting" => j = app
    /\ pc[c] \in {"port", "unpublish", "unservice"} => Only(None)
    /\ pc[c] = "port" => PortLeaves
    /\ pc[c] = "unpublish" => Port(None)
    /\ pc[c] = "unservice" => app = None /\ Port(None)

Phases ==
    /\ \A c, d \in Clients : pc[c] \in Changing /\ pc[d] \in Changing => c = d
    /\ (\A c \in Clients : pc[c] \notin Halfway) => Settled
    /\ \A c \in Clients : Phase(c)

\* Once a shutdown is requested or two changes overlapped, nothing is claimed until
\* the process starts again
Calm == ~Cancelled /\ "overlap" \notin botched => Phases

\* What a step leaves alone that no lock or unlock makes: the LDK instances, and each
\* client that is in a change
LdkKept == UNCHANGED <<app, ldkVars, botched>>

Apart(c) == \/ pc'[c] = pc[c] /\ inst'[c] = inst[c]
            \/ pc[c] \notin Changing /\ pc'[c] \notin Changing

\* A step that neither touches the LDK instances nor moves a change
LEMMA Undisturbed ==
    Phases /\ LdkKept /\ (\A c \in Clients : Apart(c)) => Phases'
<1> SUFFICES ASSUME Phases, LdkKept, \A c \in Clients : Apart(c)
             PROVE  Phases'
    OBVIOUS
<1> USE DEF Halfway, Changing, LdkKept, ldkVars, Apart
<1>1. /\ \A c, d \in Clients : pc'[c] \in Changing /\ pc'[d] \in Changing => c = d
      /\ \A c \in Clients : pc'[c] \in Halfway <=> pc[c] \in Halfway
  BY DEF Phases
<1>2. Settled' <=> Settled
  BY DEF Settled, Only, Port, Clean
<1>3. ASSUME NEW c \in Clients PROVE Phase(c)'
  BY DEF Phases, Phase, Only, Port, PortLeaves, Clean
<1>4. QED BY <1>1, <1>2, <1>3 DEF Phases

\* The steps of one change: an unlock from a locked node to an unlocked one, or
\* to a locked one when it fails; a lock the other way
LEMMA ChangeStep ==
    ASSUME TypeOK, GuardedView, NEW c \in Clients, pc[c] \notin Halfway => Settled,
           Phase(c),
           ClientNext(c) \/ StopLdk(c)
    PROVE  (pc'[c] \notin Halfway => Settled') /\ Phase(c)'
<1> USE LifecycleAssumption DEF TypeOK, Procs, Clients, Goto, Return, OperatorOps,
        LockedOps, UserOps, Changing, Halfway, ldkVars
<1>1. CASE \/ \E o \in Ops : Request(c, o)
           \/ RequestLockWhileChanging(c) \/ AcquireRefused(c) \/ RejectLock(c)
           \/ FinishBody(c) \/ PrepareMnemonic(c) \/ TruncateMnemonic(c)
           \/ WriteMnemonic(c) \/ SaveFails(c) \/ Acquire(c)
  <2>1. UNCHANGED <<app, services, bp, stopping, port, botched>>
    BY <1>1 DEF Request, RequestLockWhileChanging, AcquireRefused, RejectLock, FinishBody,
                PrepareMnemonic, TruncateMnemonic, WriteMnemonic, SaveFails, Acquire
  <2>2. /\ pc[c] \in {"idle", "wait", "reject", "body", "keys", "write"}
        /\ pc'[c] \in {"idle", "wait", "reject", "body", "keys", "write"}
    BY <1>1 DEF Request, RequestLockWhileChanging, AcquireRefused, RejectLock, FinishBody,
                PrepareMnemonic, NewMnemonic, ReencryptMnemonic, TruncateMnemonic,
                WriteMnemonic, SaveFails, Acquire
  <2>3. Settled'
    BY <2>1, <2>2 DEF Settled, Only, Port, Clean
  <2>4. QED BY <2>2, <2>3 DEF Phase
<1>2. CASE BeginChange(c)
  <2>1. /\ pc[c] = "body" /\ op[c] \in OperatorOps
        /\ pc'[c] = IF op[c] = "unlock" THEN "password" ELSE "stop"
        /\ botched' \in {botched, botched \cup {"overlap"}} /\ UNCHANGED <<app, ldkVars>>
    BY <1>2 DEF BeginChange
  <2>2. op[c] = "unlock" <=> app = None
    BY <2>1 DEF GuardedView, InBody, WantsLocked
  <2>3. Settled'
    BY <2>1 DEF Settled, Only, Port, Clean
  <2>4. QED BY <2>1, <2>2, <2>3 DEF Phase, Settled
<1>3. CASE PasswordOk(c)
    BY <1>3 DEF PasswordOk, Phase, Settled, Only, Port, Clean
<1>4. CASE UnlockFails(c)
    BY <1>4 DEF UnlockFails, Phase, Settled, Only, Port, Clean
<1>5. CASE StartPanics(c)
    BY <1>5 DEF StartPanics, Phase, Settled, Only, Port, Clean
<1>6. CASE StartSucceeds(c)
    BY <1>6 DEF StartSucceeds, Phase, Settled, Only, Port, Clean
<1>7. CASE AnnounceRejected(c)
    BY <1>7 DEF AnnounceRejected, Phase, Settled, Only, Port, Clean
<1>8. ASSUME NEW i \in Instances, StartSpawn(c, i)
      PROVE  (pc'[c] \notin Halfway => Settled') /\ Phase(c)'
    BY <1>8 DEF StartSpawn, Free, Phase, Settled, Only, Port, Clean
<1>9. CASE Publish(c)
    BY <1>9 DEF Publish, Phase, Settled, Only, Port, Clean
<1>10. CASE SetServices(c)
    BY <1>10 DEF SetServices, Phase, Settled, Only, Port, Clean
<1>11. CASE EndChange(c)
    BY <1>11 DEF EndChange, Phase, Settled, Only, Port, Clean
<1>12. CASE StopSignal(c)
    BY <1>12 DEF StopSignal, Phase, Settled, Only, Port, PortLeaves, Clean
<1>13. CASE Join(c)
    BY <1>13 DEF Join, Phase, Settled, Only, Port, PortLeaves, Clean
<1>14. CASE JoinPanics(c)
    BY <1>14 DEF JoinPanics, Phase, Settled, Only, Port, PortLeaves, Clean
<1>15. CASE PortReleased(c)
    BY <1>15 DEF PortReleased, Phase, Settled, Only, Port, PortLeaves, Clean
<1>16. CASE PortNotReleased(c)
    BY <1>16 DEF PortNotReleased, PortHeld, Phase, Settled, Only, Port, PortLeaves, Clean
<1>17. QED
    BY <1>1, <1>2, <1>3, <1>4, <1>5, <1>6, <1>7, <1>8, <1>9, <1>10, <1>11, <1>12, <1>13,
       <1>14, <1>15, <1>16
    DEF ClientNext, Enter, HandlerStep, Unlock, StopLdk

\* A background processor that ends and a listener that gives its port back are
\* what the phase of a change expects of them
LEMMA BackgroundStep ==
    ASSUME TypeOK, Phases, NEW i \in Instances, BackgroundNext(i)
    PROVE  Phases'
<1> USE LifecycleAssumption DEF TypeOK, Halfway, Changing
<1>1. /\ UNCHANGED <<app, services, stopping, botched, pc, inst>>
      /\ \A j \in Instances : bp'[j] # bp[j] => bp'[j] \in {"off", "failed"}
      /\ port' # port => port = i /\ port' = None /\ i \in stopping
    BY DEF BackgroundNext, BackgroundExit, BackgroundPanic, ListenerExit
<1>2. \A k : Only(k) => Only(k)'
    BY <1>1 DEF Only
<1>3. \A k \in Instances \cup {None} : Port(k) => Port(k)'
    BY <1>1 DEF Port, Clean
<1>4. PortLeaves => PortLeaves'
    BY <1>1 DEF PortLeaves, Clean
<1>5. Settled => Settled'
    BY <1>1, <1>2, <1>3 DEF Settled
<1>6. ASSUME NEW c \in Clients PROVE Phase(c)'
  <2>1. Phase(c)
    BY DEF Phases
  <2>2. QED BY <1>1, <1>2, <1>3, <1>4, <2>1 DEF Phase
<1>7. QED BY <1>1, <1>5, <1>6 DEF Phases

\* A task moves no other task
LEMMA OthersStay ==
    ASSUME TypeOK, NEW c \in Clients, ClientNext(c) \/ StopLdk(c),
           NEW p \in Procs, p # c
    PROVE  pc'[p] = pc[p] /\ inst'[p] = inst[p]
<1> USE DEF TypeOK, Goto, Return
<1>1. CASE StopLdk(c)
    BY <1>1 DEF StopLdk, StopSignal, Join, JoinPanics, PortReleased, PortNotReleased
<1>2. CASE \/ \E o \in Ops : Request(c, o)
           \/ RequestLockWhileChanging(c) \/ Enter(c) \/ Publish(c)
    BY <1>2 DEF Request, RequestLockWhileChanging, Enter, Acquire, AcquireRefused, Publish
<1>3. CASE HandlerStep(c)
    BY <1>3 DEF HandlerStep, RejectLock, FinishBody, PrepareMnemonic, TruncateMnemonic,
                WriteMnemonic, SaveFails, BeginChange, SetServices, EndChange, Unlock,
                PasswordOk, UnlockFails, StartPanics, StartSucceeds, AnnounceRejected,
                StartSpawn
<1>4. QED BY <1>1, <1>2, <1>3 DEF ClientNext

\* A handler that changes no state leaves everything of LDK alone
LEMMA QuietStep ==
    ASSUME TypeOK, NEW c \in Clients, ClientNext(c) \/ StopLdk(c),
           pc[c] \notin Changing, pc'[c] \notin Changing
    PROVE  UNCHANGED <<app, ldkVars, botched>>
<1> USE DEF Changing
<1>1. ~StopLdk(c) /\ ~Publish(c) /\ ~SetServices(c) /\ ~EndChange(c) /\ ~Unlock(c)
  BY DEF StopLdk, StopSignal, Join, JoinPanics, PortReleased, PortNotReleased, PortHeld,
         Publish, SetServices, EndChange, Unlock, PasswordOk, UnlockFails, StartPanics,
         StartSucceeds, AnnounceRejected, StartSpawn
<1>2. ~BeginChange(c)
  BY DEF BeginChange, Goto, TypeOK, Procs, OperatorOps
<1>3. QED
  BY <1>1, <1>2
  DEF ClientNext, Request, RequestLockWhileChanging, Enter, Acquire, AcquireRefused,
      HandlerStep, RejectLock, FinishBody, PrepareMnemonic, TruncateMnemonic,
      WriteMnemonic, SaveFails, ldkVars

\* A change only begins in BeginChange
LEMMA ChangeBegins ==
    ASSUME TypeOK, NEW c \in Clients, ClientNext(c) \/ StopLdk(c),
           pc[c] \notin Changing, pc'[c] \in Changing
    PROVE  BeginChange(c)
<1> USE DEF Changing, TypeOK, Procs, Goto, Return
<1>1. ~StopLdk(c) /\ ~Publish(c) /\ ~SetServices(c) /\ ~EndChange(c) /\ ~Unlock(c)
  BY DEF StopLdk, StopSignal, Join, JoinPanics, PortReleased, PortNotReleased, PortHeld,
         Publish, SetServices, EndChange, Unlock, PasswordOk, UnlockFails, StartPanics,
         StartSucceeds, AnnounceRejected, StartSpawn
<1>2. /\ ~\E o \in Ops : Request(c, o)
      /\ ~RequestLockWhileChanging(c) /\ ~Enter(c)
  BY DEF Request, RequestLockWhileChanging, Enter, Acquire, AcquireRefused
<1>3. ~(RejectLock(c) \/ FinishBody(c) \/ PrepareMnemonic(c) \/ TruncateMnemonic(c)
        \/ WriteMnemonic(c) \/ SaveFails(c))
  BY DEF RejectLock, FinishBody, PrepareMnemonic, TruncateMnemonic, WriteMnemonic, SaveFails
<1>4. QED BY <1>1, <1>2, <1>3 DEF ClientNext, HandlerStep

\* No step of a client makes the overlap of two changes forgotten
LEMMA OverlapRemembered ==
    ASSUME NEW c \in Clients, ClientNext(c) \/ StopLdk(c), "overlap" \notin botched'
    PROVE  "overlap" \notin botched
BY DEF ClientNext, Request, RequestLockWhileChanging, Enter, Acquire, AcquireRefused,
       Publish, HandlerStep, RejectLock, FinishBody, PrepareMnemonic, TruncateMnemonic,
       WriteMnemonic, SaveFails, BeginChange, SetServices, EndChange, Unlock, PasswordOk,
       UnlockFails, StartPanics, StartSucceeds, AnnounceRejected, StartSpawn, StopLdk,
       StopSignal, Join, JoinPanics, PortReleased, PortNotReleased

\* A change that goes on, or begins, is the only one: it is in its next phase, and the
\* other clients are in none
LEMMA LoneChangeStep ==
    ASSUME TypeOK, GuardedView, Phases, NEW c \in Clients, ClientNext(c) \/ StopLdk(c),
           \A d \in Clients : d # c => pc[d] \notin Changing
    PROVE  Phases'
<1>1. \A d \in Clients : d # c => pc'[d] \notin Changing
  BY OthersStay DEF Procs
<1>2. Halfway \subseteq Changing
  BY DEF Halfway, Changing
<1>3. pc[c] \notin Halfway => Settled
  BY <1>2 DEF Phases
<1>4. (pc'[c] \notin Halfway => Settled') /\ Phase(c)'
  BY <1>3, ChangeStep DEF Phases
<1>5. \A d \in Clients : d # c => Phase(d)'
  BY <1>1 DEF Phase, Changing
<1>6. QED BY <1>1, <1>4, <1>5 DEF Phases

\* The phases are kept until a shutdown is requested or two changes overlap
LEMMA CalmStep == TypeOK /\ GuardedView /\ Calm /\ [Next]_vars => Calm'
<1> SUFFICES ASSUME TypeOK, GuardedView, Calm, [Next]_vars,
                    ~Cancelled', "overlap" \notin botched'
             PROVE  Phases'
    BY DEF Calm
<1>1. Clients \subseteq Procs
    BY DEF Procs
<1>2. CASE Restart
    BY <1>1, <1>2 DEF Restart, Phases, Phase, Settled, Only, Port, Clean, Halfway, Changing
<1>3. CASE UNCHANGED vars
  <2>1. ~Cancelled /\ Phases
    BY <1>3 DEF vars, Cancelled, Calm
  <2>2. LdkKept /\ \A c \in Clients : Apart(c)
    BY <1>3 DEF vars, LdkKept, Apart
  <2>3. QED BY <2>1, <2>2, Undisturbed
<1>4. ASSUME NEW c \in Clients, ClientNext(c) \/ StopLdk(c)
      PROVE  Phases'
  <2>1. Phases
    <3>1. Daemon \in Procs /\ Daemon # c
      BY <1>4, LifecycleAssumption DEF Procs, Clients
    <3>2. pc'[Daemon] = pc[Daemon]
      BY <1>4, <3>1, OthersStay
    <3>3. QED BY <1>4, <3>2, OverlapRemembered DEF Cancelled, Calm
  <2>2. CASE pc[c] \in Changing
    BY <1>4, <2>1, <2>2, LoneChangeStep DEF Phases
  <2>3. CASE pc[c] \notin Changing /\ pc'[c] \in Changing
    <3>1. BeginChange(c)
      BY <1>4, <2>3, ChangeBegins
    <3>2. ~ChangeGoesOn
      BY <3>1 DEF BeginChange
    <3>3. QED BY <1>4, <2>1, <3>2, LoneChangeStep DEF ChangeGoesOn
  <2>4. CASE pc[c] \notin Changing /\ pc'[c] \notin Changing
    <3>1. LdkKept
      BY <1>4, <2>4, QuietStep DEF LdkKept
    <3>2. \A d \in Clients : d # c => pc'[d] = pc[d] /\ inst'[d] = inst[d]
      BY <1>1, <1>4, OthersStay
    <3>3. \A d \in Clients : Apart(d)
      BY <2>4, <3>2 DEF Apart
    <3>4. QED BY <2>1, <3>1, <3>3, Undisturbed
  <2>5. QED BY <2>2, <2>3, <2>4
<1>5. ASSUME NEW i \in Instances, BackgroundNext(i)
      PROVE  Phases'
  <2>1. ~Cancelled /\ Phases
    BY <1>5 DEF BackgroundNext, BackgroundExit, BackgroundPanic, ListenerExit, Cancelled,
                Calm
  <2>2. QED BY <1>5, <2>1, BackgroundStep
<1>6. ~Cancel /\ ~WaitStateChange /\ ~Exit /\ ~StopLdk(Daemon)
  <2>1. pc'[Daemon] = "idle" /\ Daemon \in Procs
    BY DEF Cancelled, Procs
  <2>2. QED
    BY <2>1 DEF Cancel, WaitStateChange, Exit, StopLdk, StopSignal, Join, JoinPanics,
                PortReleased, PortNotReleased, Goto, TypeOK
<1>7. QED
    BY <1>2, <1>3, <1>4, <1>5, <1>6 DEF Next, Procs

\* The daemon starts locked, with no LDK instance
LEMMA InitCalm == Init => Calm
BY LifecycleAssumption
   DEF Init, Calm, Phases, Phase, Settled, Only, Port, Clean, Halfway, Changing,
       Procs, Clients

LEMMA InductiveCalm == Spec => []Calm
<1>1. IInv /\ Calm /\ [Next]_vars => Calm'
    BY CalmStep DEF IInv
<1>2. QED BY <1>1, InitCalm, Inductive, PTL DEF Spec

\* A node has at most one background processor at work on its channel data, whatever
\* fails and however many clients lock and unlock it: a lock that returns has seen the
\* old one end.  Until the next start of the process two changes that overlap void it.
THEOREM OneNodeHolds == Spec => []OneNode
<1> DEFINE Alive == {i \in Instances : bp[i] \in {"running", "exiting"}}
<1>1. ASSUME Calm, ~Cancelled, {"announce", "overlap"} \cap botched = {}
      PROVE  \A i, j \in Alive : i = j
  <2>1. CASE \A c \in Clients : pc[c] \notin Halfway
    BY <1>1, <2>1 DEF Calm, Phases, Settled, Only
  <2>2. ASSUME NEW c \in Clients, pc[c] \in Halfway
        PROVE  \A i, j \in Alive : i = j
    BY <1>1, <2>2 DEF Calm, Phases, Phase, Only, Halfway
  <2>3. QED BY <2>1, <2>2
<1>2. ASSUME \A i, j \in Alive : i = j
      PROVE  Cardinality(Alive) <= 1
  <2>1. CASE Alive = {}
    BY <2>1, FS_EmptySet
  <2>2. CASE Alive # {}
    <3>1. PICK i : Alive = {i}
      BY <1>2, <2>2
    <3>2. Cardinality(Alive) = 1
      BY <3>1, FS_Singleton
    <3>3. QED BY <3>2
  <2>3. QED BY <2>1, <2>2
<1>3. Calm => OneNode
    BY <1>1, <1>2 DEF OneNode
<1>4. QED BY <1>3, InductiveCalm, PTL

\* Between two changes the three pieces of state agree, whichever clients made them.
THEOREM SettledStateAgreesHolds == Spec => []SettledStateAgrees
<1>1. ASSUME Calm, ~ChangeGoesOn, ~Cancelled, "overlap" \notin botched
      PROVE  Settled
    BY <1>1 DEF Calm, Phases, ChangeGoesOn, Halfway, Changing
<1>2. Settled /\ {"announce", "join"} \cap botched = {} =>
          port = app /\ \A i \in Instances : bp[i] # "exiting"
    BY DEF Settled, Port, Only, Clean
<1>3. Calm => SettledStateAgrees
    BY <1>1, <1>2 DEF SettledStateAgrees, Settled, Only
<1>4. QED BY <1>3, InductiveCalm, PTL
=============================================================================
