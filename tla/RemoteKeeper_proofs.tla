------------------------- MODULE RemoteKeeper_proofs -------------------------
(***************************************************************************)
(* Proofs about RemoteKeeper, for any number of shells, any grace window   *)
(* and any pause of the keeper, whichever of the service and the keeper    *)
(* comes first: the types, ServiceKept and GraceNearlyFull.                *)
(*                                                                         *)
(* The argument: until the launch shell has forked the service nobody else *)
(* is there (Launching), so the lease, once there is a keeper, belongs to  *)
(* the shell that has just locked it, or to the keeper's probe (Holder).   *)
(* The keeper leaves its loop when the service is down, or at its very     *)
(* first look, when the service has yet to make its process group (Kept).  *)
(* For the window: while nobody re-attaches, every probe that was counted  *)
(* stands for a pause in which the lease was free (Window).                *)
(***************************************************************************)
EXTENDS RemoteKeeper, TLAPS

\* Before the launch shell is through, nobody connects and nothing is kept.
Launching ==
    /\ shell[1] = "none" => service = "none" /\ ~runDir /\ lease = 0
                            /\ \A s \in Shells : client[s] = "none"
    /\ shell[1] # "none" => service # "none"
    /\ shell[1] \in {"none", "lease"} => \A s \in Shells : s # 1 => shell[s] = "none"
    /\ shell[1] \in {"none", "lease", "forked"} => keeper = "none"
    /\ shell[1] \in {"none", "lease", "forked", "reading", "gone"}

\* Whose the lease is.
Holder ==
    /\ \A s \in Shells : shell[s] = "locked" => lease = s
    /\ shell[1] = "forked" => lease = 1 /\ watcher = 1
    /\ keeper = "probing" => lease = ProbeHolder
    /\ WatcherIsReader

\* The run directory and the service that the keeper has given up.
Kept ==
    /\ keeper # "none" => service # "none"
    /\ service # "none" /\ keeper # "gone" => runDir
    /\ ~missed /\ keeper \in {"remove", "gone"} => service = "down"
    /\ missed => keeper \in {"remove", "gone"} /\ idle = 0
    /\ service \in {"none", "forked"}
         => idle = 0 /\ keeper \in {"none", "group", "remove", "gone"}

\* The counting of free probes.
Counting ==
    /\ keeper \in {"group", "look", "probing", "nap"} => idle < GraceProbeCount
    /\ keeper \in {"none", "group", "look", "probing", "expire"} => nap = 0
    /\ keeper = "none" => idle = 0

\* The time of n pauses.
Pauses(n) == n * Check

\* While nobody has re-attached, a probe that was counted found the lease of
\* the launch shell given up, and a pause has passed since, or is passing.
Alone == \A s \in Shells : s > 1 => shell[s] = "none"

Window ==
    Alone =>
        /\ idle > 0 => lease \notin Shells
        /\ keeper \in {"group", "look", "probing", "nap"} =>
             free = Grace \/ free + nap >= Pauses(idle)

IInv == TypeOK /\ Launching /\ Holder /\ Kept /\ Counting /\ Window

-----------------------------------------------------------------------------
(***************************************************************************)
(* The number of probes.                                                   *)
(***************************************************************************)
\* A division rounded up: as many pauses as the window needs, and no more.
LEMMA Probes ==
    /\ GraceProbeCount \in Nat \ {0}
    /\ GraceProbeCount * Check >= Grace
<1>1. Grace \in Nat \ {0} /\ Check \in Nat \ {0}
  BY KeeperAssumption
<1>2. Grace + Check - 1 \in Nat
  BY <1>1
<1> DEFINE n == (Grace + Check - 1) \div Check
<1>3. n \in Int
  BY <1>1, <1>2
<1>4. Grace + Check - 1 < Check * n + Check
  BY <1>1, <1>2
<1>5. Check * n >= Grace
  <2> HIDE DEF n
  <2> QED BY <1>1, <1>3, <1>4
<1>6. n >= 1
  <2> HIDE DEF n
  <2>1. Check * n > 0
    BY <1>1, <1>3, <1>5
  <2> QED BY <1>1, <1>3, <2>1
<1>7. n * Check = Check * n
  <2> HIDE DEF n
  <2> QED BY <1>1, <1>3
<1> QED
  BY <1>3, <1>5, <1>6, <1>7 DEF GraceProbeCount

\* The time of pauses grows by one pause at a time.
LEMMA PausesGrow ==
    /\ \A n \in Nat : Pauses(n) \in Nat /\ Pauses(n + 1) = Pauses(n) + Check
    /\ Pauses(0) = 0
    /\ \A n \in Nat : GraceProbeCount <= n => Pauses(n) >= Grace
<1>1. Grace \in Nat \ {0} /\ Check \in Nat \ {0} /\ GraceProbeCount \in Nat
  BY KeeperAssumption, Probes
<1>2. ASSUME NEW n \in Nat
      PROVE  Pauses(n) \in Nat /\ Pauses(n + 1) = Pauses(n) + Check
  BY <1>1 DEF Pauses
<1>3. Pauses(0) = 0
  BY <1>1 DEF Pauses
<1>4. ASSUME NEW n \in Nat, GraceProbeCount <= n
      PROVE  Pauses(n) >= Grace
  <2>1. PICK k \in Nat : n = GraceProbeCount + k
    <3>1. n - GraceProbeCount \in Nat /\ n = GraceProbeCount + (n - GraceProbeCount)
      BY <1>1, <1>4
    <3>2. QED
      BY <3>1
  <2>2. (GraceProbeCount + k) * Check = GraceProbeCount * Check + k * Check
    BY <1>1
  <2>3. k * Check \in Nat /\ GraceProbeCount * Check \in Nat
    BY <1>1
  <2>4. QED
    BY <1>1, <2>1, <2>2, <2>3, Probes DEF Pauses
<1>5. QED
  BY <1>2, <1>3, <1>4

-----------------------------------------------------------------------------
(***************************************************************************)
(* The invariant.                                                          *)
(***************************************************************************)
LEMMA InitIInv == Init => IInv
<1> SUFFICES ASSUME Init PROVE IInv
  OBVIOUS
<1> USE KeeperAssumption DEF Init
<1>1. TypeOK
  <2>1. 0 \in 0..GraceProbeCount
    BY Probes
  <2>2. shell \in [Shells -> ShellPcs] /\ keeper \in KeeperPcs
    BY DEF ShellPcs, KeeperPcs
  <2>3. marker \in BOOLEAN /\ runDir \in BOOLEAN /\ missed \in BOOLEAN
    BY Zenon
  <2>4. client \in [Shells -> {"none", "live", "told", "cut"}]
    OBVIOUS
  <2>5. lease \in 0..ProbeHolder /\ watcher \in 0..NShells /\ nap \in 0..Check /\ free \in 0..Grace
    BY DEF ProbeHolder
  <2>6. idle \in 0..GraceProbeCount
    BY <2>1
  <2>7. app \in {"jupyter", "tensorboard"} /\ service \in {"none", "forked", "up", "down"}
    BY Zenon
  <2>8. QED
    BY <2>2, <2>3, <2>4, <2>5, <2>6, <2>7, Zenon DEF TypeOK
<1>2. Launching
  BY DEF Launching, Shells
<1>3. Holder
  BY DEF Holder, WatcherIsReader, Shells
<1>4. Kept
  BY DEF Kept
<1>5. Counting
  BY DEF Counting
<1>6. Window
  BY DEF Window
<1>7. QED
  BY <1>1, <1>2, <1>3, <1>4, <1>5, <1>6 DEF IInv

\* Every action keeps the types.
LEMMA TypeStep == IInv /\ [Next]_vars => TypeOK'
<1> SUFFICES ASSUME IInv, [Next]_vars PROVE TypeOK'
  OBVIOUS
<1> USE KeeperAssumption DEF IInv, TypeOK, Counting, Shells, ProbeHolder, ShellPcs, KeeperPcs
<1>1. CASE Launch
  BY <1>1 DEF Launch, GoTo
<1>2. CASE LaunchTensorBoard
  BY <1>2 DEF LaunchTensorBoard, GoTo
<1>3. CASE TakeLease
  BY <1>3 DEF TakeLease, GoTo
<1>4. CASE TakeLeaseFails
  BY <1>4 DEF TakeLeaseFails, GoTo
<1>5. CASE StartKeeper
  BY <1>5 DEF StartKeeper, GoTo
<1>6. CASE FindGroup
  BY <1>6 DEF FindGroup, KeeperGoes
<1>7. CASE Look
  BY <1>7, Probes DEF Look, KeeperGoes
<1>8. CASE Probed
  BY <1>8, Probes DEF Probed, KeeperGoes
<1>9. CASE Wake
  BY <1>9 DEF Wake, KeeperGoes
<1>10. CASE Kill
  BY <1>10 DEF Kill, KeeperGoes
<1>11. CASE Remove
  BY <1>11 DEF Remove, KeeperGoes
<1>12. CASE Setsid
  BY <1>12 DEF Setsid
<1>13. CASE ServiceDies
  BY <1>13 DEF ServiceDies
<1>14. CASE Tick
  BY <1>14 DEF Tick
<1>15. ASSUME NEW s \in Shells, CheckSocket(s)
      PROVE  TypeOK'
  BY <1>15 DEF CheckSocket, GoTo
<1>16. ASSUME NEW s \in Shells, TryLock(s)
      PROVE  TypeOK'
  BY <1>16 DEF TryLock, GoTo
<1>17. ASSUME NEW s \in Shells, Evict(s)
      PROVE  TypeOK'
  BY <1>17 DEF Evict
<1>18. ASSUME NEW s \in Shells, WaitLock(s)
      PROVE  TypeOK'
  BY <1>18 DEF WaitLock, GoTo
<1>19. ASSUME NEW s \in Shells, WaitExpires(s)
      PROVE  TypeOK'
  BY <1>19 DEF WaitExpires, GoTo
<1>20. ASSUME NEW s \in Shells, WriteWatcher(s)
      PROVE  TypeOK'
  BY <1>20 DEF WriteWatcher, GoTo
<1>21. ASSUME NEW s \in Shells, ReadShutdown(s)
      PROVE  TypeOK'
  BY <1>21 DEF ReadShutdown, Exit, GoTo
<1>22. ASSUME NEW s \in Shells, ReadEnd(s)
      PROVE  TypeOK'
  BY <1>22 DEF ReadEnd, Exit, GoTo
<1>23. ASSUME NEW s \in Shells, Connect(s)
      PROVE  TypeOK'
  BY <1>23 DEF Connect, GoTo
<1>24. ASSUME NEW s \in Shells, Tell(s)
      PROVE  TypeOK'
  BY <1>24 DEF Tell
<1>25. ASSUME NEW s \in Shells, Cut(s)
      PROVE  TypeOK'
  BY <1>25 DEF Cut
<1>26. CASE UNCHANGED vars
  BY <1>26 DEF vars
<1>27. QED
  BY <1>1, <1>2, <1>3, <1>4, <1>5, <1>6, <1>7, <1>8, <1>9, <1>10, <1>11, <1>12, <1>13, <1>14,
     <1>15, <1>16, <1>17, <1>18, <1>19, <1>20, <1>21, <1>22, <1>23, <1>24, <1>25, <1>26 DEF Next,
     ShellStep, KeeperStep

\* Nobody comes before the launch shell is through.
LEMMA LaunchingStep == IInv /\ [Next]_vars => Launching'
<1> SUFFICES ASSUME IInv, [Next]_vars PROVE Launching'
  OBVIOUS
<1> USE KeeperAssumption DEF IInv, TypeOK, Launching, Shells
<1>1. CASE Launch
  BY <1>1 DEF Launch, GoTo
<1>2. CASE LaunchTensorBoard
  BY <1>2 DEF LaunchTensorBoard, GoTo
<1>3. CASE TakeLease
  BY <1>3 DEF TakeLease, GoTo
<1>4. CASE TakeLeaseFails
  BY <1>4 DEF TakeLeaseFails, GoTo
<1>5. CASE StartKeeper
  BY <1>5 DEF StartKeeper, GoTo
<1>6. CASE FindGroup
  BY <1>6 DEF FindGroup, KeeperGoes
<1>7. CASE Look
  BY <1>7 DEF Look, KeeperGoes
<1>8. CASE Probed
  BY <1>8 DEF Probed, KeeperGoes
<1>9. CASE Wake
  BY <1>9 DEF Wake, KeeperGoes
<1>10. CASE Kill
  BY <1>10 DEF Kill, KeeperGoes
<1>11. CASE Remove
  BY <1>11 DEF Remove, KeeperGoes
<1>12. CASE Setsid
  BY <1>12 DEF Setsid
<1>13. CASE ServiceDies
  BY <1>13 DEF ServiceDies
<1>14. CASE Tick
  BY <1>14 DEF Tick
<1>15. ASSUME NEW s \in Shells, CheckSocket(s)
      PROVE  Launching'
  BY <1>15 DEF CheckSocket, GoTo
<1>16. ASSUME NEW s \in Shells, TryLock(s)
      PROVE  Launching'
  BY <1>16 DEF TryLock, GoTo
<1>17. ASSUME NEW s \in Shells, Evict(s)
      PROVE  Launching'
  BY <1>17 DEF Evict
<1>18. ASSUME NEW s \in Shells, WaitLock(s)
      PROVE  Launching'
  BY <1>18 DEF WaitLock, GoTo
<1>19. ASSUME NEW s \in Shells, WaitExpires(s)
      PROVE  Launching'
  BY <1>19 DEF WaitExpires, GoTo
<1>20. ASSUME NEW s \in Shells, WriteWatcher(s)
      PROVE  Launching'
  BY <1>20 DEF WriteWatcher, GoTo
<1>21. ASSUME NEW s \in Shells, ReadShutdown(s)
      PROVE  Launching'
  BY <1>21 DEF ReadShutdown, Exit, GoTo
<1>22. ASSUME NEW s \in Shells, ReadEnd(s)
      PROVE  Launching'
  BY <1>22 DEF ReadEnd, Exit, GoTo
<1>23. ASSUME NEW s \in Shells, Connect(s)
      PROVE  Launching'
  BY <1>23 DEF Connect, GoTo
<1>24. ASSUME NEW s \in Shells, Tell(s)
      PROVE  Launching'
  BY <1>24 DEF Tell
<1>25. ASSUME NEW s \in Shells, Cut(s)
      PROVE  Launching'
  BY <1>25 DEF Cut
<1>26. CASE UNCHANGED vars
  BY <1>26 DEF vars
<1>27. QED
  BY <1>1, <1>2, <1>3, <1>4, <1>5, <1>6, <1>7, <1>8, <1>9, <1>10, <1>11, <1>12, <1>13, <1>14,
     <1>15, <1>16, <1>17, <1>18, <1>19, <1>20, <1>21, <1>22, <1>23, <1>24, <1>25, <1>26 DEF Next,
     ShellStep, KeeperStep

\* The lease changes hands only when it is free or its holder goes.
LEMMA HolderStep == IInv /\ [Next]_vars => Holder'
<1> SUFFICES ASSUME IInv, [Next]_vars PROVE Holder'
  OBVIOUS
<1> USE KeeperAssumption DEF IInv, TypeOK, Launching, Holder, WatcherIsReader, Shells, ProbeHolder
<1>1. CASE Launch
  BY <1>1 DEF Launch, GoTo
<1>2. CASE LaunchTensorBoard
  BY <1>2 DEF LaunchTensorBoard, GoTo
<1>3. CASE TakeLease
  BY <1>3 DEF TakeLease, GoTo
<1>4. CASE TakeLeaseFails
  BY <1>4 DEF TakeLeaseFails, GoTo
<1>5. CASE StartKeeper
  BY <1>5 DEF StartKeeper, GoTo
<1>6. CASE FindGroup
  BY <1>6 DEF FindGroup, KeeperGoes
<1>7. CASE Look
  BY <1>7 DEF Look, KeeperGoes
<1>8. CASE Probed
  BY <1>8 DEF Probed, KeeperGoes
<1>9. CASE Wake
  BY <1>9 DEF Wake, KeeperGoes
<1>10. CASE Kill
  BY <1>10 DEF Kill, KeeperGoes
<1>11. CASE Remove
  BY <1>11 DEF Remove, KeeperGoes
<1>12. CASE Setsid
  BY <1>12 DEF Setsid
<1>13. CASE ServiceDies
  BY <1>13 DEF ServiceDies
<1>14. CASE Tick
  BY <1>14 DEF Tick
<1>15. ASSUME NEW s \in Shells, CheckSocket(s)
      PROVE  Holder'
  BY <1>15 DEF CheckSocket, GoTo
<1>16. ASSUME NEW s \in Shells, TryLock(s)
      PROVE  Holder'
  BY <1>16 DEF TryLock, GoTo
<1>17. ASSUME NEW s \in Shells, Evict(s)
      PROVE  Holder'
  BY <1>17 DEF Evict
<1>18. ASSUME NEW s \in Shells, WaitLock(s)
      PROVE  Holder'
  BY <1>18 DEF WaitLock, GoTo
<1>19. ASSUME NEW s \in Shells, WaitExpires(s)
      PROVE  Holder'
  BY <1>19 DEF WaitExpires, GoTo
<1>20. ASSUME NEW s \in Shells, WriteWatcher(s)
      PROVE  Holder'
  BY <1>20 DEF WriteWatcher, GoTo
<1>21. ASSUME NEW s \in Shells, ReadShutdown(s)
      PROVE  Holder'
  BY <1>21 DEF ReadShutdown, Exit, GoTo
<1>22. ASSUME NEW s \in Shells, ReadEnd(s)
      PROVE  Holder'
  BY <1>22 DEF ReadEnd, Exit, GoTo
<1>23. ASSUME NEW s \in Shells, Connect(s)
      PROVE  Holder'
  BY <1>23 DEF Connect, GoTo
<1>24. ASSUME NEW s \in Shells, Tell(s)
      PROVE  Holder'
  BY <1>24 DEF Tell
<1>25. ASSUME NEW s \in Shells, Cut(s)
      PROVE  Holder'
  BY <1>25 DEF Cut
<1>26. CASE UNCHANGED vars
  BY <1>26 DEF vars
<1>27. QED
  BY <1>1, <1>2, <1>3, <1>4, <1>5, <1>6, <1>7, <1>8, <1>9, <1>10, <1>11, <1>12, <1>13, <1>14,
     <1>15, <1>16, <1>17, <1>18, <1>19, <1>20, <1>21, <1>22, <1>23, <1>24, <1>25, <1>26 DEF Next,
     ShellStep, KeeperStep

\* The keeper leaves the loop with the service down, which stays down, or before
\* it has found the service.
LEMMA KeptStep == IInv /\ [Next]_vars => Kept'
<1> SUFFICES ASSUME IInv, [Next]_vars PROVE Kept'
  OBVIOUS
<1> USE KeeperAssumption DEF IInv, TypeOK, Launching, Kept, Counting, Shells
<1>1. CASE Launch
  BY <1>1 DEF Launch, GoTo
<1>2. CASE LaunchTensorBoard
  BY <1>2 DEF LaunchTensorBoard, GoTo
<1>3. CASE TakeLease
  BY <1>3 DEF TakeLease, GoTo
<1>4. CASE TakeLeaseFails
  BY <1>4 DEF TakeLeaseFails, GoTo
<1>5. CASE StartKeeper
  BY <1>5 DEF StartKeeper, GoTo
<1>6. CASE FindGroup
  BY <1>6 DEF FindGroup, KeeperGoes
<1>7. CASE Look
  BY <1>7 DEF Look, KeeperGoes
<1>8. CASE Probed
  BY <1>8 DEF Probed, KeeperGoes
<1>9. CASE Wake
  BY <1>9 DEF Wake, KeeperGoes
<1>10. CASE Kill
  BY <1>10 DEF Kill, KeeperGoes
<1>11. CASE Remove
  BY <1>11 DEF Remove, KeeperGoes
<1>12. CASE Setsid
  BY <1>12 DEF Setsid
<1>13. CASE ServiceDies
  BY <1>13 DEF ServiceDies
<1>14. CASE Tick
  BY <1>14 DEF Tick
<1>15. ASSUME NEW s \in Shells, CheckSocket(s)
      PROVE  Kept'
  BY <1>15 DEF CheckSocket, GoTo
<1>16. ASSUME NEW s \in Shells, TryLock(s)
      PROVE  Kept'
  BY <1>16 DEF TryLock, GoTo
<1>17. ASSUME NEW s \in Shells, Evict(s)
      PROVE  Kept'
  BY <1>17 DEF Evict
<1>18. ASSUME NEW s \in Shells, WaitLock(s)
      PROVE  Kept'
  BY <1>18 DEF WaitLock, GoTo
<1>19. ASSUME NEW s \in Shells, WaitExpires(s)
      PROVE  Kept'
  BY <1>19 DEF WaitExpires, GoTo
<1>20. ASSUME NEW s \in Shells, WriteWatcher(s)
      PROVE  Kept'
  BY <1>20 DEF WriteWatcher, GoTo
<1>21. ASSUME NEW s \in Shells, ReadShutdown(s)
      PROVE  Kept'
  BY <1>21 DEF ReadShutdown, Exit, GoTo
<1>22. ASSUME NEW s \in Shells, ReadEnd(s)
      PROVE  Kept'
  BY <1>22 DEF ReadEnd, Exit, GoTo
<1>23. ASSUME NEW s \in Shells, Connect(s)
      PROVE  Kept'
  BY <1>23 DEF Connect, GoTo
<1>24. ASSUME NEW s \in Shells, Tell(s)
      PROVE  Kept'
  BY <1>24 DEF Tell
<1>25. ASSUME NEW s \in Shells, Cut(s)
      PROVE  Kept'
  BY <1>25 DEF Cut
<1>26. CASE UNCHANGED vars
  BY <1>26 DEF vars
<1>27. QED
  BY <1>1, <1>2, <1>3, <1>4, <1>5, <1>6, <1>7, <1>8, <1>9, <1>10, <1>11, <1>12, <1>13, <1>14,
     <1>15, <1>16, <1>17, <1>18, <1>19, <1>20, <1>21, <1>22, <1>23, <1>24, <1>25, <1>26 DEF Next,
     ShellStep, KeeperStep

\* The keeper counts while it naps, and naps its pause out.
LEMMA CountingStep == IInv /\ [Next]_vars => Counting'
<1> SUFFICES ASSUME IInv, [Next]_vars PROVE Counting'
  OBVIOUS
<1> USE KeeperAssumption DEF IInv, TypeOK, Launching, Counting, Shells
<1>1. CASE Launch
  BY <1>1 DEF Launch, GoTo
<1>2. CASE LaunchTensorBoard
  BY <1>2 DEF LaunchTensorBoard, GoTo
<1>3. CASE TakeLease
  BY <1>3 DEF TakeLease, GoTo
<1>4. CASE TakeLeaseFails
  BY <1>4 DEF TakeLeaseFails, GoTo
<1>5. CASE StartKeeper
  BY <1>5, Probes DEF StartKeeper, GoTo
<1>6. CASE FindGroup
  BY <1>6 DEF FindGroup, KeeperGoes
<1>7. CASE Look
  BY <1>7, Probes DEF Look, KeeperGoes
<1>8. CASE Probed
  BY <1>8, Probes DEF Probed, KeeperGoes
<1>9. CASE Wake
  BY <1>9, Probes DEF Wake, KeeperGoes
<1>10. CASE Kill
  BY <1>10 DEF Kill, KeeperGoes
<1>11. CASE Remove
  BY <1>11 DEF Remove, KeeperGoes
<1>12. CASE Setsid
  BY <1>12 DEF Setsid
<1>13. CASE ServiceDies
  BY <1>13 DEF ServiceDies
<1>14. CASE Tick
  BY <1>14 DEF Tick
<1>15. ASSUME NEW s \in Shells, CheckSocket(s)
      PROVE  Counting'
  BY <1>15 DEF CheckSocket, GoTo
<1>16. ASSUME NEW s \in Shells, TryLock(s)
      PROVE  Counting'
  BY <1>16 DEF TryLock, GoTo
<1>17. ASSUME NEW s \in Shells, Evict(s)
      PROVE  Counting'
  BY <1>17 DEF Evict
<1>18. ASSUME NEW s \in Shells, WaitLock(s)
      PROVE  Counting'
  BY <1>18 DEF WaitLock, GoTo
<1>19. ASSUME NEW s \in Shells, WaitExpires(s)
      PROVE  Counting'
  BY <1>19 DEF WaitExpires, GoTo
<1>20. ASSUME NEW s \in Shells, WriteWatcher(s)
      PROVE  Counting'
  BY <1>20 DEF WriteWatcher, GoTo
<1>21. ASSUME NEW s \in Shells, ReadShutdown(s)
      PROVE  Counting'
  BY <1>21 DEF ReadShutdown, Exit, GoTo
<1>22. ASSUME NEW s \in Shells, ReadEnd(s)
      PROVE  Counting'
  BY <1>22 DEF ReadEnd, Exit, GoTo
<1>23. ASSUME NEW s \in Shells, Connect(s)
      PROVE  Counting'
  BY <1>23 DEF Connect, GoTo
<1>24. ASSUME NEW s \in Shells, Tell(s)
      PROVE  Counting'
  BY <1>24 DEF Tell
<1>25. ASSUME NEW s \in Shells, Cut(s)
      PROVE  Counting'
  BY <1>25 DEF Cut
<1>26. CASE UNCHANGED vars
  BY <1>26 DEF vars
<1>27. QED
  BY <1>1, <1>2, <1>3, <1>4, <1>5, <1>6, <1>7, <1>8, <1>9, <1>10, <1>11, <1>12, <1>13, <1>14,
     <1>15, <1>16, <1>17, <1>18, <1>19, <1>20, <1>21, <1>22, <1>23, <1>24, <1>25, <1>26 DEF Next,
     ShellStep, KeeperStep

\* A probe is counted a pause after the one before.
LEMMA WindowStep == IInv /\ [Next]_vars => Window'
<1> SUFFICES ASSUME IInv, [Next]_vars PROVE Window'
  OBVIOUS
<1> USE KeeperAssumption
        DEF IInv, TypeOK, Launching, Holder, Counting, Window, Alone, Shells, ProbeHolder
<1>1. CASE Launch
  BY <1>1 DEF Launch, GoTo
<1>2. CASE LaunchTensorBoard
  BY <1>2 DEF LaunchTensorBoard, GoTo
<1>3. CASE TakeLease
  BY <1>3 DEF TakeLease, GoTo
<1>4. CASE TakeLeaseFails
  BY <1>4 DEF TakeLeaseFails, GoTo
<1>5. CASE StartKeeper
  BY <1>5, PausesGrow DEF StartKeeper, GoTo
<1>6. CASE FindGroup
  BY <1>6 DEF FindGroup, KeeperGoes
<1>7. CASE Look
  <2>1. (idle' = idle /\ nap' = nap) \/ (idle' = 0 /\ nap' = Check)
    <3> HIDE DEF IInv, TypeOK, Launching, Holder, Counting, Window
    <3>1. CASE marker
      BY <1>7, <3>1 DEF Look
    <3>2. CASE ~marker
      BY <1>7, <3>2 DEF Look
    <3>3. QED
      BY <3>1, <3>2
  <2>2. free' = free /\ shell' = shell /\ (lease' \in Shells => lease \in Shells)
    BY <1>7 DEF Look, KeeperGoes
  <2>3. keeper = "look"
    BY <1>7 DEF Look
  <2>4. free \in Nat /\ Check \in Nat /\ Pauses(0) = 0
    BY PausesGrow
  <2>5. QED
    BY <2>1, <2>2, <2>3, <2>4
<1>8. CASE Probed
  <2>1. /\ keeper = "probing" /\ lease' = 0
        /\ shell' = shell /\ free' = free /\ idle' = idle + 1
        /\ keeper' = "expire" \/ (keeper' = "nap" /\ nap' = Check)
    <3> HIDE DEF IInv, TypeOK, Launching, Holder, Counting, Window
    <3>1. QED
      BY <1>8 DEF Probed, KeeperGoes
  <2>2. idle \in Nat /\ free \in Nat /\ Check \in Nat
    BY Probes
  <2>3. Pauses(idle) \in Nat /\ Pauses(idle + 1) = Pauses(idle) + Check
    BY <2>2, PausesGrow
  <2>4. nap = 0
    BY <2>1
  <2>5. QED
    BY <2>1, <2>2, <2>3, <2>4
<1>9. CASE Wake
  BY <1>9 DEF Wake, KeeperGoes
<1>10. CASE Kill
  BY <1>10 DEF Kill, KeeperGoes
<1>11. CASE Remove
  BY <1>11 DEF Remove, KeeperGoes
<1>12. CASE Setsid
  BY <1>12 DEF Setsid
<1>13. CASE ServiceDies
  BY <1>13 DEF ServiceDies
<1>14. CASE Tick
  <2>1. /\ shell' = shell /\ keeper' = keeper /\ idle' = idle /\ lease' = lease
        /\ nap' = IF nap > 0 THEN nap - 1 ELSE 0
        /\ free' = IF lease \in Shells THEN 0 ELSE IF free < Grace THEN free + 1 ELSE free
    BY <1>14 DEF Tick
  <2>2. idle \in Nat /\ free \in 0..Grace /\ nap \in Nat /\ Grace \in Nat
    BY Probes
  <2>3. Pauses(idle) \in Nat /\ Pauses(0) = 0
    BY <2>2, PausesGrow
  <2>4. nap' \in Nat /\ free' \in Nat
    BY <2>1, <2>2
  <2>5. lease \notin Shells =>
          (free = Grace => free' = Grace) /\ (free + nap >= Pauses(idle) =>
             free' = Grace \/ free' + nap' >= Pauses(idle))
    BY <2>1, <2>2, <2>3
  <2>6. idle = 0 => free' + nap' >= Pauses(idle)
    BY <2>3, <2>4
  <2>7. idle > 0 \/ idle = 0
    BY <2>2
  <2>8. QED
    <3> HIDE DEF IInv, TypeOK, Launching, Holder, Counting
    <3>1. Window
      BY DEF IInv
    <3>2. QED
      BY <2>1, <2>5, <2>6, <2>7, <3>1
<1>15. ASSUME NEW s \in Shells, CheckSocket(s)
      PROVE  Window'
  BY <1>15 DEF CheckSocket, GoTo
<1>16. ASSUME NEW s \in Shells, TryLock(s)
      PROVE  Window'
  BY <1>16 DEF TryLock, GoTo
<1>17. ASSUME NEW s \in Shells, Evict(s)
      PROVE  Window'
  BY <1>17 DEF Evict
<1>18. ASSUME NEW s \in Shells, WaitLock(s)
      PROVE  Window'
  BY <1>18 DEF WaitLock, GoTo
<1>19. ASSUME NEW s \in Shells, WaitExpires(s)
      PROVE  Window'
  BY <1>19 DEF WaitExpires, GoTo
<1>20. ASSUME NEW s \in Shells, WriteWatcher(s)
      PROVE  Window'
  BY <1>20 DEF WriteWatcher, GoTo
<1>21. ASSUME NEW s \in Shells, ReadShutdown(s)
      PROVE  Window'
  BY <1>21 DEF ReadShutdown, Exit, GoTo
<1>22. ASSUME NEW s \in Shells, ReadEnd(s)
      PROVE  Window'
  BY <1>22 DEF ReadEnd, Exit, GoTo
<1>23. ASSUME NEW s \in Shells, Connect(s)
      PROVE  Window'
  BY <1>23 DEF Connect, GoTo
<1>24. ASSUME NEW s \in Shells, Tell(s)
      PROVE  Window'
  BY <1>24 DEF Tell
<1>25. ASSUME NEW s \in Shells, Cut(s)
      PROVE  Window'
  BY <1>25 DEF Cut
<1>26. CASE UNCHANGED vars
  BY <1>26 DEF vars
<1>27. QED
  BY <1>1, <1>2, <1>3, <1>4, <1>5, <1>6, <1>7, <1>8, <1>9, <1>10, <1>11, <1>12, <1>13, <1>14,
     <1>15, <1>16, <1>17, <1>18, <1>19, <1>20, <1>21, <1>22, <1>23, <1>24, <1>25, <1>26 DEF Next,
     ShellStep, KeeperStep

LEMMA IInvStep == IInv /\ [Next]_vars => IInv'
  BY TypeStep, LaunchingStep, HolderStep, KeptStep, CountingStep, WindowStep DEF IInv

\* The invariant holds in every behaviour.
LEMMA Invariance == Spec => []IInv
<1>1. IInv /\ [Next]_vars => IInv'
  BY IInvStep
<1>2. QED
  BY InitIInv, <1>1, PTL DEF Spec

-----------------------------------------------------------------------------
(***************************************************************************)
(* The results.                                                            *)
(***************************************************************************)

\* The types, for any number of shells, any window and any pause.
THEOREM TypeCorrect == Spec => []TypeOK
<1>1. IInv => TypeOK
  BY DEF IInv
<1>2. QED
  BY Invariance, <1>1, PTL

\* What a later re-attach and the keeper need is there as long as the service
\* runs, however many shells come and evict one another; a keeper that misses
\* its service does so at its first look and never again.
THEOREM ServiceIsKept == Spec => []ServiceKept
<1>1. IInv => ServiceKept
  BY DEF IInv, Holder, Kept, ServiceKept, RunDirOutlivesService, KeeperOutlivesService,
     MissedAtFirst
<1>2. QED
  BY Invariance, <1>1, PTL

\* A service nobody re-attaches to has at least its grace window less a pause,
\* whatever the window and the pause are.
THEOREM GraceIsNearlyFull == Spec => GraceNearlyFull
<1>1. IInv /\ [Next]_vars =>
        [keeper # "expire" /\ keeper' = "expire"
         /\ (\A s \in Shells : s > 1 => shell[s] = "none")
         => free + Check >= Grace]_vars
  <2> SUFFICES ASSUME IInv, [Next]_vars, keeper # "expire", keeper' = "expire", Alone
               PROVE  free + Check >= Grace
    BY DEF Alone
  <2>1. Probed
    BY DEF Next, ShellStep, KeeperStep, Launch, LaunchTensorBoard, TakeLease, TakeLeaseFails,
       StartKeeper, FindGroup, Look, Probed, Wake, Kill, Remove, Setsid, ServiceDies, Tick,
       CheckSocket, TryLock, Evict, WaitLock, WaitExpires, WriteWatcher, ReadShutdown, ReadEnd,
       Connect, Tell, Cut, KeeperGoes, vars
  <2>2. keeper = "probing" /\ GraceProbeCount <= idle + 1
    BY <2>1, Probes DEF Probed, KeeperGoes, IInv, TypeOK
  <2>3. nap = 0 /\ (free = Grace \/ free + nap >= Pauses(idle))
    BY <2>2 DEF IInv, Window, Counting
  <2>4. free \in Nat /\ idle \in Nat /\ Grace \in Nat /\ Check \in Nat
    BY KeeperAssumption, Probes DEF IInv, TypeOK
  <2>5. Pauses(idle) \in Nat /\ Pauses(idle + 1) = Pauses(idle) + Check /\ Pauses(idle + 1) >= Grace
    BY <2>2, <2>4, PausesGrow
  <2>6. QED
    BY <2>3, <2>4, <2>5
<1>2. QED
  BY Invariance, <1>1, PTL DEF Spec, GraceNearlyFull
=============================================================================
