--------------------------- MODULE Launcher_proofs ---------------------------
(***************************************************************************)
(* Proofs about Launcher, for any number of instances and of subprocesses: *)
(* the types, SingleTunnel, StoppedIsOver, RetiredNotRevived, CallsGoOn.   *)
(*                                                                         *)
(* The argument: a reattach replaces only a subprocess that is done, and   *)
(* until its candidate is the instance's own nobody else replaces it       *)
(* (Tunnels).  A retired instance keeps its subprocess, so the one that a  *)
(* stop was given is the one it waits for (Stops).  A service that is up   *)
(* while a subprocess of its instance is done was left by that subprocess  *)
(* (Outlived); and an instance leaves the list only into the hands of a    *)
(* stop or of the close (Lists).                                           *)
(***************************************************************************)
EXTENDS Launcher, FiniteSetTheorems, TLAPS

\* Until startOnce has run its subprocess nobody knows the instance, and until
\* it is registered no stop, close or reattach does.
Fresh ==
    \A i \in Instances :
        /\ start[i] = "idle" =>
             /\ process[i] = 0 /\ i \notin todo \cup cur
             /\ \A n \in Procs : proc[i][n] = "none"
        /\ start[i] # "idle" => process[i] \in Procs
        /\ start[i] \in {"idle", "spawned"} =>
             i \notin list \cup retired /\ stopping[i] = "no"
        /\ start[i] = "idle" => ~finished[i]

Reattaching == {"swap", "sentinel", "probe", "confirm", "discard"}

\* A subprocess that runs is the one the instance holds, or the supervisor's
\* candidate, whose predecessor is done; and after the first, only when it is done.
Tunnels ==
    /\ \A i \in Instances : \A n \in Procs :
          /\ Running(i, n) /\ n # process[i] =>
               sup \in {"swap", "discard"} /\ i \in cur /\ n = cand
          /\ n # 1 /\ proc[i][n] # "none" => Done(i, 1)
    /\ sup \in Reattaching =>
          /\ cand \in Procs
          /\ \A i \in cur : cand # process[i] =>
                sup \in {"swap", "discard"} /\ Done(i, process[i])
    /\ \A i, j \in cur : i = j
    /\ sup \in {"loop"} \cup Reattaching => remote

\* Starts that have not failed.
Live == {"spawned", "waiting", "probing", "ready"}

\* A stop is given the subprocess the instance has from then on, and whoever
\* finishes the instance does it when that is done.
Stops ==
    \A i \in Instances :
        /\ stopping[i] # "no" => victim[i] \in Procs
        /\ stopping[i] = "over" => Done(i, 1)
        /\ stopping[i] # "no" /\ start[i] \in Live => victim[i] = process[i] /\ i \in retired
        /\ stopping[i] = "over" /\ start[i] \in Live => Done(i, process[i])
        /\ finished[i] /\ start[i] \in Live =>
             Done(i, process[i]) /\ ~available[i] /\ (remote => i \in retired)

\* A service that outlived a subprocess has lost it.
Outlived ==
    \A i \in Instances :
        service[i] = "up" /\ ~lost[i] => \A n \in Procs : ~Done(i, n)

\* Whoever takes an instance off the list stops it.
Lists ==
    /\ closed <=> sup \in {"closing", "closed"}
    /\ closed => list = {}
    /\ sup = "closing" => todo \subseteq retired
    /\ \A i \in Instances : start[i] \in Live \ {"spawned"} =>
          /\ i \in list \cup retired
          /\ i \in retired =>
               halt[i] = "busy" \/ stopping[i] = "over" \/ (sup = "closing" /\ i \in todo)

\* Who waits for a stop or a subprocess: the stop has begun and the subprocess
\* was started, and was told to end by the time it is waited for.
Waits ==
    /\ \A i \in Instances :
          /\ start[i] # "idle" => proc[i][1] # "none" /\ proc[i][process[i]] # "none"
          /\ stopping[i] # "no" =>
               proc[i][victim[i]] # "none" /\ start[i] # "idle" /\ victim[i] <= process[i]
          /\ stopping[i] = "waiting" => Ends(i, victim[i])
          /\ halt[i] = "busy" \/ start[i] = "failing" \/ (sup = "closing" /\ i \in cur)
               => stopping[i] # "no"
    /\ sup \in {"idle", "loop"} => cur = {}
    /\ sup = "closing" => cur \subseteq todo
    /\ sup \in Reattaching =>
          /\ cur # {}
          /\ \A i \in cur :
                proc[i][cand] # "none" /\ process[i] <= cand /\ (sup = "discard" => Ends(i, cand))

IInv == TypeOK /\ Fresh /\ Tunnels /\ Stops /\ Outlived /\ Lists /\ Waits

-----------------------------------------------------------------------------
(***************************************************************************)
(* The invariant.                                                          *)
(***************************************************************************)
\* The supervisor is at one instance at most.
LEMMA Singletons ==
    /\ Cardinality({}) <= 1
    /\ \A i : Cardinality({i}) <= 1
  BY FS_EmptySet, FS_Singleton

LEMMA InitIInv == Init => IInv
<1> SUFFICES ASSUME Init PROVE IInv
  OBVIOUS
<1> USE LauncherAssumption DEF Init
<1>1. TypeOK
  <2> HIDE DEF Init
  <2>1. /\ available \in [Instances -> BOOLEAN] /\ finished \in [Instances -> BOOLEAN]
        /\ lost \in [Instances -> BOOLEAN]
    BY Zenon DEF Init
  <2>2. proc \in [Instances -> [Procs -> {"none", "running", "done"}]]
    BY DEF Init
  <2>3. /\ closed \in BOOLEAN /\ remote \in BOOLEAN
        /\ Cardinality(cur) <= 1 /\ cur \subseteq Instances
    BY Singletons, Zenon DEF Init
  <2>4. /\ list \subseteq Instances /\ retired \subseteq Instances /\ todo \subseteq Instances
        /\ app \in {"jupyter", "tensorboard"}
        /\ process \in [Instances -> 0..MaxProcs]
        /\ stopping \in [Instances -> {"no", "begun", "waiting", "over"}]
        /\ victim \in [Instances -> 0..MaxProcs]
        /\ told \in [Instances -> SUBSET Procs]
        /\ service \in [Instances -> {"none", "up", "down"}]
        /\ start \in [Instances -> {"idle", "spawned", "waiting", "probing", "failing", "failed", "ready"}]
        /\ halt \in [Instances -> {"idle", "busy", "returned"}]
        /\ sup \in {"idle", "loop", "swap", "sentinel", "probe", "confirm", "discard", "closing", "closed"}
        /\ cand \in 0..MaxProcs
    BY DEF Init
  <2>5. QED
    BY <2>1, <2>2, <2>3, <2>4, Zenon DEF TypeOK
<1>2. Fresh
  BY DEF Fresh
<1>3. Tunnels
  BY DEF Tunnels, Reattaching, Running
<1>4. Stops
  BY DEF Stops, Live
<1>5. Outlived
  BY DEF Outlived
<1>6. Lists
  BY DEF Lists, Live
<1>7. Waits
  BY DEF Waits, Reattaching
<1>8. QED
  BY <1>1, <1>2, <1>3, <1>4, <1>5, <1>6, <1>7 DEF IInv

\* The helpers keep the types of what they change.
LEMMA EnterStopTypes ==
    ASSUME NEW i \in Instances, NEW n \in 0..MaxProcs, EnterStop(i, n),
           stopping \in [Instances -> {"no", "begun", "waiting", "over"}],
           victim \in [Instances -> 0..MaxProcs]
    PROVE  /\ stopping' \in [Instances -> {"no", "begun", "waiting", "over"}]
           /\ victim' \in [Instances -> 0..MaxProcs]
<1>1. CASE stopping[i] = "no"
  BY <1>1 DEF EnterStop
<1>2. CASE stopping[i] # "no"
  BY <1>2 DEF EnterStop
<1>3. QED
  BY <1>1, <1>2

LEMMA DiscardTypes ==
    ASSUME TypeOK, cand \in Procs, NEW i \in Instances, Discard(i)
    PROVE  told' \in [Instances -> SUBSET Procs] /\ sup' = "discard"
<1>1. CASE Running(i, cand)
  BY <1>1 DEF Discard, TypeOK
<1>2. CASE ~Running(i, cand)
  BY <1>2 DEF Discard, TypeOK
<1>3. QED
  BY <1>1, <1>2

\* Every action keeps the types.
LEMMA TypeStep == IInv /\ [Next]_vars => TypeOK'
<1> SUFFICES ASSUME IInv, [Next]_vars PROVE TypeOK'
  OBVIOUS
<1> USE LauncherAssumption
        DEF IInv, TypeOK, Fresh, Procs, recordVars, procVars, supVars, kind, Running, Done
<1>1. CASE Close
  BY <1>1 DEF Close
<1>2. CASE CloseReturns
  BY <1>2 DEF CloseReturns
<1>3. CASE Reattach
  BY <1>3 DEF Reattach
<1>4. CASE ReattachReturns
  BY <1>4 DEF ReattachReturns
<1>5. CASE ReattachCanceled
  BY <1>5 DEF ReattachCanceled
<1>6. ASSUME NEW i \in Instances, CloseStop(i)
      PROVE  TypeOK'
  <2>1. Cardinality({i}) <= 1
    BY Singletons, Zenon
  <2>2. stopping' \in [Instances -> {"no", "begun", "waiting", "over"}]
        /\ victim' \in [Instances -> 0..MaxProcs]
    BY <1>6, EnterStopTypes DEF CloseStop
  <2>3. QED
    BY <1>6, <2>1, <2>2 DEF CloseStop
<1>7. ASSUME NEW i \in Instances, CloseStopped(i)
      PROVE  TypeOK'
  BY <1>7, Singletons DEF CloseStopped
<1>8. ASSUME NEW i \in Instances, ReattachSkip(i)
      PROVE  TypeOK'
  BY <1>8 DEF ReattachSkip
<1>9. ASSUME NEW i \in Instances, ReattachSpawn(i)
      PROVE  TypeOK'
  <2>1. process[i] + 1 \in Procs
    BY <1>9 DEF ReattachSpawn
  <2>2. proc' \in [Instances -> [Procs -> {"none", "running", "done"}]]
    BY <1>9, <2>1 DEF ReattachSpawn
  <2>3. Cardinality({i}) <= 1
    BY Singletons, Zenon
  <2>4. QED
    BY <1>9, <2>1, <2>2, <2>3 DEF ReattachSpawn
<1>10. ASSUME NEW i \in Instances, ReattachSpawnFails(i)
      PROVE  TypeOK'
  BY <1>10 DEF ReattachSpawnFails
<1>11. ASSUME NEW i \in Instances, Swap(i)
      PROVE  TypeOK'
  <2>1. CASE closed \/ i \in retired
    BY <1>11, <2>1, DiscardTypes DEF Swap, Tunnels, Reattaching
  <2>2. CASE ~(closed \/ i \in retired)
    <3>1. /\ process' = [process EXCEPT ![i] = cand]
          /\ sup' = IF app = "jupyter" THEN "probe" ELSE "sentinel"
          /\ UNCHANGED <<told, list, closed, kind, retired, stopping, victim, available, finished,
                         proc, service, lost, start, halt, todo, cur, cand>>
      BY <1>11, <2>2 DEF Swap
    <3>2. QED
      BY <3>1
  <2>3. QED
    BY <2>1, <2>2
<1>12. ASSUME NEW i \in Instances, ReattachSentinel(i)
      PROVE  TypeOK'
  BY <1>12 DEF ReattachSentinel
<1>13. ASSUME NEW i \in Instances, ProbeReady(i)
      PROVE  TypeOK'
  BY <1>13 DEF ProbeReady
<1>14. ASSUME NEW i \in Instances, ProbeFails(i)
      PROVE  TypeOK'
  BY <1>14, DiscardTypes DEF ProbeFails, Tunnels, Reattaching
<1>15. ASSUME NEW i \in Instances, Confirm(i)
      PROVE  TypeOK'
  <2>1. CASE closed \/ i \in retired
    BY <1>15, <2>1, DiscardTypes DEF Confirm, Tunnels, Reattaching
  <2>2. CASE ~(closed \/ i \in retired)
    <3>1. /\ available' = [available EXCEPT ![i] = TRUE]
          /\ todo' = todo \ {i} /\ cur' = {} /\ sup' = "loop"
          /\ UNCHANGED <<told, list, closed, kind, process, retired, stopping, victim, finished,
                         proc, service, lost, start, halt, cand>>
      BY <1>15, <2>2 DEF Confirm
    <3>2. available' \in [Instances -> BOOLEAN]
      BY <3>1, Zenon
    <3>3. Cardinality(cur') <= 1
      BY <3>1, Singletons, Zenon
    <3>4. QED
      BY <3>1, <3>2, <3>3
  <2>3. QED
    BY <2>1, <2>2
<1>16. ASSUME NEW i \in Instances, Discarded(i)
      PROVE  TypeOK'
  BY <1>16, Singletons DEF Discarded
<1>17. ASSUME NEW i \in Instances, Spawn(i)
      PROVE  TypeOK'
  BY <1>17 DEF Spawn
<1>18. ASSUME NEW i \in Instances, FrameFails(i)
      PROVE  TypeOK'
  <2>1. stopping' \in [Instances -> {"no", "begun", "waiting", "over"}]
        /\ victim' \in [Instances -> 0..MaxProcs]
    <3>1. EnterStop(i, 1) /\ 1 \in 0..MaxProcs
      BY <1>18 DEF FrameFails
    <3>2. QED
      BY <3>1, EnterStopTypes, Zenon
  <2>2. QED
    BY <1>18, <2>1 DEF FrameFails
<1>19. ASSUME NEW i \in Instances, Register(i)
      PROVE  TypeOK'
  BY <1>19 DEF Register
<1>20. ASSUME NEW i \in Instances, Refused(i)
      PROVE  TypeOK'
  BY <1>20, EnterStopTypes DEF Refused
<1>21. ASSUME NEW i \in Instances, StartSentinel(i)
      PROVE  TypeOK'
  BY <1>21 DEF StartSentinel
<1>22. ASSUME NEW i \in Instances, StartReady(i)
      PROVE  TypeOK'
  BY <1>22 DEF StartReady
<1>23. ASSUME NEW i \in Instances, StartFails(i)
      PROVE  TypeOK'
  <2>1. CASE app = "jupyter"
    <3>1. EnterStop(i, process[i])
      BY <1>23, <2>1 DEF StartFails
    <3>2. stopping' \in [Instances -> {"no", "begun", "waiting", "over"}]
          /\ victim' \in [Instances -> 0..MaxProcs]
      BY <3>1, EnterStopTypes
    <3>3. QED
      BY <1>23, <3>2 DEF StartFails
  <2>2. CASE app # "jupyter"
    <3>1. EnterStop(i, 1) /\ 1 \in 0..MaxProcs
      BY <1>23, <2>2 DEF StartFails
    <3>2. stopping' \in [Instances -> {"no", "begun", "waiting", "over"}]
          /\ victim' \in [Instances -> 0..MaxProcs]
      BY <3>1, EnterStopTypes, Zenon
    <3>3. QED
      BY <1>23, <3>2 DEF StartFails
  <2>3. QED
    BY <2>1, <2>2
<1>24. ASSUME NEW i \in Instances, StartReturnsError(i)
      PROVE  TypeOK'
  BY <1>24 DEF StartReturnsError
<1>25. ASSUME NEW i \in Instances, Stop(i)
      PROVE  TypeOK'
  <2>1. CASE i \in retired
    <3>1. /\ halt' = [halt EXCEPT ![i] = "returned"]
          /\ UNCHANGED <<list, retired, stopping, victim, closed, kind, process, available, finished,
                         procVars, start, supVars>>
      BY <1>25, <2>1 DEF Stop
    <3>2. halt' \in [Instances -> {"idle", "busy", "returned"}]
      BY <3>1
    <3>3. QED
      BY <3>1, <3>2, Zenon
  <2>2. CASE ~(i \in retired)
    <3>1. /\ halt' = [halt EXCEPT ![i] = "busy"]
          /\ retired' = retired \cup {i} /\ list' = list \ {i}
          /\ EnterStop(i, process[i]) /\ process[i] \in 0..MaxProcs
          /\ UNCHANGED <<closed, kind, process, available, finished, procVars, start, supVars>>
      BY <1>25, <2>2 DEF Stop
    <3>2. stopping' \in [Instances -> {"no", "begun", "waiting", "over"}]
          /\ victim' \in [Instances -> 0..MaxProcs]
      BY <3>1, EnterStopTypes, Zenon
    <3>3. /\ halt' \in [Instances -> {"idle", "busy", "returned"}]
          /\ retired' \subseteq Instances /\ list' \subseteq Instances
      BY <3>1
    <3>4. QED
      BY <3>1, <3>2, <3>3, Zenon
  <2>3. QED
    BY <2>1, <2>2
<1>26. ASSUME NEW i \in Instances, SendShutdown(i)
      PROVE  TypeOK'
  <2>1. CASE Running(i, victim[i])
    BY <1>26, <2>1 DEF SendShutdown, Stops
  <2>2. CASE ~(Running(i, victim[i]))
    BY <1>26, <2>2 DEF SendShutdown, Stops
  <2>3. QED
    BY <2>1, <2>2
<1>27. ASSUME NEW i \in Instances, FinishStop(i)
      PROVE  TypeOK'
  BY <1>27 DEF FinishStop
<1>28. ASSUME NEW i \in Instances, StopReturns(i)
      PROVE  TypeOK'
  BY <1>28 DEF StopReturns
<1>29. ASSUME NEW i \in Instances, ServiceUp(i)
      PROVE  TypeOK'
  BY <1>29 DEF ServiceUp
<1>30. ASSUME NEW i \in Instances, ServiceEnds(i)
      PROVE  TypeOK'
  BY <1>30 DEF ServiceEnds
<1>31. ASSUME NEW i \in Instances, NEW n \in Procs, ShellObeys(i, n)
      PROVE  TypeOK'
  BY <1>31 DEF ShellObeys, OnDone
<1>32. ASSUME NEW i \in Instances, NEW n \in Procs, ProcessEnds(i, n)
      PROVE  TypeOK'
  BY <1>32 DEF ProcessEnds, OnDone
<1>33. CASE UNCHANGED vars
  BY <1>33 DEF vars
<1>34. QED
  BY <1>1, <1>2, <1>3, <1>4, <1>5, <1>6, <1>7, <1>8, <1>9, <1>10, <1>11, <1>12, <1>13, <1>14,
     <1>15, <1>16, <1>17, <1>18, <1>19, <1>20, <1>21, <1>22, <1>23, <1>24, <1>25, <1>26, <1>27,
     <1>28, <1>29, <1>30, <1>31, <1>32, <1>33
     DEF Next, CloseStep, ReattachStep, StartStep, StopStep, Process

\* Nobody knows an instance before it is registered.
LEMMA FreshStep == IInv /\ [Next]_vars => Fresh'
<1> SUFFICES ASSUME IInv, [Next]_vars PROVE Fresh'
  OBVIOUS
<1> USE LauncherAssumption
        DEF IInv, TypeOK, Fresh, Lists, Procs, Live, recordVars, procVars, supVars, kind,
            Running, Done
<1>1. CASE Close
  BY <1>1 DEF Close
<1>2. CASE CloseReturns
  BY <1>2 DEF CloseReturns
<1>3. CASE Reattach
  BY <1>3 DEF Reattach
<1>4. CASE ReattachReturns
  BY <1>4 DEF ReattachReturns
<1>5. CASE ReattachCanceled
  BY <1>5 DEF ReattachCanceled
<1>6. ASSUME NEW i \in Instances, CloseStop(i)
      PROVE  Fresh'
  BY <1>6 DEF CloseStop, EnterStop
<1>7. ASSUME NEW i \in Instances, CloseStopped(i)
      PROVE  Fresh'
  BY <1>7 DEF CloseStopped
<1>8. ASSUME NEW i \in Instances, ReattachSkip(i)
      PROVE  Fresh'
  BY <1>8 DEF ReattachSkip
<1>9. ASSUME NEW i \in Instances, ReattachSpawn(i)
      PROVE  Fresh'
  BY <1>9 DEF ReattachSpawn
<1>10. ASSUME NEW i \in Instances, ReattachSpawnFails(i)
      PROVE  Fresh'
  BY <1>10 DEF ReattachSpawnFails
<1>11. ASSUME NEW i \in Instances, Swap(i)
      PROVE  Fresh'
  <2>1. CASE closed \/ i \in retired
    BY <1>11, <2>1 DEF Swap, Discard, Tunnels, Reattaching
  <2>2. CASE ~(closed \/ i \in retired)
    BY <1>11, <2>2 DEF Swap, Discard, Tunnels, Reattaching
  <2>3. QED
    BY <2>1, <2>2
<1>12. ASSUME NEW i \in Instances, ReattachSentinel(i)
      PROVE  Fresh'
  BY <1>12 DEF ReattachSentinel
<1>13. ASSUME NEW i \in Instances, ProbeReady(i)
      PROVE  Fresh'
  BY <1>13 DEF ProbeReady
<1>14. ASSUME NEW i \in Instances, ProbeFails(i)
      PROVE  Fresh'
  BY <1>14 DEF ProbeFails, Discard
<1>15. ASSUME NEW i \in Instances, Confirm(i)
      PROVE  Fresh'
  BY <1>15 DEF Confirm, Discard
<1>16. ASSUME NEW i \in Instances, Discarded(i)
      PROVE  Fresh'
  BY <1>16 DEF Discarded
<1>17. ASSUME NEW i \in Instances, Spawn(i)
      PROVE  Fresh'
  BY <1>17 DEF Spawn
<1>18. ASSUME NEW i \in Instances, FrameFails(i)
      PROVE  Fresh'
  BY <1>18 DEF FrameFails, EnterStop
<1>19. ASSUME NEW i \in Instances, Register(i)
      PROVE  Fresh'
  BY <1>19 DEF Register
<1>20. ASSUME NEW i \in Instances, Refused(i)
      PROVE  Fresh'
  BY <1>20 DEF Refused, EnterStop
<1>21. ASSUME NEW i \in Instances, StartSentinel(i)
      PROVE  Fresh'
  BY <1>21 DEF StartSentinel
<1>22. ASSUME NEW i \in Instances, StartReady(i)
      PROVE  Fresh'
  BY <1>22 DEF StartReady
<1>23. ASSUME NEW i \in Instances, StartFails(i)
      PROVE  Fresh'
  BY <1>23 DEF StartFails, EnterStop
<1>24. ASSUME NEW i \in Instances, StartReturnsError(i)
      PROVE  Fresh'
  BY <1>24 DEF StartReturnsError
<1>25. ASSUME NEW i \in Instances, Stop(i)
      PROVE  Fresh'
  BY <1>25 DEF Stop, EnterStop
<1>26. ASSUME NEW i \in Instances, SendShutdown(i)
      PROVE  Fresh'
  BY <1>26 DEF SendShutdown
<1>27. ASSUME NEW i \in Instances, FinishStop(i)
      PROVE  Fresh'
  BY <1>27 DEF FinishStop
<1>28. ASSUME NEW i \in Instances, StopReturns(i)
      PROVE  Fresh'
  BY <1>28 DEF StopReturns
<1>29. ASSUME NEW i \in Instances, ServiceUp(i)
      PROVE  Fresh'
  BY <1>29 DEF ServiceUp
<1>30. ASSUME NEW i \in Instances, ServiceEnds(i)
      PROVE  Fresh'
  BY <1>30 DEF ServiceEnds
<1>31. ASSUME NEW i \in Instances, NEW n \in Procs, ShellObeys(i, n)
      PROVE  Fresh'
  BY <1>31 DEF ShellObeys, OnDone
<1>32. ASSUME NEW i \in Instances, NEW n \in Procs, ProcessEnds(i, n)
      PROVE  Fresh'
  BY <1>32 DEF ProcessEnds, OnDone
<1>33. CASE UNCHANGED vars
  BY <1>33 DEF vars
<1>34. QED
  BY <1>1, <1>2, <1>3, <1>4, <1>5, <1>6, <1>7, <1>8, <1>9, <1>10, <1>11, <1>12, <1>13, <1>14,
     <1>15, <1>16, <1>17, <1>18, <1>19, <1>20, <1>21, <1>22, <1>23, <1>24, <1>25, <1>26, <1>27,
     <1>28, <1>29, <1>30, <1>31, <1>32, <1>33
     DEF Next, CloseStep, ReattachStep, StartStep, StopStep, Process

\* A reattach starts a subprocess when all others are done.
LEMMA TunnelsStep == IInv /\ [Next]_vars => Tunnels'
<1> SUFFICES ASSUME IInv, [Next]_vars PROVE Tunnels'
  OBVIOUS
<1> USE LauncherAssumption
        DEF IInv, TypeOK, Fresh, Tunnels, Reattaching, Procs, recordVars, procVars, supVars,
            kind, Running, Done
<1>1. CASE Close
  BY <1>1 DEF Close
<1>2. CASE CloseReturns
  BY <1>2 DEF CloseReturns
<1>3. CASE Reattach
  BY <1>3 DEF Reattach
<1>4. CASE ReattachReturns
  BY <1>4 DEF ReattachReturns
<1>5. CASE ReattachCanceled
  BY <1>5 DEF ReattachCanceled
<1>6. ASSUME NEW i \in Instances, CloseStop(i)
      PROVE  Tunnels'
  BY <1>6 DEF CloseStop, EnterStop
<1>7. ASSUME NEW i \in Instances, CloseStopped(i)
      PROVE  Tunnels'
  BY <1>7 DEF CloseStopped
<1>8. ASSUME NEW i \in Instances, ReattachSkip(i)
      PROVE  Tunnels'
  BY <1>8 DEF ReattachSkip
<1>9. ASSUME NEW i \in Instances, ReattachSpawn(i)
      PROVE  Tunnels'
  <2>1. /\ sup = "loop" /\ remote /\ i \in todo /\ Done(i, process[i]) /\ start[i] # "idle"
        /\ process[i] \in Procs /\ process[i] + 1 \in Procs
        /\ cur' = {i} /\ cand' = process[i] + 1 /\ sup' = "swap"
        /\ proc' = [proc EXCEPT ![i][process[i] + 1] = "running"]
        /\ UNCHANGED <<process, remote>>
    BY <1>9 DEF ReattachSpawn
  <2>2. \A j \in Instances, n \in Procs : j # i \/ n # process[i] + 1 => proc'[j][n] = proc[j][n]
    BY <2>1
  <2>3. Done(i, 1)
    BY <2>1
  <2>4. process[i] + 1 # 1 /\ process[i] + 1 # process[i]
    BY <2>1
  <2>5. Done(i, 1)' /\ Done(i, process[i])'
    BY <2>1, <2>2, <2>3, <2>4
  <2> QED
    BY <2>1, <2>2, <2>4, <2>5
<1>10. ASSUME NEW i \in Instances, ReattachSpawnFails(i)
      PROVE  Tunnels'
  BY <1>10 DEF ReattachSpawnFails
<1>11. ASSUME NEW i \in Instances, Swap(i)
      PROVE  Tunnels'
  BY <1>11 DEF Swap, Discard
<1>12. ASSUME NEW i \in Instances, ReattachSentinel(i)
      PROVE  Tunnels'
  BY <1>12 DEF ReattachSentinel
<1>13. ASSUME NEW i \in Instances, ProbeReady(i)
      PROVE  Tunnels'
  BY <1>13 DEF ProbeReady
<1>14. ASSUME NEW i \in Instances, ProbeFails(i)
      PROVE  Tunnels'
  BY <1>14 DEF ProbeFails, Discard
<1>15. ASSUME NEW i \in Instances, Confirm(i)
      PROVE  Tunnels'
  BY <1>15 DEF Confirm, Discard
<1>16. ASSUME NEW i \in Instances, Discarded(i)
      PROVE  Tunnels'
  BY <1>16 DEF Discarded
<1>17. ASSUME NEW i \in Instances, Spawn(i)
      PROVE  Tunnels'
  BY <1>17 DEF Spawn
<1>18. ASSUME NEW i \in Instances, FrameFails(i)
      PROVE  Tunnels'
  BY <1>18 DEF FrameFails, EnterStop
<1>19. ASSUME NEW i \in Instances, Register(i)
      PROVE  Tunnels'
  BY <1>19 DEF Register
<1>20. ASSUME NEW i \in Instances, Refused(i)
      PROVE  Tunnels'
  BY <1>20 DEF Refused, EnterStop
<1>21. ASSUME NEW i \in Instances, StartSentinel(i)
      PROVE  Tunnels'
  BY <1>21 DEF StartSentinel
<1>22. ASSUME NEW i \in Instances, StartReady(i)
      PROVE  Tunnels'
  BY <1>22 DEF StartReady
<1>23. ASSUME NEW i \in Instances, StartFails(i)
      PROVE  Tunnels'
  BY <1>23 DEF StartFails, EnterStop
<1>24. ASSUME NEW i \in Instances, StartReturnsError(i)
      PROVE  Tunnels'
  BY <1>24 DEF StartReturnsError
<1>25. ASSUME NEW i \in Instances, Stop(i)
      PROVE  Tunnels'
  BY <1>25 DEF Stop, EnterStop
<1>26. ASSUME NEW i \in Instances, SendShutdown(i)
      PROVE  Tunnels'
  BY <1>26 DEF SendShutdown
<1>27. ASSUME NEW i \in Instances, FinishStop(i)
      PROVE  Tunnels'
  BY <1>27 DEF FinishStop
<1>28. ASSUME NEW i \in Instances, StopReturns(i)
      PROVE  Tunnels'
  BY <1>28 DEF StopReturns
<1>29. ASSUME NEW i \in Instances, ServiceUp(i)
      PROVE  Tunnels'
  BY <1>29 DEF ServiceUp
<1>30. ASSUME NEW i \in Instances, ServiceEnds(i)
      PROVE  Tunnels'
  BY <1>30 DEF ServiceEnds
<1>31. ASSUME NEW i \in Instances, NEW n \in Procs, ShellObeys(i, n)
      PROVE  Tunnels'
  BY <1>31 DEF ShellObeys, OnDone
<1>32. ASSUME NEW i \in Instances, NEW n \in Procs, ProcessEnds(i, n)
      PROVE  Tunnels'
  BY <1>32 DEF ProcessEnds, OnDone
<1>33. CASE UNCHANGED vars
  BY <1>33 DEF vars
<1>34. QED
  BY <1>1, <1>2, <1>3, <1>4, <1>5, <1>6, <1>7, <1>8, <1>9, <1>10, <1>11, <1>12, <1>13, <1>14,
     <1>15, <1>16, <1>17, <1>18, <1>19, <1>20, <1>21, <1>22, <1>23, <1>24, <1>25, <1>26, <1>27,
     <1>28, <1>29, <1>30, <1>31, <1>32, <1>33
     DEF Next, CloseStep, ReattachStep, StartStep, StopStep, Process

\* A stop waits for the subprocess that the instance keeps.
LEMMA StopsStep == IInv /\ [Next]_vars => Stops'
<1> SUFFICES ASSUME IInv, [Next]_vars PROVE Stops'
  OBVIOUS
<1> USE LauncherAssumption
        DEF IInv, TypeOK, Fresh, Tunnels, Stops, Lists, Reattaching, Live, Procs, recordVars,
            procVars, supVars, kind, Running, Done
<1>1. CASE Close
  BY <1>1 DEF Close
<1>2. CASE CloseReturns
  BY <1>2 DEF CloseReturns
<1>3. CASE Reattach
  BY <1>3 DEF Reattach
<1>4. CASE ReattachReturns
  BY <1>4 DEF ReattachReturns
<1>5. CASE ReattachCanceled
  BY <1>5 DEF ReattachCanceled
<1>6. ASSUME NEW i \in Instances, CloseStop(i)
      PROVE  Stops'
  BY <1>6 DEF CloseStop, EnterStop
<1>7. ASSUME NEW i \in Instances, CloseStopped(i)
      PROVE  Stops'
  BY <1>7 DEF CloseStopped
<1>8. ASSUME NEW i \in Instances, ReattachSkip(i)
      PROVE  Stops'
  BY <1>8 DEF ReattachSkip
<1>9. ASSUME NEW i \in Instances, ReattachSpawn(i)
      PROVE  Stops'
  BY <1>9 DEF ReattachSpawn
<1>10. ASSUME NEW i \in Instances, ReattachSpawnFails(i)
      PROVE  Stops'
  BY <1>10 DEF ReattachSpawnFails
<1>11. ASSUME NEW i \in Instances, Swap(i)
      PROVE  Stops'
  <2>1. CASE closed \/ i \in retired
    BY <1>11, <2>1 DEF Swap, Discard
  <2>2. CASE ~(closed \/ i \in retired)
    BY <1>11, <2>2 DEF Swap, Discard
  <2>3. QED
    BY <2>1, <2>2
<1>12. ASSUME NEW i \in Instances, ReattachSentinel(i)
      PROVE  Stops'
  BY <1>12 DEF ReattachSentinel
<1>13. ASSUME NEW i \in Instances, ProbeReady(i)
      PROVE  Stops'
  BY <1>13 DEF ProbeReady
<1>14. ASSUME NEW i \in Instances, ProbeFails(i)
      PROVE  Stops'
  BY <1>14 DEF ProbeFails, Discard
<1>15. ASSUME NEW i \in Instances, Confirm(i)
      PROVE  Stops'
  <2>1. CASE closed \/ i \in retired
    BY <1>15, <2>1 DEF Confirm, Discard
  <2>2. CASE ~(closed \/ i \in retired)
    <3>1. /\ available' = [available EXCEPT ![i] = TRUE]
          /\ todo' = todo \ {i} /\ cur' = {} /\ sup' = "loop"
          /\ UNCHANGED <<told, list, closed, kind, process, retired, stopping, victim, finished,
                         proc, service, lost, start, halt, cand>>
      BY <1>15, <2>2 DEF Confirm
    <3>2. \A j \in Instances : j # i => available'[j] = available[j]
      BY <3>1
    <3>3. i \notin retired /\ remote
      BY <1>15, <2>2 DEF Confirm
    <3>4. ASSUME NEW j \in Instances
          PROVE  /\ stopping[j] # "no" => victim[j] \in Procs
                 /\ stopping[j] = "over" => Done(j, 1)
                 /\ stopping[j] # "no" /\ start[j] \in Live => victim[j] = process[j] /\ j \in retired
                 /\ stopping[j] = "over" /\ start[j] \in Live => Done(j, process[j])
                 /\ finished[j] /\ start[j] \in Live =>
                      Done(j, process[j]) /\ ~available'[j] /\ (remote => j \in retired)
      BY <3>2, <3>3
    <3>5. QED
      BY <3>1, <3>4
  <2>3. QED
    BY <2>1, <2>2
<1>16. ASSUME NEW i \in Instances, Discarded(i)
      PROVE  Stops'
  BY <1>16 DEF Discarded
<1>17. ASSUME NEW i \in Instances, Spawn(i)
      PROVE  Stops'
  BY <1>17 DEF Spawn
<1>18. ASSUME NEW i \in Instances, FrameFails(i)
      PROVE  Stops'
  BY <1>18 DEF FrameFails, EnterStop
<1>19. ASSUME NEW i \in Instances, Register(i)
      PROVE  Stops'
  BY <1>19 DEF Register
<1>20. ASSUME NEW i \in Instances, Refused(i)
      PROVE  Stops'
  BY <1>20 DEF Refused, EnterStop
<1>21. ASSUME NEW i \in Instances, StartSentinel(i)
      PROVE  Stops'
  BY <1>21 DEF StartSentinel
<1>22. ASSUME NEW i \in Instances, StartReady(i)
      PROVE  Stops'
  BY <1>22 DEF StartReady
<1>23. ASSUME NEW i \in Instances, StartFails(i)
      PROVE  Stops'
  BY <1>23 DEF StartFails, EnterStop
<1>24. ASSUME NEW i \in Instances, StartReturnsError(i)
      PROVE  Stops'
  BY <1>24 DEF StartReturnsError
<1>25. ASSUME NEW i \in Instances, Stop(i)
      PROVE  Stops'
  BY <1>25 DEF Stop, EnterStop
<1>26. ASSUME NEW i \in Instances, SendShutdown(i)
      PROVE  Stops'
  BY <1>26 DEF SendShutdown
<1>27. ASSUME NEW i \in Instances, FinishStop(i)
      PROVE  Stops'
  BY <1>27 DEF FinishStop
<1>28. ASSUME NEW i \in Instances, StopReturns(i)
      PROVE  Stops'
  BY <1>28 DEF StopReturns
<1>29. ASSUME NEW i \in Instances, ServiceUp(i)
      PROVE  Stops'
  BY <1>29 DEF ServiceUp
<1>30. ASSUME NEW i \in Instances, ServiceEnds(i)
      PROVE  Stops'
  BY <1>30 DEF ServiceEnds
<1>31. ASSUME NEW i \in Instances, NEW n \in Procs, ShellObeys(i, n)
      PROVE  Stops'
  BY <1>31 DEF ShellObeys, OnDone
<1>32. ASSUME NEW i \in Instances, NEW n \in Procs, ProcessEnds(i, n)
      PROVE  Stops'
  BY <1>32 DEF ProcessEnds, OnDone
<1>33. CASE UNCHANGED vars
  BY <1>33 DEF vars
<1>34. QED
  BY <1>1, <1>2, <1>3, <1>4, <1>5, <1>6, <1>7, <1>8, <1>9, <1>10, <1>11, <1>12, <1>13, <1>14,
     <1>15, <1>16, <1>17, <1>18, <1>19, <1>20, <1>21, <1>22, <1>23, <1>24, <1>25, <1>26, <1>27,
     <1>28, <1>29, <1>30, <1>31, <1>32, <1>33
     DEF Next, CloseStep, ReattachStep, StartStep, StopStep, Process

\* A service goes with the subprocess that obeys, and does not come up behind one.
LEMMA OutlivedStep == IInv /\ [Next]_vars => Outlived'
<1> SUFFICES ASSUME IInv, [Next]_vars PROVE Outlived'
  OBVIOUS
<1> USE LauncherAssumption
        DEF IInv, TypeOK, Fresh, Tunnels, Outlived, Procs, recordVars, procVars, supVars, kind,
            Running, Done
<1>1. CASE Close
  BY <1>1 DEF Close
<1>2. CASE CloseReturns
  BY <1>2 DEF CloseReturns
<1>3. CASE Reattach
  BY <1>3 DEF Reattach
<1>4. CASE ReattachReturns
  BY <1>4 DEF ReattachReturns
<1>5. CASE ReattachCanceled
  BY <1>5 DEF ReattachCanceled
<1>6. ASSUME NEW i \in Instances, CloseStop(i)
      PROVE  Outlived'
  BY <1>6 DEF CloseStop, EnterStop
<1>7. ASSUME NEW i \in Instances, CloseStopped(i)
      PROVE  Outlived'
  BY <1>7 DEF CloseStopped
<1>8. ASSUME NEW i \in Instances, ReattachSkip(i)
      PROVE  Outlived'
  BY <1>8 DEF ReattachSkip
<1>9. ASSUME NEW i \in Instances, ReattachSpawn(i)
      PROVE  Outlived'
  BY <1>9 DEF ReattachSpawn
<1>10. ASSUME NEW i \in Instances, ReattachSpawnFails(i)
      PROVE  Outlived'
  BY <1>10 DEF ReattachSpawnFails
<1>11. ASSUME NEW i \in Instances, Swap(i)
      PROVE  Outlived'
  BY <1>11 DEF Swap, Discard
<1>12. ASSUME NEW i \in Instances, ReattachSentinel(i)
      PROVE  Outlived'
  BY <1>12 DEF ReattachSentinel
<1>13. ASSUME NEW i \in Instances, ProbeReady(i)
      PROVE  Outlived'
  BY <1>13 DEF ProbeReady
<1>14. ASSUME NEW i \in Instances, ProbeFails(i)
      PROVE  Outlived'
  BY <1>14 DEF ProbeFails, Discard
<1>15. ASSUME NEW i \in Instances, Confirm(i)
      PROVE  Outlived'
  BY <1>15 DEF Confirm, Discard
<1>16. ASSUME NEW i \in Instances, Discarded(i)
      PROVE  Outlived'
  BY <1>16 DEF Discarded
<1>17. ASSUME NEW i \in Instances, Spawn(i)
      PROVE  Outlived'
  BY <1>17 DEF Spawn
<1>18. ASSUME NEW i \in Instances, FrameFails(i)
      PROVE  Outlived'
  BY <1>18 DEF FrameFails, EnterStop
<1>19. ASSUME NEW i \in Instances, Register(i)
      PROVE  Outlived'
  BY <1>19 DEF Register
<1>20. ASSUME NEW i \in Instances, Refused(i)
      PROVE  Outlived'
  BY <1>20 DEF Refused, EnterStop
<1>21. ASSUME NEW i \in Instances, StartSentinel(i)
      PROVE  Outlived'
  BY <1>21 DEF StartSentinel
<1>22. ASSUME NEW i \in Instances, StartReady(i)
      PROVE  Outlived'
  BY <1>22 DEF StartReady
<1>23. ASSUME NEW i \in Instances, StartFails(i)
      PROVE  Outlived'
  BY <1>23 DEF StartFails, EnterStop
<1>24. ASSUME NEW i \in Instances, StartReturnsError(i)
      PROVE  Outlived'
  BY <1>24 DEF StartReturnsError
<1>25. ASSUME NEW i \in Instances, Stop(i)
      PROVE  Outlived'
  BY <1>25 DEF Stop, EnterStop
<1>26. ASSUME NEW i \in Instances, SendShutdown(i)
      PROVE  Outlived'
  BY <1>26 DEF SendShutdown
<1>27. ASSUME NEW i \in Instances, FinishStop(i)
      PROVE  Outlived'
  BY <1>27 DEF FinishStop
<1>28. ASSUME NEW i \in Instances, StopReturns(i)
      PROVE  Outlived'
  BY <1>28 DEF StopReturns
<1>29. ASSUME NEW i \in Instances, ServiceUp(i)
      PROVE  Outlived'
  BY <1>29 DEF ServiceUp
<1>30. ASSUME NEW i \in Instances, ServiceEnds(i)
      PROVE  Outlived'
  BY <1>30 DEF ServiceEnds
<1>31. ASSUME NEW i \in Instances, NEW n \in Procs, ShellObeys(i, n)
      PROVE  Outlived'
  BY <1>31 DEF ShellObeys, OnDone
<1>32. ASSUME NEW i \in Instances, NEW n \in Procs, ProcessEnds(i, n)
      PROVE  Outlived'
  BY <1>32 DEF ProcessEnds, OnDone
<1>33. CASE UNCHANGED vars
  BY <1>33 DEF vars
<1>34. QED
  BY <1>1, <1>2, <1>3, <1>4, <1>5, <1>6, <1>7, <1>8, <1>9, <1>10, <1>11, <1>12, <1>13, <1>14,
     <1>15, <1>16, <1>17, <1>18, <1>19, <1>20, <1>21, <1>22, <1>23, <1>24, <1>25, <1>26, <1>27,
     <1>28, <1>29, <1>30, <1>31, <1>32, <1>33
     DEF Next, CloseStep, ReattachStep, StartStep, StopStep, Process

\* Instances go from the list to whoever stops them.
LEMMA ListsStep == IInv /\ [Next]_vars => Lists'
<1> SUFFICES ASSUME IInv, [Next]_vars PROVE Lists'
  OBVIOUS
<1> USE LauncherAssumption
        DEF IInv, TypeOK, Fresh, Tunnels, Stops, Lists, Reattaching, Live, Procs, recordVars,
            procVars, supVars, kind, Running, Done
<1>1. CASE Close
  BY <1>1 DEF Close
<1>2. CASE CloseReturns
  BY <1>2 DEF CloseReturns
<1>3. CASE Reattach
  BY <1>3 DEF Reattach
<1>4. CASE ReattachReturns
  BY <1>4 DEF ReattachReturns
<1>5. CASE ReattachCanceled
  BY <1>5 DEF ReattachCanceled
<1>6. ASSUME NEW i \in Instances, CloseStop(i)
      PROVE  Lists'
  BY <1>6 DEF CloseStop, EnterStop
<1>7. ASSUME NEW i \in Instances, CloseStopped(i)
      PROVE  Lists'
  BY <1>7 DEF CloseStopped
<1>8. ASSUME NEW i \in Instances, ReattachSkip(i)
      PROVE  Lists'
  BY <1>8 DEF ReattachSkip
<1>9. ASSUME NEW i \in Instances, ReattachSpawn(i)
      PROVE  Lists'
  BY <1>9 DEF ReattachSpawn
<1>10. ASSUME NEW i \in Instances, ReattachSpawnFails(i)
      PROVE  Lists'
  BY <1>10 DEF ReattachSpawnFails
<1>11. ASSUME NEW i \in Instances, Swap(i)
      PROVE  Lists'
  BY <1>11 DEF Swap, Discard
<1>12. ASSUME NEW i \in Instances, ReattachSentinel(i)
      PROVE  Lists'
  BY <1>12 DEF ReattachSentinel
<1>13. ASSUME NEW i \in Instances, ProbeReady(i)
      PROVE  Lists'
  BY <1>13 DEF ProbeReady
<1>14. ASSUME NEW i \in Instances, ProbeFails(i)
      PROVE  Lists'
  BY <1>14 DEF ProbeFails, Discard
<1>15. ASSUME NEW i \in Instances, Confirm(i)
      PROVE  Lists'
  BY <1>15 DEF Confirm, Discard
<1>16. ASSUME NEW i \in Instances, Discarded(i)
      PROVE  Lists'
  BY <1>16 DEF Discarded
<1>17. ASSUME NEW i \in Instances, Spawn(i)
      PROVE  Lists'
  BY <1>17 DEF Spawn
<1>18. ASSUME NEW i \in Instances, FrameFails(i)
      PROVE  Lists'
  BY <1>18 DEF FrameFails, EnterStop
<1>19. ASSUME NEW i \in Instances, Register(i)
      PROVE  Lists'
  BY <1>19 DEF Register
<1>20. ASSUME NEW i \in Instances, Refused(i)
      PROVE  Lists'
  BY <1>20 DEF Refused, EnterStop
<1>21. ASSUME NEW i \in Instances, StartSentinel(i)
      PROVE  Lists'
  BY <1>21 DEF StartSentinel
<1>22. ASSUME NEW i \in Instances, StartReady(i)
      PROVE  Lists'
  BY <1>22 DEF StartReady
<1>23. ASSUME NEW i \in Instances, StartFails(i)
      PROVE  Lists'
  BY <1>23 DEF StartFails, EnterStop
<1>24. ASSUME NEW i \in Instances, StartReturnsError(i)
      PROVE  Lists'
  BY <1>24 DEF StartReturnsError
<1>25. ASSUME NEW i \in Instances, Stop(i)
      PROVE  Lists'
  BY <1>25 DEF Stop, EnterStop
<1>26. ASSUME NEW i \in Instances, SendShutdown(i)
      PROVE  Lists'
  BY <1>26 DEF SendShutdown
<1>27. ASSUME NEW i \in Instances, FinishStop(i)
      PROVE  Lists'
  BY <1>27 DEF FinishStop
<1>28. ASSUME NEW i \in Instances, StopReturns(i)
      PROVE  Lists'
  BY <1>28 DEF StopReturns
<1>29. ASSUME NEW i \in Instances, ServiceUp(i)
      PROVE  Lists'
  BY <1>29 DEF ServiceUp
<1>30. ASSUME NEW i \in Instances, ServiceEnds(i)
      PROVE  Lists'
  BY <1>30 DEF ServiceEnds
<1>31. ASSUME NEW i \in Instances, NEW n \in Procs, ShellObeys(i, n)
      PROVE  Lists'
  BY <1>31 DEF ShellObeys, OnDone
<1>32. ASSUME NEW i \in Instances, NEW n \in Procs, ProcessEnds(i, n)
      PROVE  Lists'
  BY <1>32 DEF ProcessEnds, OnDone
<1>33. CASE UNCHANGED vars
  BY <1>33 DEF vars
<1>34. QED
  BY <1>1, <1>2, <1>3, <1>4, <1>5, <1>6, <1>7, <1>8, <1>9, <1>10, <1>11, <1>12, <1>13, <1>14,
     <1>15, <1>16, <1>17, <1>18, <1>19, <1>20, <1>21, <1>22, <1>23, <1>24, <1>25, <1>26, <1>27,
     <1>28, <1>29, <1>30, <1>31, <1>32, <1>33
     DEF Next, CloseStep, ReattachStep, StartStep, StopStep, Process

\* Whoever begins to wait finds what it waits for begun.
LEMMA WaitsStep == IInv /\ [Next]_vars => Waits'
<1> SUFFICES ASSUME IInv, [Next]_vars PROVE Waits'
  OBVIOUS
<1> USE LauncherAssumption
        DEF IInv, TypeOK, Fresh, Tunnels, Stops, Waits, Ends, Reattaching, Live, Procs, recordVars,
            procVars, supVars, kind, Running, Done
<1>1. CASE Close
  BY <1>1 DEF Close
<1>2. CASE CloseReturns
  BY <1>2 DEF CloseReturns
<1>3. CASE Reattach
  BY <1>3 DEF Reattach
<1>4. CASE ReattachReturns
  BY <1>4 DEF ReattachReturns
<1>5. CASE ReattachCanceled
  BY <1>5 DEF ReattachCanceled
<1>6. ASSUME NEW i \in Instances, CloseStop(i)
      PROVE  Waits'
  BY <1>6 DEF CloseStop, EnterStop
<1>7. ASSUME NEW i \in Instances, CloseStopped(i)
      PROVE  Waits'
  BY <1>7 DEF CloseStopped
<1>8. ASSUME NEW i \in Instances, ReattachSkip(i)
      PROVE  Waits'
  BY <1>8 DEF ReattachSkip
<1>9. ASSUME NEW i \in Instances, ReattachSpawn(i)
      PROVE  Waits'
  <2>1. /\ i \in Instances /\ process[i] \in Procs /\ process[i] + 1 \in Procs
        /\ cur' = {i} /\ cand' = process[i] + 1 /\ sup' = "swap"
        /\ proc' = [proc EXCEPT ![i][process[i] + 1] = "running"]
        /\ told' = [told EXCEPT ![i] = @ \ {process[i] + 1}]
        /\ UNCHANGED <<process, start, stopping, victim, halt, remote>>
    BY <1>9 DEF ReattachSpawn
  <2>2. \A j \in Instances, n \in Procs :
           /\ j # i \/ n # process[i] + 1 =>
                proc'[j][n] = proc[j][n] /\ (n \in told'[j] <=> n \in told[j])
           /\ proc[j][n] # "none" => proc'[j][n] # "none"
    BY <2>1
  <2>3. proc'[i][cand'] = "running" /\ process'[i] <= cand'
    BY <2>1
  <2>4. ASSUME NEW j \in Instances, stopping[j] # "no"
        PROVE  victim[j] \in Procs /\ (j # i \/ victim[j] # process[i] + 1)
    BY <2>1, <2>4
  <2>5. \A j \in Instances :
          /\ stopping'[j] # "no" =>
               proc'[j][victim'[j]] # "none" /\ start'[j] # "idle" /\ victim'[j] <= process'[j]
          /\ stopping'[j] = "waiting" => Ends(j, victim[j])'
    BY <2>1, <2>2, <2>4
  <2>6. \A j \in Instances : start'[j] # "idle" => proc'[j][1] # "none" /\ proc'[j][process'[j]] # "none"
    BY <2>1, <2>2
  <2>7. \A j \in Instances : halt'[j] = "busy" \/ start'[j] = "failing" => stopping'[j] # "no"
    BY <2>1
  <2> QED
    BY <2>1, <2>3, <2>5, <2>6, <2>7
<1>10. ASSUME NEW i \in Instances, ReattachSpawnFails(i)
      PROVE  Waits'
  BY <1>10 DEF ReattachSpawnFails
<1>11. ASSUME NEW i \in Instances, Swap(i)
      PROVE  Waits'
  <2>1. i \in cur /\ cur = {i} /\ cand \in Procs /\ sup' \in Reattaching
        /\ UNCHANGED <<remote, start, stopping, victim, halt, proc, cur, cand>>
    BY <1>11 DEF Swap, Discard
  <2>2. CASE closed \/ i \in retired
    <3>1. /\ UNCHANGED process /\ sup' = "discard"
          /\ told' = [told EXCEPT ![i] = IF Running(i, cand) THEN @ \cup {cand} ELSE @]
      BY <1>11, <2>2 DEF Swap, Discard
    <3>2. \A j \in Instances : told[j] \subseteq told'[j]
      BY <3>1
    <3>3. Running(i, cand) => cand \in told'[i]
      BY <3>1
    <3>4. proc[i][cand] # "none" /\ process[i] <= cand
      BY <1>11, <2>1 DEF Swap
    <3>5. Ends(i, cand)'
      BY <2>1, <3>3, <3>4
    <3>6. \A j \in Instances : stopping[j] = "waiting" => Ends(j, victim[j])'
      BY <2>1, <3>2
    <3> QED
      BY <2>1, <3>1, <3>4, <3>5, <3>6
  <2>3. CASE ~(closed \/ i \in retired)
    <3>1. process' = [process EXCEPT ![i] = cand] /\ sup' # "discard" /\ UNCHANGED told
      BY <1>11, <2>3 DEF Swap
    <3>2. process[i] <= cand /\ proc[i][cand] # "none"
      BY <1>11, <2>1 DEF Swap
    <3>3. \A j \in Instances : stopping[j] # "no" => victim[j] \in Procs /\ victim[j] <= process'[j]
      BY <2>1, <3>1, <3>2
    <3> QED
      BY <2>1, <3>1, <3>2, <3>3
  <2> QED
    BY <2>2, <2>3
<1>12. ASSUME NEW i \in Instances, ReattachSentinel(i)
      PROVE  Waits'
  BY <1>12 DEF ReattachSentinel
<1>13. ASSUME NEW i \in Instances, ProbeReady(i)
      PROVE  Waits'
  BY <1>13 DEF ProbeReady
<1>14. ASSUME NEW i \in Instances, ProbeFails(i)
      PROVE  Waits'
  BY <1>14 DEF ProbeFails, Discard
<1>15. ASSUME NEW i \in Instances, Confirm(i)
      PROVE  Waits'
  <2>1. CASE closed \/ i \in retired
    <3>1. /\ i \in cur /\ cand \in Procs /\ sup' = "discard" /\ cur = {i}
          /\ UNCHANGED <<remote, process, start, stopping, victim, halt, proc, cur, cand>>
          /\ told' = [told EXCEPT ![i] = IF Running(i, cand) THEN @ \cup {cand} ELSE @]
      BY <1>15, <2>1 DEF Confirm, Discard
    <3>2. \A j \in Instances : told[j] \subseteq told'[j]
      BY <3>1
    <3>3. Running(i, cand) => cand \in told'[i]
      BY <3>1
    <3>4. proc[i][cand] # "none" /\ process[i] <= cand
      BY <1>15, <3>1 DEF Confirm
    <3>5. Ends(i, cand)'
      BY <3>1, <3>3, <3>4
    <3>6. \A j \in Instances : stopping[j] = "waiting" => Ends(j, victim[j])'
      BY <3>1, <3>2
    <3> QED
      BY <3>1, <3>4, <3>5, <3>6
  <2>2. CASE ~(closed \/ i \in retired)
    BY <1>15, <2>2 DEF Confirm
  <2> QED
    BY <2>1, <2>2
<1>16. ASSUME NEW i \in Instances, Discarded(i)
      PROVE  Waits'
  BY <1>16 DEF Discarded
<1>17. ASSUME NEW i \in Instances, Spawn(i)
      PROVE  Waits'
  BY <1>17 DEF Spawn
<1>18. ASSUME NEW i \in Instances, FrameFails(i)
      PROVE  Waits'
  BY <1>18 DEF FrameFails, EnterStop
<1>19. ASSUME NEW i \in Instances, Register(i)
      PROVE  Waits'
  BY <1>19 DEF Register
<1>20. ASSUME NEW i \in Instances, Refused(i)
      PROVE  Waits'
  BY <1>20 DEF Refused, EnterStop
<1>21. ASSUME NEW i \in Instances, StartSentinel(i)
      PROVE  Waits'
  BY <1>21 DEF StartSentinel
<1>22. ASSUME NEW i \in Instances, StartReady(i)
      PROVE  Waits'
  BY <1>22 DEF StartReady
<1>23. ASSUME NEW i \in Instances, StartFails(i)
      PROVE  Waits'
  BY <1>23 DEF StartFails, EnterStop
<1>24. ASSUME NEW i \in Instances, StartReturnsError(i)
      PROVE  Waits'
  BY <1>24 DEF StartReturnsError
<1>25. ASSUME NEW i \in Instances, Stop(i)
      PROVE  Waits'
  <2>1. CASE i \in retired
    BY <1>25, <2>1 DEF Stop
  <2>2. CASE i \notin retired /\ stopping[i] = "no"
    BY <1>25, <2>2 DEF Stop, EnterStop
  <2>3. CASE i \notin retired /\ stopping[i] # "no"
    BY <1>25, <2>3 DEF Stop, EnterStop
  <2> QED
    BY <2>1, <2>2, <2>3
<1>26. ASSUME NEW i \in Instances, SendShutdown(i)
      PROVE  Waits'
  BY <1>26 DEF SendShutdown
<1>27. ASSUME NEW i \in Instances, FinishStop(i)
      PROVE  Waits'
  BY <1>27 DEF FinishStop
<1>28. ASSUME NEW i \in Instances, StopReturns(i)
      PROVE  Waits'
  BY <1>28 DEF StopReturns
<1>29. ASSUME NEW i \in Instances, ServiceUp(i)
      PROVE  Waits'
  BY <1>29 DEF ServiceUp
<1>30. ASSUME NEW i \in Instances, ServiceEnds(i)
      PROVE  Waits'
  BY <1>30 DEF ServiceEnds
<1>31. ASSUME NEW i \in Instances, NEW n \in Procs, ShellObeys(i, n)
      PROVE  Waits'
  BY <1>31 DEF ShellObeys, OnDone
<1>32. ASSUME NEW i \in Instances, NEW n \in Procs, ProcessEnds(i, n)
      PROVE  Waits'
  BY <1>32 DEF ProcessEnds, OnDone
<1>33. CASE UNCHANGED vars
  BY <1>33 DEF vars
<1>34. QED
  BY <1>1, <1>2, <1>3, <1>4, <1>5, <1>6, <1>7, <1>8, <1>9, <1>10, <1>11, <1>12, <1>13, <1>14,
     <1>15, <1>16, <1>17, <1>18, <1>19, <1>20, <1>21, <1>22, <1>23, <1>24, <1>25, <1>26, <1>27,
     <1>28, <1>29, <1>30, <1>31, <1>32, <1>33
     DEF Next, CloseStep, ReattachStep, StartStep, StopStep, Process

LEMMA IInvStep == IInv /\ [Next]_vars => IInv'
  BY TypeStep, FreshStep, TunnelsStep, StopsStep, OutlivedStep, ListsStep, WaitsStep DEF IInv

\* The invariant holds in every behaviour.
LEMMA Invariance == Spec => []IInv
<1>1. IInv /\ [Next]_vars => IInv'
  BY IInvStep
<1>2. QED
  BY InitIInv, <1>1, PTL DEF Spec

-----------------------------------------------------------------------------
(***************************************************************************)
(* The theorems.                                                           *)
(***************************************************************************)
\* Every variable keeps its type, and the supervisor is at one instance.
THEOREM TypeCorrect == Spec => []TypeOK
<1>1. IInv => TypeOK
  BY DEF IInv
<1>2. QED
  BY Invariance, <1>1, PTL

\* An instance never has two SSH tunnels on its local port, however often it
\* is re-attached and whoever stops it meanwhile.
THEOREM OneTunnel == Spec => []SingleTunnel
<1>1. IInv => SingleTunnel
  <2> SUFFICES ASSUME IInv, NEW i \in Instances, NEW m \in Procs, NEW n \in Procs,
                      Running(i, m), Running(i, n)
               PROVE  m = n
    BY DEF SingleTunnel
  <2>1. \A k \in Procs : Running(i, k) /\ k # process[i] =>
           sup \in Reattaching /\ i \in cur /\ k = cand /\ Done(i, process[i])
    BY DEF IInv, Tunnels, Reattaching
  <2>2. ~(Running(i, process[i]) /\ Done(i, process[i]))
    BY DEF Running, Done
  <2>3. QED
    BY <2>1, <2>2
<1>2. QED
  BY Invariance, <1>1, PTL

\* A stop that is over has ended the service, unless a tunnel of it broke; a
\* close leaves no subprocess of a launch that succeeded; and Done is closed
\* only when the subprocess is gone.
THEOREM StoppedMeansOver == Spec => []StoppedIsOver
<1>1. IInv => StoppedIsOver
  <2> SUFFICES ASSUME IInv PROVE StoppedIsOver
    OBVIOUS
  <2> USE LauncherAssumption DEF IInv, TypeOK, Procs, Running, Done
  <2>1. StopEndsService
    <3>1. \A i \in Instances : stopping[i] = "over" => proc[i][1] = "done"
      BY DEF Stops
    <3>2. \A i \in Instances : service[i] = "up" /\ ~lost[i] => proc[i][1] # "done"
      BY DEF Outlived
    <3>3. QED
      BY <3>1, <3>2 DEF StopEndsService
  <2>2. CloseEndsLaunched
    <3> SUFFICES ASSUME sup = "closed", NEW i \in Instances, start[i] = "ready", halt[i] # "busy",
                        NEW n \in Procs, proc[i][n] = "running"
                 PROVE  FALSE
      BY DEF CloseEndsLaunched, RunningProcs
    <3>1. n = process[i]
      BY DEF Tunnels
    <3>2. stopping[i] = "over"
      BY DEF Lists, Live
    <3>3. proc[i][process[i]] = "done"
      BY <3>2 DEF Stops, Live
    <3>4. QED
      BY <3>1, <3>3
  <2>3. FinishedMeansStopped
    BY DEF FinishedMeansStopped, Stops, Live
  <2>4. QED
    BY <2>1, <2>2, <2>3 DEF StoppedIsOver
<1>2. QED
  BY Invariance, <1>1, PTL

\* Whatever a call waits for goes on by itself: a stop that has begun, or a
\* subprocess that is gone or was told to go.
THEOREM CallsDoGoOn == Spec => []CallsGoOn
<1>1. IInv => CallsGoOn
  <2> SUFFICES ASSUME IInv PROVE CallsGoOn
    OBVIOUS
  <2>1. \A i \in Instances : stopping[i] # "no" => StopGoesOn(i)
    BY DEF IInv, TypeOK, Waits, StopGoesOn
  <2>2. QED
    BY <2>1 DEF IInv, Waits, Reattaching, CallsGoOn
<1>2. QED
  BY Invariance, <1>1, PTL

\* A retired instance keeps its subprocess, and nobody makes it available.
Retired == \A i \in retired : process'[i] = process[i] /\ (available'[i] => available[i])

\* No action changes what the record of a retired instance holds.
LEMMA RetiredStep == IInv /\ [Next]_vars => Retired
<1> SUFFICES ASSUME IInv, [Next]_vars PROVE Retired
  OBVIOUS
<1> USE LauncherAssumption
        DEF Retired, IInv, TypeOK, Fresh, Lists, Procs, recordVars, procVars, supVars, kind,
            Running, Done
<1>1. CASE Close
  BY <1>1 DEF Close
<1>2. CASE CloseReturns
  BY <1>2 DEF CloseReturns
<1>3. CASE Reattach
  BY <1>3 DEF Reattach
<1>4. CASE ReattachReturns
  BY <1>4 DEF ReattachReturns
<1>5. CASE ReattachCanceled
  BY <1>5 DEF ReattachCanceled
<1>6. ASSUME NEW i \in Instances, CloseStop(i)
      PROVE  Retired
  BY <1>6 DEF CloseStop, EnterStop
<1>7. ASSUME NEW i \in Instances, CloseStopped(i)
      PROVE  Retired
  BY <1>7 DEF CloseStopped
<1>8. ASSUME NEW i \in Instances, ReattachSkip(i)
      PROVE  Retired
  BY <1>8 DEF ReattachSkip
<1>9. ASSUME NEW i \in Instances, ReattachSpawn(i)
      PROVE  Retired
  BY <1>9 DEF ReattachSpawn
<1>10. ASSUME NEW i \in Instances, ReattachSpawnFails(i)
      PROVE  Retired
  BY <1>10 DEF ReattachSpawnFails
<1>11. ASSUME NEW i \in Instances, Swap(i)
      PROVE  Retired
  BY <1>11 DEF Swap, Discard
<1>12. ASSUME NEW i \in Instances, ReattachSentinel(i)
      PROVE  Retired
  BY <1>12 DEF ReattachSentinel
<1>13. ASSUME NEW i \in Instances, ProbeReady(i)
      PROVE  Retired
  BY <1>13 DEF ProbeReady
<1>14. ASSUME NEW i \in Instances, ProbeFails(i)
      PROVE  Retired
  BY <1>14 DEF ProbeFails, Discard
<1>15. ASSUME NEW i \in Instances, Confirm(i)
      PROVE  Retired
  <2>1. CASE closed \/ i \in retired
    BY <1>15, <2>1 DEF Confirm
  <2>2. CASE ~(closed \/ i \in retired)
    <3>1. /\ available' = [available EXCEPT ![i] = TRUE]
          /\ todo' = todo \ {i} /\ cur' = {} /\ sup' = "loop"
          /\ UNCHANGED <<told, list, closed, kind, process, retired, stopping, victim, finished,
                         proc, service, lost, start, halt, cand>>
      BY <1>15, <2>2 DEF Confirm
    <3>2. QED
      BY <2>2, <3>1
  <2>3. QED
    BY <2>1, <2>2
<1>16. ASSUME NEW i \in Instances, Discarded(i)
      PROVE  Retired
  BY <1>16 DEF Discarded
<1>17. ASSUME NEW i \in Instances, Spawn(i)
      PROVE  Retired
  BY <1>17 DEF Spawn
<1>18. ASSUME NEW i \in Instances, FrameFails(i)
      PROVE  Retired
  BY <1>18 DEF FrameFails, EnterStop
<1>19. ASSUME NEW i \in Instances, Register(i)
      PROVE  Retired
  BY <1>19 DEF Register
<1>20. ASSUME NEW i \in Instances, Refused(i)
      PROVE  Retired
  BY <1>20 DEF Refused, EnterStop
<1>21. ASSUME NEW i \in Instances, StartSentinel(i)
      PROVE  Retired
  BY <1>21 DEF StartSentinel
<1>22. ASSUME NEW i \in Instances, StartReady(i)
      PROVE  Retired
  BY <1>22 DEF StartReady
<1>23. ASSUME NEW i \in Instances, StartFails(i)
      PROVE  Retired
  BY <1>23 DEF StartFails, EnterStop
<1>24. ASSUME NEW i \in Instances, StartReturnsError(i)
      PROVE  Retired
  BY <1>24 DEF StartReturnsError
<1>25. ASSUME NEW i \in Instances, Stop(i)
      PROVE  Retired
  BY <1>25 DEF Stop, EnterStop
<1>26. ASSUME NEW i \in Instances, SendShutdown(i)
      PROVE  Retired
  BY <1>26 DEF SendShutdown
<1>27. ASSUME NEW i \in Instances, FinishStop(i)
      PROVE  Retired
  BY <1>27 DEF FinishStop
<1>28. ASSUME NEW i \in Instances, StopReturns(i)
      PROVE  Retired
  BY <1>28 DEF StopReturns
<1>29. ASSUME NEW i \in Instances, ServiceUp(i)
      PROVE  Retired
  BY <1>29 DEF ServiceUp
<1>30. ASSUME NEW i \in Instances, ServiceEnds(i)
      PROVE  Retired
  BY <1>30 DEF ServiceEnds
<1>31. ASSUME NEW i \in Instances, NEW n \in Procs, ShellObeys(i, n)
      PROVE  Retired
  BY <1>31 DEF ShellObeys, OnDone
<1>32. ASSUME NEW i \in Instances, NEW n \in Procs, ProcessEnds(i, n)
      PROVE  Retired
  BY <1>32 DEF ProcessEnds, OnDone
<1>33. CASE UNCHANGED vars
  BY <1>33 DEF vars
<1>34. QED
  BY <1>1, <1>2, <1>3, <1>4, <1>5, <1>6, <1>7, <1>8, <1>9, <1>10, <1>11, <1>12, <1>13, <1>14,
     <1>15, <1>16, <1>17, <1>18, <1>19, <1>20, <1>21, <1>22, <1>23, <1>24, <1>25, <1>26, <1>27,
     <1>28, <1>29, <1>30, <1>31, <1>32, <1>33
     DEF Next, CloseStep, ReattachStep, StartStep, StopStep, Process

\* Whatever a reattach is at, a stop or a close that has retired the instance
\* is final.
THEOREM NotRevived == Spec => RetiredNotRevived
<1>1. IInv /\ [Next]_vars
         => [\A i \in retired : process'[i] = process[i] /\ (available'[i] => available[i])]_vars
  BY RetiredStep DEF Retired
<1>2. QED
  BY Invariance, <1>1, PTL DEF Spec, RetiredNotRevived

=============================================================================
