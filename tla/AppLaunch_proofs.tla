-------------------------- MODULE AppLaunch_proofs --------------------------
(***************************************************************************)
(* Proofs about AppLaunch: for any number of directories, requests and     *)
(* launches, the registry names exactly the launches that are not over,    *)
(* and the launcher has one service of a directory in its hands at most.   *)
(*                                                                         *)
(* The argument: the entry of a directory and the state of the launch it   *)
(* names change together, under the lock (Registry).  What a handler does  *)
(* without the lock rests on what it alone may do next: the one that       *)
(* starts a launch owns it (Owner), and a handler or watcher that ends a   *)
(* launch does so after its instance is over, or after the session has     *)
(* closed the launchers (Endings).  A tunnel is up only for an instance    *)
(* that is not over, of a launch that is registered or that the end of the *)
(* session has retired (Tunnels).                                          *)
(***************************************************************************)
EXTENDS AppLaunch, TLAPS

Active == {"starting", "running", "stopping"}

\* A launch that was not created yet is blank.
Blank ==
    \A l \in Launches :
        /\ l > created => state[l] = "none"
        /\ state[l] = "none" =>
              /\ l > created /\ watcher[l] = "none"
              /\ service[l] = "none" /\ tunnel[l] = "none" /\ ~over[l]

\* The registry names the active launches, each at its directory.
Registry ==
    /\ \A d \in Dirs : byDir[d] # NoLaunch => dir[byDir[d]] = d /\ state[byDir[d]] \in Active
    /\ \A l \in Launches : state[l] \in Active => byDir[dir[l]] = l

\* The handler that starts a launch is the only one to do so.
Starting == {"start", "complete", "fail"}

Owner ==
    /\ \A r \in Requests : pc[r] \in Starting => state[mine[r]] = "starting"
    /\ \A r \in Requests : pc[r] = "start" => ~over[mine[r]] /\ tunnel[mine[r]] = "none"
    /\ \A r, q \in Requests :
          pc[r] \in Starting /\ pc[q] \in Starting /\ mine[r] = mine[q] => r = q

\* Whoever ends a launch finds it past its start, and its instance over.
Endings ==
    /\ \A r \in Requests :
          pc[r] \in {"stopping", "finish"} => state[mine[r]] \in {"stopping", "stopped"}
    /\ \A r \in Requests : pc[r] \in {"finish", "fail"} => over[mine[r]] \/ closed
    /\ \A l \in Launches : watcher[l] = "waiting" => state[l] \notin {"none", "starting"}
    /\ \A l \in Launches : state[l] = "stopped" => over[l] \/ closed

\* What a tunnel says of its instance, its launch and its service.
Tunnels ==
    /\ \A l \in Launches : service[l] = "live" => tunnel[l] \in {"up", "lost"}
    /\ \A l \in Launches : tunnel[l] = "lost" => remote
    /\ \A l \in Launches :
          tunnel[l] = "up" => ~over[l] /\ (state[l] \in Active \/ closed)

IInv ==
    /\ TypeOK /\ Blank /\ Registry /\ Owner /\ Endings /\ Tunnels
    /\ OneServicePerDirectory /\ ProxyOnlyRunning
-----------------------------------------------------------------------------
(***************************************************************************)
(* The invariant holds at first, and every action keeps it.                *)
(***************************************************************************)
\* What stands for no interpreter is one.
LEMMA NoPythonType == NoPython \in Pythons
  BY AppLaunchAssumption DEF NoPython

\* And what no request asks for is a question.
LEMMA NothingType == Nothing \in [dir : Dirs, python : Pythons]
  BY AppLaunchAssumption, NoPythonType DEF Nothing

\* A request that looks for a launch answers, goes on without one, or waits for the
\* one it found; nothing else changes.
Joins(r) ==
    /\ \/ Answer(r)
       \/ GoTo(r, "folder") /\ UNCHANGED <<asked, mine>>
       \/ \E l \in Launches, place \in {"await", "awaitStopped"} :
             GoTo(r, place) /\ mine' = [mine EXCEPT ![r] = l] /\ UNCHANGED asked
    /\ UNCHANGED <<registry, launchVars>>

LEMMA LooksJoin ==
    ASSUME TypeOK, NEW r \in Requests,
           LookForExisting(r) \/ AcquireExisting(r) \/ StopNothing(r)
    PROVE  Joins(r)
<1>1. asked[r].dir \in Dirs
  BY DEF TypeOK
<1>2. byDir[asked[r].dir] # NoLaunch => byDir[asked[r].dir] \in Launches
  BY <1>1 DEF TypeOK, NoLaunch, Launches
<1>3. CASE LookForExisting(r)
  BY <1>2, <1>3 DEF LookForExisting, Joins
<1>4. CASE AcquireExisting(r)
  BY <1>2, <1>4 DEF AcquireExisting, Joins
<1>5. CASE StopNothing(r)
  BY <1>2, <1>5 DEF StopNothing, Joins
<1>6. QED
  BY <1>3, <1>4, <1>5

LEMMA JoinsType ==
    ASSUME TypeOK, NEW r \in Requests, Joins(r)
    PROVE  TypeOK'
<1> USE DEF TypeOK, RequestPcs, WorkingPcs, GoTo, Answer, Launches, NoLaunch
<1>1. UNCHANGED <<registry, launchVars>>
  BY DEF Joins
<1>2. /\ pc' \in [Requests -> RequestPcs] /\ mine' \in [Requests -> 0..MaxLaunches]
      /\ asked' \in [Requests -> [dir : Dirs, python : Pythons]]
      /\ \A q \in Requests : pc'[q] \in WorkingPcs => mine'[q] \in Launches
  <2>1. CASE Answer(r)
    BY <2>1, AppLaunchAssumption, NothingType
  <2>2. CASE GoTo(r, "folder") /\ UNCHANGED <<asked, mine>>
    BY <2>2
  <2>3. ASSUME NEW l \in Launches, NEW place \in {"await", "awaitStopped"}, GoTo(r, place),
               mine' = [mine EXCEPT ![r] = l], UNCHANGED asked
        PROVE  /\ pc' \in [Requests -> RequestPcs] /\ mine' \in [Requests -> 0..MaxLaunches]
               /\ asked' \in [Requests -> [dir : Dirs, python : Pythons]]
               /\ \A q \in Requests : pc'[q] \in WorkingPcs => mine'[q] \in Launches
    BY <2>3, AppLaunchAssumption
  <2>4. QED
    BY <2>1, <2>2, <2>3 DEF Joins
<1>3. QED
  BY <1>1, <1>2 DEF registry, launchVars, lifeVars, backing, session

\* It owns no launch, and ends none.
LEMMA JoinsKeeps ==
    ASSUME TypeOK, NEW r \in Requests, Joins(r)
    PROVE  \A q \in Requests :
              pc'[q] \in {"start", "complete", "fail", "stopping", "finish"} =>
                  pc'[q] = pc[q] /\ mine'[q] = mine[q]
BY DEF Joins, TypeOK, GoTo, Answer

\* Nothing is registered and no request is under way.
LEMMA InitIInv == Init => IInv
<1> SUFFICES ASSUME Init PROVE IInv
  OBVIOUS
<1>1. TypeOK
  <2>1. (CHOOSE d \in Dirs : TRUE) \in Dirs
    BY AppLaunchAssumption
  <2>2. /\ dir \in [Launches -> Dirs] /\ python \in [Launches -> Pythons]
        /\ asked \in [Requests -> [dir : Dirs, python : Pythons]]
    BY <2>1, NoPythonType, NothingType DEF Init
  <2>3. /\ byDir \in [Dirs -> 0..MaxLaunches] /\ created \in 0..MaxLaunches
        /\ mine \in [Requests -> 0..MaxLaunches]
    BY AppLaunchAssumption DEF Init, NoLaunch
  <2>4. QED
    BY <2>2, <2>3 DEF Init, TypeOK, RequestPcs, WorkingPcs
<1>2. Blank /\ Registry
  BY <1>1, AppLaunchAssumption DEF Init, Blank, Registry, Active, Launches, NoLaunch
<1>3. Owner /\ Endings /\ Tunnels
  BY <1>1 DEF Init, Owner, Starting, Endings, Tunnels
<1>4. OneServicePerDirectory /\ ProxyOnlyRunning
  BY DEF Init, OneServicePerDirectory, ProxyOnlyRunning
<1>5. QED
  BY <1>1, <1>2, <1>3, <1>4 DEF IInv

\* Every action keeps the types.
LEMMA TypeStep == IInv /\ [Next]_vars => TypeOK'
<1> SUFFICES ASSUME IInv, [Next]_vars PROVE TypeOK'
  OBVIOUS
<1> USE AppLaunchAssumption, NothingType DEF IInv, TypeOK, RequestPcs, WorkingPcs, GoTo,
      Answer, EndInstance, registry, launchVars, lifeVars, backing, session, request,
      Launches, NoLaunch
<1>1. ASSUME NEW r \in Requests, LookForExisting(r)
      PROVE  TypeOK'
  <2> HIDE DEF TypeOK
  <2> QED
    BY <1>1, LooksJoin, JoinsType
<1>2. ASSUME NEW r \in Requests, FolderAccepted(r)
      PROVE  TypeOK'
  BY <1>2 DEF FolderAccepted
<1>3. ASSUME NEW r \in Requests, FolderRefused(r)
      PROVE  TypeOK'
  BY <1>3 DEF FolderRefused
<1>4. ASSUME NEW r \in Requests, AcquireExisting(r)
      PROVE  TypeOK'
  <2> HIDE DEF TypeOK
  <2> QED
    BY <1>4, LooksJoin, JoinsType
<1>5. ASSUME NEW r \in Requests, AcquireNew(r)
      PROVE  TypeOK'
  BY <1>5 DEF AcquireNew
<1>6. ASSUME NEW r \in Requests, AcquireFails(r)
      PROVE  TypeOK'
  BY <1>6 DEF AcquireFails
<1>7. ASSUME NEW r \in Requests, ServiceStarts(r)
      PROVE  TypeOK'
  BY <1>7 DEF ServiceStarts
<1>8. ASSUME NEW r \in Requests, StartFails(r)
      PROVE  TypeOK'
  BY <1>8 DEF StartFails
<1>9. ASSUME NEW r \in Requests, Complete(r)
      PROVE  TypeOK'
  BY <1>9 DEF Complete
<1>10. ASSUME NEW r \in Requests, CompleteFailed(r)
      PROVE  TypeOK'
  <2>1. mine[r] \in Launches /\ dir[mine[r]] \in Dirs
    BY <1>10 DEF CompleteFailed, FinishLocked, Forget
  <2>2. byDir' \in [Dirs -> 0..MaxLaunches]
    BY <1>10, <2>1 DEF CompleteFailed, FinishLocked, Forget
  <2>3. proxy' \subseteq Launches
    BY <1>10 DEF CompleteFailed, FinishLocked, Forget
  <2>4. state' \in [Launches -> {"none", "starting", "running", "stopping", "stopped"}]
    BY <1>10, <2>1 DEF CompleteFailed, FinishLocked, Forget
  <2>5. ready' \in [Launches -> BOOLEAN] /\ stopped' \in [Launches -> BOOLEAN]
    BY <1>10, <2>1 DEF CompleteFailed, FinishLocked, Forget
  <2>6. pc' \in [Requests -> RequestPcs] /\ mine' \in [Requests -> 0..MaxLaunches]
    BY <1>10, <2>1 DEF CompleteFailed, FinishLocked, Forget
  <2>7. \A q \in Requests : pc'[q] \in WorkingPcs => mine'[q] \in Launches
    BY <1>10, <2>1 DEF CompleteFailed, FinishLocked, Forget
  <2>8. QED
    BY <1>10, <2>1, <2>2, <2>3, <2>4, <2>5, <2>6, <2>7
    DEF CompleteFailed, FinishLocked, Forget
<1>11. ASSUME NEW r \in Requests, Respond(r)
      PROVE  TypeOK'
  BY <1>11 DEF Respond
<1>12. ASSUME NEW r \in Requests, StopNothing(r)
      PROVE  TypeOK'
  <2> HIDE DEF TypeOK
  <2> QED
    BY <1>12, LooksJoin, JoinsType
<1>13. ASSUME NEW r \in Requests, StopRunning(r)
      PROVE  TypeOK'
  <2>1. asked[r].dir \in Dirs /\ byDir[asked[r].dir] \in 0..MaxLaunches
    BY <1>13 DEF StopRunning
  <2>2. byDir' \in [Dirs -> 0..MaxLaunches]
    BY <1>13, <2>1 DEF StopRunning
  <2>3. state' \in [Launches -> {"none", "starting", "running", "stopping", "stopped"}]
    BY <1>13, <2>1 DEF StopRunning
  <2>4. pc' \in [Requests -> RequestPcs] /\ mine' \in [Requests -> 0..MaxLaunches]
    BY <1>13, <2>1 DEF StopRunning
  <2>5. \A q \in Requests : pc'[q] \in WorkingPcs => mine'[q] \in Launches
    BY <1>13, <2>1 DEF StopRunning
  <2>6. QED
    BY <1>13, <2>1, <2>2, <2>3, <2>4, <2>5 DEF StopRunning
<1>14. ASSUME NEW r \in Requests, ServiceStops(r)
      PROVE  TypeOK'
  <2>1. mine[r] \in Launches
    BY <1>14 DEF ServiceStops
  <2>2. /\ service' \in [Launches -> {"none", "live", "gone"}]
        /\ tunnel' \in [Launches -> {"none", "up", "lost", "ended"}]
        /\ over' \in [Launches -> BOOLEAN]
    <3>1. CASE closed
      BY <1>14, <3>1 DEF ServiceStops
    <3>2. CASE ~closed /\ tunnel[mine[r]] = "up"
      <4>1. /\ service' = [service EXCEPT ![mine[r]] = "gone"]
            /\ tunnel' = [tunnel EXCEPT ![mine[r]] = "ended"]
            /\ over' = [over EXCEPT ![mine[r]] = TRUE]
        BY <1>14, <3>2 DEF ServiceStops
      <4>2. service' \in [Launches -> {"none", "live", "gone"}]
        BY <2>1, <4>1
      <4>3. tunnel' \in [Launches -> {"none", "up", "lost", "ended"}]
        BY <2>1, <4>1
      <4>4. over' \in [Launches -> BOOLEAN]
        BY <2>1, <4>1
      <4>5. QED
        BY <4>2, <4>3, <4>4
    <3>3. CASE ~closed /\ tunnel[mine[r]] # "up"
      BY <1>14, <2>1, <3>3 DEF ServiceStops
    <3>4. QED
      BY <3>1, <3>2, <3>3
  <2>3. pc' \in [Requests -> RequestPcs] /\ UNCHANGED <<session, lifeVars, asked, mine, registry>>
    BY <1>14 DEF ServiceStops
  <2>4. \A q \in Requests : pc'[q] \in WorkingPcs => mine'[q] \in Launches
    BY <1>14, <2>1 DEF ServiceStops
  <2>5. QED
    BY <2>2, <2>3, <2>4
<1>15. ASSUME NEW r \in Requests, FinishStop(r)
      PROVE  TypeOK'
  <2>1. mine[r] \in Launches /\ dir[mine[r]] \in Dirs
    BY <1>15 DEF FinishStop, FinishLocked, Forget
  <2>2. byDir' \in [Dirs -> 0..MaxLaunches]
    BY <1>15, <2>1 DEF FinishStop, FinishLocked, Forget
  <2>3. proxy' \subseteq Launches
    BY <1>15 DEF FinishStop, FinishLocked, Forget
  <2>4. state' \in [Launches -> {"none", "starting", "running", "stopping", "stopped"}]
    BY <1>15, <2>1 DEF FinishStop, FinishLocked, Forget
  <2>5. ready' \in [Launches -> BOOLEAN] /\ stopped' \in [Launches -> BOOLEAN]
    BY <1>15, <2>1 DEF FinishStop, FinishLocked, Forget
  <2>6. pc' \in [Requests -> RequestPcs] /\ mine' \in [Requests -> 0..MaxLaunches]
    BY <1>15, <2>1 DEF FinishStop, FinishLocked, Forget
  <2>7. \A q \in Requests : pc'[q] \in WorkingPcs => mine'[q] \in Launches
    BY <1>15, <2>1 DEF FinishStop, FinishLocked, Forget
  <2>8. QED
    BY <1>15, <2>1, <2>2, <2>3, <2>4, <2>5, <2>6, <2>7
    DEF FinishStop, FinishLocked, Forget
<1>16. ASSUME NEW r \in Requests, StopSeen(r)
      PROVE  TypeOK'
  BY <1>16 DEF StopSeen
<1>17. ASSUME NEW r \in Requests, GiveUp(r)
      PROVE  TypeOK'
  BY <1>17 DEF GiveUp
<1>18. ASSUME NEW r \in Requests, NEW d \in Dirs, Delete(r, d)
      PROVE  TypeOK'
  BY <1>18, NoPythonType DEF Delete
<1>19. ASSUME NEW r \in Requests, NEW d \in Dirs, NEW p \in Pythons, Post(r, d, p)
      PROVE  TypeOK'
  BY <1>19, NoPythonType DEF Post
<1>20. ASSUME NEW l \in Launches, ServiceEnds(l)
      PROVE  TypeOK'
  BY <1>20 DEF ServiceEnds
<1>21. ASSUME NEW l \in Launches, TunnelBreaks(l)
      PROVE  TypeOK'
  BY <1>21 DEF TunnelBreaks
<1>22. ASSUME NEW l \in Launches, Reattach(l)
      PROVE  TypeOK'
  BY <1>22 DEF Reattach
<1>23. ASSUME NEW l \in Launches, CloseStops(l)
      PROVE  TypeOK'
  BY <1>23 DEF CloseStops, EndInstance
<1>24. ASSUME Close
      PROVE  TypeOK'
  BY <1>24 DEF Close
<1>25. ASSUME NEW l \in Launches, Watch(l)
      PROVE  TypeOK'
  BY <1>25 DEF Watch, FinishLocked, Forget
<1>26. CASE UNCHANGED vars
  BY <1>26 DEF vars
<1>27. QED
  BY <1>1, <1>2, <1>3, <1>4, <1>5, <1>6, <1>7, <1>8, <1>9, <1>10, <1>11, <1>12, <1>13,
     <1>14, <1>15, <1>16, <1>17, <1>18, <1>19, <1>20, <1>21, <1>22, <1>23, <1>24, <1>25, <1>26 DEF Next, Handler

\* A launch that was not created stays blank: whoever works on a launch works on
\* one that exists.
LEMMA BlankStep == IInv /\ [Next]_vars => Blank'
<1> SUFFICES ASSUME IInv, [Next]_vars PROVE Blank'
  OBVIOUS
<1> USE AppLaunchAssumption DEF IInv, TypeOK, RequestPcs, WorkingPcs, Blank, GoTo,
      Answer, registry, launchVars, lifeVars, backing, session, request, Launches, NoLaunch
<1>1. ASSUME NEW r \in Requests, LookForExisting(r)
      PROVE  Blank'
  BY <1>1 DEF LookForExisting
<1>2. ASSUME NEW r \in Requests, FolderAccepted(r)
      PROVE  Blank'
  BY <1>2 DEF FolderAccepted
<1>3. ASSUME NEW r \in Requests, FolderRefused(r)
      PROVE  Blank'
  BY <1>3 DEF FolderRefused
<1>4. ASSUME NEW r \in Requests, AcquireExisting(r)
      PROVE  Blank'
  BY <1>4 DEF AcquireExisting
<1>5. ASSUME NEW r \in Requests, AcquireNew(r)
      PROVE  Blank'
  BY <1>5 DEF AcquireNew
<1>6. ASSUME NEW r \in Requests, AcquireFails(r)
      PROVE  Blank'
  BY <1>6 DEF AcquireFails
<1>7. ASSUME NEW r \in Requests, ServiceStarts(r)
      PROVE  Blank'
  <2>1. mine[r] \in Launches /\ state[mine[r]] # "none"
    BY <1>7 DEF ServiceStarts, Owner, Starting
  <2>2. \A k \in Launches : k > created' => state'[k] = "none"
    BY <1>7, <2>1 DEF ServiceStarts
  <2>3. \A k \in Launches : state'[k] = "none" =>
         /\ k > created' /\ watcher'[k] = "none"
         /\ service'[k] = "none" /\ tunnel'[k] = "none" /\ ~over'[k]
    BY <1>7, <2>1 DEF ServiceStarts
  <2>4. QED
    BY <1>7, <2>1, <2>2, <2>3 DEF ServiceStarts
<1>8. ASSUME NEW r \in Requests, StartFails(r)
      PROVE  Blank'
  <2>1. mine[r] \in Launches /\ state[mine[r]] # "none"
    BY <1>8 DEF StartFails, Owner, Starting
  <2>2. \A k \in Launches : k # mine[r] =>
         service'[k] = service[k] /\ tunnel'[k] = tunnel[k] /\ over'[k] = over[k]
    BY <1>8, <2>1 DEF StartFails
  <2>3. UNCHANGED <<created, state, watcher>>
    BY <1>8 DEF StartFails
  <2>4. QED
    BY <2>1, <2>2, <2>3
<1>9. ASSUME NEW r \in Requests, Complete(r)
      PROVE  Blank'
  <2>1. mine[r] \in Launches /\ state[mine[r]] # "none"
    BY <1>9 DEF Complete, Owner, Starting
  <2>2. \A k \in Launches : k > created' => state'[k] = "none"
    BY <1>9, <2>1 DEF Complete
  <2>3. \A k \in Launches : state'[k] = "none" =>
         /\ k > created' /\ watcher'[k] = "none"
         /\ service'[k] = "none" /\ tunnel'[k] = "none" /\ ~over'[k]
    BY <1>9, <2>1 DEF Complete
  <2>4. QED
    BY <1>9, <2>1, <2>2, <2>3 DEF Complete
<1>10. ASSUME NEW r \in Requests, CompleteFailed(r)
      PROVE  Blank'
  <2>1. mine[r] \in Launches /\ state[mine[r]] # "none"
    BY <1>10 DEF CompleteFailed, FinishLocked, Forget, Owner, Starting
  <2>2. \A k \in Launches : k > created' => state'[k] = "none"
    BY <1>10, <2>1 DEF CompleteFailed, FinishLocked, Forget
  <2>3. \A k \in Launches : state'[k] = "none" =>
         /\ k > created' /\ watcher'[k] = "none"
         /\ service'[k] = "none" /\ tunnel'[k] = "none" /\ ~over'[k]
    BY <1>10, <2>1 DEF CompleteFailed, FinishLocked, Forget
  <2>4. QED
    BY <1>10, <2>1, <2>2, <2>3 DEF CompleteFailed, FinishLocked, Forget
<1>11. ASSUME NEW r \in Requests, Respond(r)
      PROVE  Blank'
  BY <1>11 DEF Respond
<1>12. ASSUME NEW r \in Requests, StopNothing(r)
      PROVE  Blank'
  BY <1>12 DEF StopNothing
<1>13. ASSUME NEW r \in Requests, StopRunning(r)
      PROVE  Blank'
  BY <1>13 DEF StopRunning
<1>14. ASSUME NEW r \in Requests, ServiceStops(r)
      PROVE  Blank'
  <2>1. mine[r] \in Launches /\ state[mine[r]] # "none"
    BY <1>14 DEF ServiceStops, Endings
  <2>2. \A k \in Launches : k # mine[r] =>
         service'[k] = service[k] /\ tunnel'[k] = tunnel[k] /\ over'[k] = over[k]
    BY <1>14, <2>1 DEF ServiceStops, EndInstance
  <2>3. UNCHANGED <<created, state, watcher>>
    BY <1>14 DEF ServiceStops
  <2>4. QED
    BY <2>1, <2>2, <2>3
<1>15. ASSUME NEW r \in Requests, FinishStop(r)
      PROVE  Blank'
  <2>1. mine[r] \in Launches /\ state[mine[r]] # "none"
    BY <1>15 DEF FinishStop, FinishLocked, Forget, Endings
  <2>2. \A k \in Launches : k > created' => state'[k] = "none"
    BY <1>15, <2>1 DEF FinishStop, FinishLocked, Forget
  <2>3. \A k \in Launches : state'[k] = "none" =>
         /\ k > created' /\ watcher'[k] = "none"
         /\ service'[k] = "none" /\ tunnel'[k] = "none" /\ ~over'[k]
    BY <1>15, <2>1 DEF FinishStop, FinishLocked, Forget
  <2>4. QED
    BY <1>15, <2>1, <2>2, <2>3 DEF FinishStop, FinishLocked, Forget
<1>16. ASSUME NEW r \in Requests, StopSeen(r)
      PROVE  Blank'
  BY <1>16 DEF StopSeen
<1>17. ASSUME NEW r \in Requests, GiveUp(r)
      PROVE  Blank'
  BY <1>17 DEF GiveUp
<1>18. ASSUME NEW r \in Requests, NEW d \in Dirs, Delete(r, d)
      PROVE  Blank'
  BY <1>18 DEF Delete
<1>19. ASSUME NEW r \in Requests, NEW d \in Dirs, NEW p \in Pythons, Post(r, d, p)
      PROVE  Blank'
  BY <1>19 DEF Post
<1>20. ASSUME NEW l \in Launches, ServiceEnds(l)
      PROVE  Blank'
  BY <1>20 DEF ServiceEnds
<1>21. ASSUME NEW l \in Launches, TunnelBreaks(l)
      PROVE  Blank'
  BY <1>21 DEF TunnelBreaks
<1>22. ASSUME NEW l \in Launches, Reattach(l)
      PROVE  Blank'
  BY <1>22 DEF Reattach
<1>23. ASSUME NEW l \in Launches, CloseStops(l)
      PROVE  Blank'
  BY <1>23 DEF CloseStops, EndInstance
<1>24. ASSUME Close
      PROVE  Blank'
  BY <1>24 DEF Close
<1>25. ASSUME NEW l \in Launches, Watch(l)
      PROVE  Blank'
  BY <1>25 DEF Watch, FinishLocked, Forget
<1>26. CASE UNCHANGED vars
  BY <1>26 DEF vars
<1>27. QED
  BY <1>1, <1>2, <1>3, <1>4, <1>5, <1>6, <1>7, <1>8, <1>9, <1>10, <1>11, <1>12, <1>13,
     <1>14, <1>15, <1>16, <1>17, <1>18, <1>19, <1>20, <1>21, <1>22, <1>23, <1>24, <1>25, <1>26 DEF Next, Handler

\* The entry of a directory and the state of its launch change together.
LEMMA RegistryStep == IInv /\ [Next]_vars => Registry'
<1> SUFFICES ASSUME IInv, [Next]_vars PROVE Registry'
  OBVIOUS
<1> USE AppLaunchAssumption DEF IInv, TypeOK, RequestPcs, WorkingPcs, Registry, Active,
      Blank, GoTo, Answer, registry, launchVars, lifeVars, backing, session, request, Launches, NoLaunch
<1>1. ASSUME NEW r \in Requests, LookForExisting(r)
      PROVE  Registry'
  BY <1>1 DEF LookForExisting
<1>2. ASSUME NEW r \in Requests, FolderAccepted(r)
      PROVE  Registry'
  BY <1>2 DEF FolderAccepted
<1>3. ASSUME NEW r \in Requests, FolderRefused(r)
      PROVE  Registry'
  BY <1>3 DEF FolderRefused
<1>4. ASSUME NEW r \in Requests, AcquireExisting(r)
      PROVE  Registry'
  BY <1>4 DEF AcquireExisting
<1>5. ASSUME NEW r \in Requests, AcquireNew(r)
      PROVE  Registry'
  BY <1>5 DEF AcquireNew
<1>6. ASSUME NEW r \in Requests, AcquireFails(r)
      PROVE  Registry'
  BY <1>6 DEF AcquireFails
<1>7. ASSUME NEW r \in Requests, ServiceStarts(r)
      PROVE  Registry'
  BY <1>7 DEF ServiceStarts
<1>8. ASSUME NEW r \in Requests, StartFails(r)
      PROVE  Registry'
  BY <1>8 DEF StartFails
<1>9. ASSUME NEW r \in Requests, Complete(r)
      PROVE  Registry'
  <2>1. mine[r] \in Launches /\ state[mine[r]] = "starting"
    BY <1>9 DEF Complete, Owner, Starting
  <2>2. \A k \in Launches : state'[k] \in Active <=> state[k] \in Active
    BY <1>9, <2>1 DEF Complete
  <2>3. QED
    BY <1>9, <2>1, <2>2 DEF Complete
<1>10. ASSUME NEW r \in Requests, CompleteFailed(r)
      PROVE  Registry'
  BY <1>10 DEF CompleteFailed, FinishLocked, Forget
<1>11. ASSUME NEW r \in Requests, Respond(r)
      PROVE  Registry'
  BY <1>11 DEF Respond
<1>12. ASSUME NEW r \in Requests, StopNothing(r)
      PROVE  Registry'
  BY <1>12 DEF StopNothing
<1>13. ASSUME NEW r \in Requests, StopRunning(r)
      PROVE  Registry'
  BY <1>13 DEF StopRunning
<1>14. ASSUME NEW r \in Requests, ServiceStops(r)
      PROVE  Registry'
  BY <1>14 DEF ServiceStops
<1>15. ASSUME NEW r \in Requests, FinishStop(r)
      PROVE  Registry'
  BY <1>15 DEF FinishStop, FinishLocked, Forget
<1>16. ASSUME NEW r \in Requests, StopSeen(r)
      PROVE  Registry'
  BY <1>16 DEF StopSeen
<1>17. ASSUME NEW r \in Requests, GiveUp(r)
      PROVE  Registry'
  BY <1>17 DEF GiveUp
<1>18. ASSUME NEW r \in Requests, NEW d \in Dirs, Delete(r, d)
      PROVE  Registry'
  BY <1>18 DEF Delete
<1>19. ASSUME NEW r \in Requests, NEW d \in Dirs, NEW p \in Pythons, Post(r, d, p)
      PROVE  Registry'
  BY <1>19 DEF Post
<1>20. ASSUME NEW l \in Launches, ServiceEnds(l)
      PROVE  Registry'
  BY <1>20 DEF ServiceEnds
<1>21. ASSUME NEW l \in Launches, TunnelBreaks(l)
      PROVE  Registry'
  BY <1>21 DEF TunnelBreaks
<1>22. ASSUME NEW l \in Launches, Reattach(l)
      PROVE  Registry'
  BY <1>22 DEF Reattach
<1>23. ASSUME NEW l \in Launches, CloseStops(l)
      PROVE  Registry'
  BY <1>23 DEF CloseStops, EndInstance
<1>24. ASSUME Close
      PROVE  Registry'
  BY <1>24 DEF Close
<1>25. ASSUME NEW l \in Launches, Watch(l)
      PROVE  Registry'
  BY <1>25 DEF Watch, FinishLocked, Forget
<1>26. CASE UNCHANGED vars
  BY <1>26 DEF vars
<1>27. QED
  BY <1>1, <1>2, <1>3, <1>4, <1>5, <1>6, <1>7, <1>8, <1>9, <1>10, <1>11, <1>12, <1>13,
     <1>14, <1>15, <1>16, <1>17, <1>18, <1>19, <1>20, <1>21, <1>22, <1>23, <1>24, <1>25, <1>26 DEF Next, Handler

\* A launch that is starting belongs to the request that created it: the others
\* find it in the registry and wait.
LEMMA OwnerStep == IInv /\ [Next]_vars => Owner'
<1> SUFFICES ASSUME IInv, [Next]_vars PROVE Owner'
  OBVIOUS
<1> USE AppLaunchAssumption DEF IInv, TypeOK, RequestPcs, WorkingPcs, Owner, Starting,
      Registry, Active, Blank, Tunnels, GoTo, Answer, registry, launchVars, lifeVars, backing, session, request, Launches,
      NoLaunch
<1>1. ASSUME NEW r \in Requests, LookForExisting(r)
      PROVE  Owner'
  <2>1. Joins(r) /\ UNCHANGED <<state, over, tunnel>>
    <3> HIDE DEF TypeOK
    <3>1. Joins(r)
      BY <1>1, LooksJoin
    <3>2. QED
      BY <3>1 DEF Joins
  <2>2. \A q \in Requests : pc'[q] \in Starting => pc'[q] = pc[q] /\ mine'[q] = mine[q]
    BY <2>1, JoinsKeeps
  <2>3. QED
    BY <2>1, <2>2
<1>2. ASSUME NEW r \in Requests, FolderAccepted(r)
      PROVE  Owner'
  BY <1>2 DEF FolderAccepted
<1>3. ASSUME NEW r \in Requests, FolderRefused(r)
      PROVE  Owner'
  BY <1>3 DEF FolderRefused
<1>4. ASSUME NEW r \in Requests, AcquireExisting(r)
      PROVE  Owner'
  <2>1. Joins(r) /\ UNCHANGED <<state, over, tunnel>>
    <3> HIDE DEF TypeOK
    <3>1. Joins(r)
      BY <1>4, LooksJoin
    <3>2. QED
      BY <3>1 DEF Joins
  <2>2. \A q \in Requests : pc'[q] \in Starting => pc'[q] = pc[q] /\ mine'[q] = mine[q]
    BY <2>1, JoinsKeeps
  <2>3. QED
    BY <2>1, <2>2
<1>5. ASSUME NEW r \in Requests, AcquireNew(r)
      PROVE  Owner'
  BY <1>5 DEF AcquireNew
<1>6. ASSUME NEW r \in Requests, AcquireFails(r)
      PROVE  Owner'
  BY <1>6 DEF AcquireFails
<1>7. ASSUME NEW r \in Requests, ServiceStarts(r)
      PROVE  Owner'
  BY <1>7 DEF ServiceStarts
<1>8. ASSUME NEW r \in Requests, StartFails(r)
      PROVE  Owner'
  BY <1>8 DEF StartFails
<1>9. ASSUME NEW r \in Requests, Complete(r)
      PROVE  Owner'
  BY <1>9 DEF Complete
<1>10. ASSUME NEW r \in Requests, CompleteFailed(r)
      PROVE  Owner'
  BY <1>10 DEF CompleteFailed, FinishLocked, Forget
<1>11. ASSUME NEW r \in Requests, Respond(r)
      PROVE  Owner'
  BY <1>11 DEF Respond
<1>12. ASSUME NEW r \in Requests, StopNothing(r)
      PROVE  Owner'
  <2>1. Joins(r) /\ UNCHANGED <<state, over, tunnel>>
    <3> HIDE DEF TypeOK
    <3>1. Joins(r)
      BY <1>12, LooksJoin
    <3>2. QED
      BY <3>1 DEF Joins
  <2>2. \A q \in Requests : pc'[q] \in Starting => pc'[q] = pc[q] /\ mine'[q] = mine[q]
    BY <2>1, JoinsKeeps
  <2>3. QED
    BY <2>1, <2>2
<1>13. ASSUME NEW r \in Requests, StopRunning(r)
      PROVE  Owner'
  BY <1>13 DEF StopRunning
<1>14. ASSUME NEW r \in Requests, ServiceStops(r)
      PROVE  Owner'
  <2>1. mine[r] \in Launches /\ state[mine[r]] # "starting"
    BY <1>14 DEF ServiceStops, Endings
  <2>2. \A k \in Launches : k # mine[r] => over'[k] = over[k] /\ tunnel'[k] = tunnel[k]
    BY <1>14, <2>1 DEF ServiceStops, EndInstance
  <2>3. /\ UNCHANGED <<state, mine>>
        /\ \A q \in Requests : pc'[q] \in Starting => pc'[q] = pc[q]
    BY <1>14 DEF ServiceStops
  <2>4. \A q \in Requests : pc'[q] \in Starting => mine[q] \in Launches /\ mine[q] # mine[r]
    BY <2>1, <2>3
  <2>5. QED
    BY <2>2, <2>3, <2>4
<1>15. ASSUME NEW r \in Requests, FinishStop(r)
      PROVE  Owner'
  <2>1. mine[r] \in Launches /\ state[mine[r]] # "starting"
    BY <1>15 DEF FinishStop, FinishLocked, Forget, Endings
  <2>2. \A q \in Requests : pc'[q] \in Starting =>
         pc[q] = pc'[q] /\ mine[q] = mine'[q] /\ mine[q] # NoLaunch
    BY <1>15 DEF FinishStop, FinishLocked, Forget
  <2>3. \A q \in Requests : pc'[q] \in Starting => state'[mine'[q]] = "starting"
    BY <1>15, <2>1, <2>2 DEF FinishStop, FinishLocked, Forget
  <2>4. \A q \in Requests : pc'[q] = "start" =>
         ~over'[mine'[q]] /\ tunnel'[mine'[q]] = "none"
    BY <1>15, <2>1, <2>2 DEF FinishStop, FinishLocked, Forget
  <2>5. \A p, q \in Requests : pc'[p] \in Starting /\ pc'[q] \in Starting /\ mine'[p] = mine'[q] =>
         p = q
    BY <1>15, <2>1, <2>2 DEF FinishStop, FinishLocked, Forget
  <2>6. QED
    BY <1>15, <2>1, <2>2, <2>3, <2>4, <2>5 DEF FinishStop, FinishLocked, Forget
<1>16. ASSUME NEW r \in Requests, StopSeen(r)
      PROVE  Owner'
  BY <1>16 DEF StopSeen
<1>17. ASSUME NEW r \in Requests, GiveUp(r)
      PROVE  Owner'
  BY <1>17 DEF GiveUp
<1>18. ASSUME NEW r \in Requests, NEW d \in Dirs, Delete(r, d)
      PROVE  Owner'
  BY <1>18 DEF Delete
<1>19. ASSUME NEW r \in Requests, NEW d \in Dirs, NEW p \in Pythons, Post(r, d, p)
      PROVE  Owner'
  BY <1>19 DEF Post
<1>20. ASSUME NEW l \in Launches, ServiceEnds(l)
      PROVE  Owner'
  <2>1. \A k \in Launches : k # l => over'[k] = over[k] /\ tunnel'[k] = tunnel[k]
    BY <1>20 DEF ServiceEnds
  <2>2. \A q \in Requests : pc[q] = "start" => mine[q] # l
    <3>1. tunnel[l] # "none"
      BY <1>20 DEF ServiceEnds, Tunnels
    <3>2. QED
      BY <3>1
  <2>3. UNCHANGED <<state, mine, pc>>
    BY <1>20 DEF ServiceEnds
  <2>4. QED
    BY <2>1, <2>2, <2>3
<1>21. ASSUME NEW l \in Launches, TunnelBreaks(l)
      PROVE  Owner'
  BY <1>21 DEF TunnelBreaks
<1>22. ASSUME NEW l \in Launches, Reattach(l)
      PROVE  Owner'
  BY <1>22 DEF Reattach
<1>23. ASSUME NEW l \in Launches, CloseStops(l)
      PROVE  Owner'
  <2>1. \A k \in Launches : k # l => over'[k] = over[k] /\ tunnel'[k] = tunnel[k]
    BY <1>23 DEF CloseStops, EndInstance
  <2>2. \A q \in Requests : pc[q] = "start" => mine[q] # l
    BY <1>23 DEF CloseStops
  <2>3. UNCHANGED <<state, mine, pc>>
    BY <1>23 DEF CloseStops
  <2>4. QED
    BY <2>1, <2>2, <2>3
<1>24. ASSUME Close
      PROVE  Owner'
  BY <1>24 DEF Close
<1>25. ASSUME NEW l \in Launches, Watch(l)
      PROVE  Owner'
  <2>1. state[l] # "starting"
    BY <1>25 DEF Watch, FinishLocked, Forget, Endings
  <2>2. \A q \in Requests : pc'[q] \in Starting =>
         pc[q] = pc'[q] /\ mine[q] = mine'[q] /\ mine[q] # NoLaunch
    BY <1>25 DEF Watch, FinishLocked, Forget
  <2>3. \A q \in Requests : pc'[q] \in Starting => state'[mine'[q]] = "starting"
    BY <1>25, <2>1, <2>2 DEF Watch, FinishLocked, Forget
  <2>4. \A q \in Requests : pc'[q] = "start" =>
         ~over'[mine'[q]] /\ tunnel'[mine'[q]] = "none"
    BY <1>25, <2>1, <2>2 DEF Watch, FinishLocked, Forget
  <2>5. \A p, q \in Requests : pc'[p] \in Starting /\ pc'[q] \in Starting /\ mine'[p] = mine'[q] =>
         p = q
    BY <1>25, <2>1, <2>2 DEF Watch, FinishLocked, Forget
  <2>6. QED
    BY <1>25, <2>1, <2>2, <2>3, <2>4, <2>5 DEF Watch, FinishLocked, Forget
<1>26. CASE UNCHANGED vars
  BY <1>26 DEF vars
<1>27. QED
  BY <1>1, <1>2, <1>3, <1>4, <1>5, <1>6, <1>7, <1>8, <1>9, <1>10, <1>11, <1>12, <1>13,
     <1>14, <1>15, <1>16, <1>17, <1>18, <1>19, <1>20, <1>21, <1>22, <1>23, <1>24, <1>25, <1>26 DEF Next, Handler

\* A launch is over only after its service: the stop request waits for the
\* launcher, the watcher for the end of the service.
LEMMA EndingsStep == IInv /\ [Next]_vars => Endings'
<1> SUFFICES ASSUME IInv, [Next]_vars PROVE Endings'
  OBVIOUS
<1> USE AppLaunchAssumption DEF IInv, TypeOK, RequestPcs, WorkingPcs, Endings,
      Owner, Starting, Blank, GoTo, Answer, EndInstance, registry, launchVars, lifeVars,
      backing, session, request, Launches, NoLaunch
<1>1. ASSUME NEW r \in Requests, LookForExisting(r)
      PROVE  Endings'
  <2>1. Joins(r) /\ UNCHANGED <<state, over, closed, watcher>>
    <3> HIDE DEF TypeOK
    <3>1. Joins(r)
      BY <1>1, LooksJoin
    <3>2. QED
      BY <3>1 DEF Joins
  <2>2. \A q \in Requests : pc'[q] \in {"stopping", "finish", "fail"} =>
                             pc'[q] = pc[q] /\ mine'[q] = mine[q]
    BY <2>1, JoinsKeeps
  <2>3. QED
    BY <2>1, <2>2
<1>2. ASSUME NEW r \in Requests, FolderAccepted(r)
      PROVE  Endings'
  BY <1>2 DEF FolderAccepted
<1>3. ASSUME NEW r \in Requests, FolderRefused(r)
      PROVE  Endings'
  BY <1>3 DEF FolderRefused
<1>4. ASSUME NEW r \in Requests, AcquireExisting(r)
      PROVE  Endings'
  <2>1. Joins(r) /\ UNCHANGED <<state, over, closed, watcher>>
    <3> HIDE DEF TypeOK
    <3>1. Joins(r)
      BY <1>4, LooksJoin
    <3>2. QED
      BY <3>1 DEF Joins
  <2>2. \A q \in Requests : pc'[q] \in {"stopping", "finish", "fail"} =>
                             pc'[q] = pc[q] /\ mine'[q] = mine[q]
    BY <2>1, JoinsKeeps
  <2>3. QED
    BY <2>1, <2>2
<1>5. ASSUME NEW r \in Requests, AcquireNew(r)
      PROVE  Endings'
  BY <1>5 DEF AcquireNew
<1>6. ASSUME NEW r \in Requests, AcquireFails(r)
      PROVE  Endings'
  BY <1>6 DEF AcquireFails
<1>7. ASSUME NEW r \in Requests, ServiceStarts(r)
      PROVE  Endings'
  BY <1>7 DEF ServiceStarts
<1>8. ASSUME NEW r \in Requests, StartFails(r)
      PROVE  Endings'
  BY <1>8 DEF StartFails
<1>9. ASSUME NEW r \in Requests, Complete(r)
      PROVE  Endings'
  BY <1>9 DEF Complete
<1>10. ASSUME NEW r \in Requests, CompleteFailed(r)
      PROVE  Endings'
  BY <1>10 DEF CompleteFailed, FinishLocked, Forget
<1>11. ASSUME NEW r \in Requests, Respond(r)
      PROVE  Endings'
  BY <1>11 DEF Respond
<1>12. ASSUME NEW r \in Requests, StopNothing(r)
      PROVE  Endings'
  <2>1. Joins(r) /\ UNCHANGED <<state, over, closed, watcher>>
    <3> HIDE DEF TypeOK
    <3>1. Joins(r)
      BY <1>12, LooksJoin
    <3>2. QED
      BY <3>1 DEF Joins
  <2>2. \A q \in Requests : pc'[q] \in {"stopping", "finish", "fail"} =>
                             pc'[q] = pc[q] /\ mine'[q] = mine[q]
    BY <2>1, JoinsKeeps
  <2>3. QED
    BY <2>1, <2>2
<1>13. ASSUME NEW r \in Requests, StopRunning(r)
      PROVE  Endings'
  BY <1>13 DEF StopRunning
<1>14. ASSUME NEW r \in Requests, ServiceStops(r)
      PROVE  Endings'
  <2>1. mine[r] \in Launches
    BY <1>14 DEF ServiceStops
  <2>2. /\ \A k \in Launches : over[k] => over'[k]
        /\ over'[mine[r]] \/ closed
    <3>1. CASE closed
      BY <1>14, <3>1 DEF ServiceStops
    <3>2. CASE ~closed
      BY <1>14, <2>1, <3>2 DEF ServiceStops
    <3>3. QED
      BY <3>1, <3>2
  <2>3. /\ UNCHANGED <<state, closed, watcher, mine>>
        /\ \A q \in Requests : q # r => pc'[q] = pc[q]
        /\ pc[r] = "stopping" /\ pc'[r] = "finish"
    BY <1>14 DEF ServiceStops
  <2>4. \A q \in Requests :
          pc'[q] \in {"stopping", "finish"} => state'[mine'[q]] \in {"stopping", "stopped"}
    BY <2>3
  <2>5. ASSUME NEW q \in Requests, pc'[q] \in {"finish", "fail"}
        PROVE  over'[mine'[q]] \/ closed'
    <3>1. CASE q = r
      BY <2>2, <2>3, <3>1
    <3>2. CASE q # r
      <4>1. mine[q] \in Launches /\ (over[mine[q]] \/ closed)
        BY <2>3, <2>5, <3>2
      <4>2. QED
        BY <2>2, <2>3, <4>1
    <3>3. QED
      BY <3>1, <3>2
  <2>6. \A l \in Launches : state'[l] = "stopped" => over'[l] \/ closed'
    BY <2>2, <2>3
  <2>7. \A l \in Launches : watcher'[l] = "waiting" => state'[l] \notin {"none", "starting"}
    BY <2>3
  <2>8. QED
    BY <2>4, <2>5, <2>6, <2>7
<1>15. ASSUME NEW r \in Requests, FinishStop(r)
      PROVE  Endings'
  BY <1>15 DEF FinishStop, FinishLocked, Forget
<1>16. ASSUME NEW r \in Requests, StopSeen(r)
      PROVE  Endings'
  BY <1>16 DEF StopSeen
<1>17. ASSUME NEW r \in Requests, GiveUp(r)
      PROVE  Endings'
  BY <1>17 DEF GiveUp
<1>18. ASSUME NEW r \in Requests, NEW d \in Dirs, Delete(r, d)
      PROVE  Endings'
  BY <1>18 DEF Delete
<1>19. ASSUME NEW r \in Requests, NEW d \in Dirs, NEW p \in Pythons, Post(r, d, p)
      PROVE  Endings'
  BY <1>19 DEF Post
<1>20. ASSUME NEW l \in Launches, ServiceEnds(l)
      PROVE  Endings'
  <2>1. \A k \in Launches : over[k] => over'[k]
    <3>1. CASE remote
      BY <1>20, <3>1 DEF ServiceEnds
    <3>2. CASE ~remote
      BY <1>20, <3>2 DEF ServiceEnds
    <3>3. QED
      BY <3>1, <3>2
  <2>2. UNCHANGED <<state, closed, watcher, mine, pc>>
    BY <1>20 DEF ServiceEnds
  <2>3. QED
    BY <2>1, <2>2
<1>21. ASSUME NEW l \in Launches, TunnelBreaks(l)
      PROVE  Endings'
  BY <1>21 DEF TunnelBreaks
<1>22. ASSUME NEW l \in Launches, Reattach(l)
      PROVE  Endings'
  BY <1>22 DEF Reattach
<1>23. ASSUME NEW l \in Launches, CloseStops(l)
      PROVE  Endings'
  BY <1>23 DEF CloseStops, EndInstance
<1>24. ASSUME Close
      PROVE  Endings'
  BY <1>24 DEF Close
<1>25. ASSUME NEW l \in Launches, Watch(l)
      PROVE  Endings'
  BY <1>25 DEF Watch, FinishLocked, Forget
<1>26. CASE UNCHANGED vars
  BY <1>26 DEF vars
<1>27. QED
  BY <1>1, <1>2, <1>3, <1>4, <1>5, <1>6, <1>7, <1>8, <1>9, <1>10, <1>11, <1>12, <1>13,
     <1>14, <1>15, <1>16, <1>17, <1>18, <1>19, <1>20, <1>21, <1>22, <1>23, <1>24, <1>25, <1>26 DEF Next, Handler

\* The tunnel of an instance goes when the instance is over, and a launch is over
\* only after its instance, but for the end of the session.
LEMMA TunnelsStep == IInv /\ [Next]_vars => Tunnels'
<1> SUFFICES ASSUME IInv, [Next]_vars PROVE Tunnels'
  OBVIOUS
<1> USE AppLaunchAssumption DEF IInv, TypeOK, RequestPcs, WorkingPcs, Tunnels,
      Blank, Owner, Starting, Endings, Registry, Active, GoTo, Answer, registry, launchVars,
      lifeVars, backing, session, request, Launches, NoLaunch
<1>1. ASSUME NEW r \in Requests, LookForExisting(r)
      PROVE  Tunnels'
  BY <1>1 DEF LookForExisting
<1>2. ASSUME NEW r \in Requests, FolderAccepted(r)
      PROVE  Tunnels'
  BY <1>2 DEF FolderAccepted
<1>3. ASSUME NEW r \in Requests, FolderRefused(r)
      PROVE  Tunnels'
  BY <1>3 DEF FolderRefused
<1>4. ASSUME NEW r \in Requests, AcquireExisting(r)
      PROVE  Tunnels'
  BY <1>4 DEF AcquireExisting
<1>5. ASSUME NEW r \in Requests, AcquireNew(r)
      PROVE  Tunnels'
  BY <1>5 DEF AcquireNew
<1>6. ASSUME NEW r \in Requests, AcquireFails(r)
      PROVE  Tunnels'
  BY <1>6 DEF AcquireFails
<1>7. ASSUME NEW r \in Requests, ServiceStarts(r)
      PROVE  Tunnels'
  BY <1>7 DEF ServiceStarts
<1>8. ASSUME NEW r \in Requests, StartFails(r)
      PROVE  Tunnels'
  <2>1. mine[r] \in Launches /\ tunnel[mine[r]] = "none"
    BY <1>8 DEF StartFails
  <2>2. \A k \in Launches : k # mine[r] =>
         service'[k] = service[k] /\ tunnel'[k] = tunnel[k] /\ over'[k] = over[k]
    BY <1>8, <2>1 DEF StartFails
  <2>3. UNCHANGED <<state, remote, closed>>
    BY <1>8 DEF StartFails
  <2>4. \/ service'[mine[r]] = service[mine[r]] /\ tunnel'[mine[r]] = "none"
        \/ remote /\ tunnel'[mine[r]] = "lost"
    <3>1. CASE UNCHANGED <<service, tunnel>>
      BY <2>1, <3>1
    <3>2. CASE remote /\ tunnel' = [tunnel EXCEPT ![mine[r]] = "lost"]
      BY <2>1, <3>2
    <3>3. \/ UNCHANGED <<service, tunnel>>
          \/ remote /\ tunnel' = [tunnel EXCEPT ![mine[r]] = "lost"]
      BY <1>8 DEF StartFails
    <3> HIDE DEF IInv, TypeOK, Tunnels, Blank, Owner, Starting, Endings, Registry
    <3>4. QED
      BY <3>1, <3>2, <3>3
  <2>5. \A k \in Launches : tunnel'[k] = "up" => tunnel[k] = "up" /\ k # mine[r]
    BY <2>1, <2>2, <2>4
  <2>6. ASSUME NEW k \in Launches, tunnel'[k] = "up"
        PROVE  ~over'[k] /\ (state'[k] \in Active \/ closed')
    <3>1. tunnel[k] = "up" /\ over'[k] = over[k]
      BY <2>2, <2>5, <2>6
    <3>2. ~over[k] /\ (state[k] \in Active \/ closed)
      BY <3>1
    <3>3. QED
      BY <2>3, <3>1, <3>2
  <2>7. ASSUME NEW k \in Launches, service'[k] = "live"
        PROVE  tunnel'[k] \in {"up", "lost"}
    <3>1. \A m \in Launches : service[m] = "live" => tunnel[m] \in {"up", "lost"}
      OBVIOUS
    <3>2. CASE k # mine[r]
      BY <2>2, <2>7, <3>1, <3>2
    <3>3. CASE k = mine[r] /\ service'[mine[r]] = service[mine[r]]
      BY <2>1, <2>7, <3>1, <3>3
    <3>4. CASE k = mine[r] /\ tunnel'[mine[r]] = "lost"
      BY <3>4
    <3> HIDE DEF IInv, TypeOK, Tunnels, Blank, Owner, Starting, Endings, Registry
    <3>5. QED
      BY <2>4, <3>2, <3>3, <3>4
  <2>8. \A k \in Launches : tunnel'[k] = "lost" => remote'
    BY <2>1, <2>2, <2>3, <2>4
  <2>9. QED
    BY <2>6, <2>7, <2>8
<1>9. ASSUME NEW r \in Requests, Complete(r)
      PROVE  Tunnels'
  BY <1>9 DEF Complete
<1>10. ASSUME NEW r \in Requests, CompleteFailed(r)
      PROVE  Tunnels'
  BY <1>10 DEF CompleteFailed, FinishLocked, Forget
<1>11. ASSUME NEW r \in Requests, Respond(r)
      PROVE  Tunnels'
  BY <1>11 DEF Respond
<1>12. ASSUME NEW r \in Requests, StopNothing(r)
      PROVE  Tunnels'
  BY <1>12 DEF StopNothing
<1>13. ASSUME NEW r \in Requests, StopRunning(r)
      PROVE  Tunnels'
  BY <1>13 DEF StopRunning
<1>14. ASSUME NEW r \in Requests, ServiceStops(r)
      PROVE  Tunnels'
  <2>1. mine[r] \in Launches
    BY <1>14 DEF ServiceStops
  <2>2. CASE closed
    BY <1>14, <2>2 DEF ServiceStops
  <2>3. CASE ~closed
    <3>1. \A k \in Launches : k # mine[r] =>
           service'[k] = service[k] /\ tunnel'[k] = tunnel[k] /\ over'[k] = over[k]
      BY <1>14, <2>1, <2>3 DEF ServiceStops, EndInstance
    <3>2. \/ service'[mine[r]] = "gone" /\ tunnel'[mine[r]] = "ended"
          \/ UNCHANGED <<service, tunnel>> /\ tunnel[mine[r]] # "up"
      BY <1>14, <2>1, <2>3 DEF ServiceStops, EndInstance
    <3>3. UNCHANGED <<state, remote, closed>>
      BY <1>14 DEF ServiceStops
    <3>4. QED
      BY <2>1, <3>1, <3>2, <3>3
  <2>4. QED
    BY <2>2, <2>3
<1>15. ASSUME NEW r \in Requests, FinishStop(r)
      PROVE  Tunnels'
  BY <1>15 DEF FinishStop, FinishLocked, Forget
<1>16. ASSUME NEW r \in Requests, StopSeen(r)
      PROVE  Tunnels'
  BY <1>16 DEF StopSeen
<1>17. ASSUME NEW r \in Requests, GiveUp(r)
      PROVE  Tunnels'
  BY <1>17 DEF GiveUp
<1>18. ASSUME NEW r \in Requests, NEW d \in Dirs, Delete(r, d)
      PROVE  Tunnels'
  BY <1>18 DEF Delete
<1>19. ASSUME NEW r \in Requests, NEW d \in Dirs, NEW p \in Pythons, Post(r, d, p)
      PROVE  Tunnels'
  BY <1>19 DEF Post
<1>20. ASSUME NEW l \in Launches, ServiceEnds(l)
      PROVE  Tunnels'
  BY <1>20 DEF ServiceEnds
<1>21. ASSUME NEW l \in Launches, TunnelBreaks(l)
      PROVE  Tunnels'
  BY <1>21 DEF TunnelBreaks
<1>22. ASSUME NEW l \in Launches, Reattach(l)
      PROVE  Tunnels'
  BY <1>22 DEF Reattach
<1>23. ASSUME NEW l \in Launches, CloseStops(l)
      PROVE  Tunnels'
  BY <1>23 DEF CloseStops, EndInstance
<1>24. ASSUME Close
      PROVE  Tunnels'
  BY <1>24 DEF Close
<1>25. ASSUME NEW l \in Launches, Watch(l)
      PROVE  Tunnels'
  BY <1>25 DEF Watch, FinishLocked, Forget
<1>26. CASE UNCHANGED vars
  BY <1>26 DEF vars
<1>27. QED
  BY <1>1, <1>2, <1>3, <1>4, <1>5, <1>6, <1>7, <1>8, <1>9, <1>10, <1>11, <1>12, <1>13,
     <1>14, <1>15, <1>16, <1>17, <1>18, <1>19, <1>20, <1>21, <1>22, <1>23, <1>24, <1>25, <1>26 DEF Next, Handler

\* A tunnel goes up only for a launch that is registered, while the launchers are
\* open: every other tunnel of the directory is lost or ended by then.
LEMMA OneServiceStep == IInv /\ [Next]_vars => OneServicePerDirectory'
<1> SUFFICES ASSUME IInv, [Next]_vars PROVE OneServicePerDirectory'
  OBVIOUS
<1> USE AppLaunchAssumption DEF IInv, TypeOK, RequestPcs, WorkingPcs, Tunnels, OneServicePerDirectory,
      Blank, Owner, Starting, Endings, Registry, Active, GoTo, Answer, registry, launchVars,
      lifeVars, backing, session, request, Launches, NoLaunch
<1>1. ASSUME NEW r \in Requests, LookForExisting(r)
      PROVE  OneServicePerDirectory'
  BY <1>1 DEF LookForExisting
<1>2. ASSUME NEW r \in Requests, FolderAccepted(r)
      PROVE  OneServicePerDirectory'
  BY <1>2 DEF FolderAccepted
<1>3. ASSUME NEW r \in Requests, FolderRefused(r)
      PROVE  OneServicePerDirectory'
  BY <1>3 DEF FolderRefused
<1>4. ASSUME NEW r \in Requests, AcquireExisting(r)
      PROVE  OneServicePerDirectory'
  BY <1>4 DEF AcquireExisting
<1>5. ASSUME NEW r \in Requests, AcquireNew(r)
      PROVE  OneServicePerDirectory'
  BY <1>5 DEF AcquireNew
<1>6. ASSUME NEW r \in Requests, AcquireFails(r)
      PROVE  OneServicePerDirectory'
  BY <1>6 DEF AcquireFails
<1>7. ASSUME NEW r \in Requests, ServiceStarts(r)
      PROVE  OneServicePerDirectory'
  BY <1>7 DEF ServiceStarts
<1>8. ASSUME NEW r \in Requests, StartFails(r)
      PROVE  OneServicePerDirectory'
  BY <1>8 DEF StartFails
<1>9. ASSUME NEW r \in Requests, Complete(r)
      PROVE  OneServicePerDirectory'
  BY <1>9 DEF Complete
<1>10. ASSUME NEW r \in Requests, CompleteFailed(r)
      PROVE  OneServicePerDirectory'
  BY <1>10 DEF CompleteFailed, FinishLocked, Forget
<1>11. ASSUME NEW r \in Requests, Respond(r)
      PROVE  OneServicePerDirectory'
  BY <1>11 DEF Respond
<1>12. ASSUME NEW r \in Requests, StopNothing(r)
      PROVE  OneServicePerDirectory'
  BY <1>12 DEF StopNothing
<1>13. ASSUME NEW r \in Requests, StopRunning(r)
      PROVE  OneServicePerDirectory'
  BY <1>13 DEF StopRunning
<1>14. ASSUME NEW r \in Requests, ServiceStops(r)
      PROVE  OneServicePerDirectory'
  BY <1>14 DEF ServiceStops, EndInstance
<1>15. ASSUME NEW r \in Requests, FinishStop(r)
      PROVE  OneServicePerDirectory'
  BY <1>15 DEF FinishStop, FinishLocked, Forget
<1>16. ASSUME NEW r \in Requests, StopSeen(r)
      PROVE  OneServicePerDirectory'
  BY <1>16 DEF StopSeen
<1>17. ASSUME NEW r \in Requests, GiveUp(r)
      PROVE  OneServicePerDirectory'
  BY <1>17 DEF GiveUp
<1>18. ASSUME NEW r \in Requests, NEW d \in Dirs, Delete(r, d)
      PROVE  OneServicePerDirectory'
  BY <1>18 DEF Delete
<1>19. ASSUME NEW r \in Requests, NEW d \in Dirs, NEW p \in Pythons, Post(r, d, p)
      PROVE  OneServicePerDirectory'
  BY <1>19 DEF Post
<1>20. ASSUME NEW l \in Launches, ServiceEnds(l)
      PROVE  OneServicePerDirectory'
  BY <1>20 DEF ServiceEnds
<1>21. ASSUME NEW l \in Launches, TunnelBreaks(l)
      PROVE  OneServicePerDirectory'
  BY <1>21 DEF TunnelBreaks
<1>22. ASSUME NEW l \in Launches, Reattach(l)
      PROVE  OneServicePerDirectory'
  <2>1. state[l] \in Active /\ ~closed
    BY <1>22 DEF Reattach
  <2>2. \A m \in Launches : tunnel[m] = "up" => state[m] \in Active
    BY <2>1
  <2>3. \A m \in Launches : tunnel[m] = "up" /\ dir[m] = dir[l] => m = l
    BY <2>1, <2>2
  <2>4. UNCHANGED dir /\ \A m \in Launches : m # l => tunnel'[m] = tunnel[m]
    BY <1>22 DEF Reattach
  <2>5. QED
    BY <2>3, <2>4
<1>23. ASSUME NEW l \in Launches, CloseStops(l)
      PROVE  OneServicePerDirectory'
  BY <1>23 DEF CloseStops, EndInstance
<1>24. ASSUME Close
      PROVE  OneServicePerDirectory'
  BY <1>24 DEF Close
<1>25. ASSUME NEW l \in Launches, Watch(l)
      PROVE  OneServicePerDirectory'
  BY <1>25 DEF Watch, FinishLocked, Forget
<1>26. CASE UNCHANGED vars
  BY <1>26 DEF vars
<1>27. QED
  BY <1>1, <1>2, <1>3, <1>4, <1>5, <1>6, <1>7, <1>8, <1>9, <1>10, <1>11, <1>12, <1>13,
     <1>14, <1>15, <1>16, <1>17, <1>18, <1>19, <1>20, <1>21, <1>22, <1>23, <1>24, <1>25, <1>26 DEF Next, Handler

\* The handler of a launch goes when the launch stops running.
LEMMA ProxyOnlyRunningStep == IInv /\ [Next]_vars => ProxyOnlyRunning'
<1> SUFFICES ASSUME IInv, [Next]_vars PROVE ProxyOnlyRunning'
  OBVIOUS
<1> USE AppLaunchAssumption DEF IInv, TypeOK, RequestPcs, WorkingPcs, ProxyOnlyRunning,
      Owner, Starting, Blank, Registry, Active, GoTo, Answer, registry, launchVars, lifeVars,
      backing, session, request, Launches, NoLaunch
<1>1. ASSUME NEW r \in Requests, LookForExisting(r)
      PROVE  ProxyOnlyRunning'
  BY <1>1 DEF LookForExisting
<1>2. ASSUME NEW r \in Requests, FolderAccepted(r)
      PROVE  ProxyOnlyRunning'
  BY <1>2 DEF FolderAccepted
<1>3. ASSUME NEW r \in Requests, FolderRefused(r)
      PROVE  ProxyOnlyRunning'
  BY <1>3 DEF FolderRefused
<1>4. ASSUME NEW r \in Requests, AcquireExisting(r)
      PROVE  ProxyOnlyRunning'
  BY <1>4 DEF AcquireExisting
<1>5. ASSUME NEW r \in Requests, AcquireNew(r)
      PROVE  ProxyOnlyRunning'
  BY <1>5 DEF AcquireNew
<1>6. ASSUME NEW r \in Requests, AcquireFails(r)
      PROVE  ProxyOnlyRunning'
  BY <1>6 DEF AcquireFails
<1>7. ASSUME NEW r \in Requests, ServiceStarts(r)
      PROVE  ProxyOnlyRunning'
  BY <1>7 DEF ServiceStarts
<1>8. ASSUME NEW r \in Requests, StartFails(r)
      PROVE  ProxyOnlyRunning'
  BY <1>8 DEF StartFails
<1>9. ASSUME NEW r \in Requests, Complete(r)
      PROVE  ProxyOnlyRunning'
  BY <1>9 DEF Complete
<1>10. ASSUME NEW r \in Requests, CompleteFailed(r)
      PROVE  ProxyOnlyRunning'
  BY <1>10 DEF CompleteFailed, FinishLocked, Forget
<1>11. ASSUME NEW r \in Requests, Respond(r)
      PROVE  ProxyOnlyRunning'
  BY <1>11 DEF Respond
<1>12. ASSUME NEW r \in Requests, StopNothing(r)
      PROVE  ProxyOnlyRunning'
  BY <1>12 DEF StopNothing
<1>13. ASSUME NEW r \in Requests, StopRunning(r)
      PROVE  ProxyOnlyRunning'
  BY <1>13 DEF StopRunning
<1>14. ASSUME NEW r \in Requests, ServiceStops(r)
      PROVE  ProxyOnlyRunning'
  BY <1>14 DEF ServiceStops
<1>15. ASSUME NEW r \in Requests, FinishStop(r)
      PROVE  ProxyOnlyRunning'
  BY <1>15 DEF FinishStop, FinishLocked, Forget
<1>16. ASSUME NEW r \in Requests, StopSeen(r)
      PROVE  ProxyOnlyRunning'
  BY <1>16 DEF StopSeen
<1>17. ASSUME NEW r \in Requests, GiveUp(r)
      PROVE  ProxyOnlyRunning'
  BY <1>17 DEF GiveUp
<1>18. ASSUME NEW r \in Requests, NEW d \in Dirs, Delete(r, d)
      PROVE  ProxyOnlyRunning'
  BY <1>18 DEF Delete
<1>19. ASSUME NEW r \in Requests, NEW d \in Dirs, NEW p \in Pythons, Post(r, d, p)
      PROVE  ProxyOnlyRunning'
  BY <1>19 DEF Post
<1>20. ASSUME NEW l \in Launches, ServiceEnds(l)
      PROVE  ProxyOnlyRunning'
  BY <1>20 DEF ServiceEnds
<1>21. ASSUME NEW l \in Launches, TunnelBreaks(l)
      PROVE  ProxyOnlyRunning'
  BY <1>21 DEF TunnelBreaks
<1>22. ASSUME NEW l \in Launches, Reattach(l)
      PROVE  ProxyOnlyRunning'
  BY <1>22 DEF Reattach
<1>23. ASSUME NEW l \in Launches, CloseStops(l)
      PROVE  ProxyOnlyRunning'
  BY <1>23 DEF CloseStops, EndInstance
<1>24. ASSUME Close
      PROVE  ProxyOnlyRunning'
  BY <1>24 DEF Close
<1>25. ASSUME NEW l \in Launches, Watch(l)
      PROVE  ProxyOnlyRunning'
  BY <1>25 DEF Watch, FinishLocked, Forget
<1>26. CASE UNCHANGED vars
  BY <1>26 DEF vars
<1>27. QED
  BY <1>1, <1>2, <1>3, <1>4, <1>5, <1>6, <1>7, <1>8, <1>9, <1>10, <1>11, <1>12, <1>13,
     <1>14, <1>15, <1>16, <1>17, <1>18, <1>19, <1>20, <1>21, <1>22, <1>23, <1>24, <1>25, <1>26 DEF Next, Handler

-----------------------------------------------------------------------------
(***************************************************************************)
(* The theorems.                                                           *)
(***************************************************************************)
\* The invariant is inductive.
LEMMA Inductive == Spec => []IInv
<1>1. IInv /\ [Next]_vars => IInv'
  BY TypeStep, BlankStep, RegistryStep, OwnerStep, EndingsStep, TunnelsStep,
     OneServiceStep, ProxyOnlyRunningStep DEF IInv
<1>2. QED
  BY InitIInv, <1>1, PTL DEF Spec

\* The types of the launches, of the registry and of the requests.
THEOREM TypeCorrect == Spec => []TypeOK
<1>1. IInv => TypeOK
  BY DEF IInv
<1>2. QED
  BY Inductive, <1>1, PTL

\* acquire, complete, stop and finish keep jupyterByDir (tensorByDir) and the
\* state of the launches in step, in any order of any number of requests.
THEOREM RegistryExact == Spec => []RegisteredWhileActive
<1>1. IInv => RegisteredWhileActive
  BY DEF IInv, TypeOK, Registry, Active, RegisteredWhileActive, Launches, NoLaunch
<1>2. QED
  BY Inductive, <1>1, PTL

\* The launcher never reaches two services of one directory.
THEOREM OneService == Spec => []OneServicePerDirectory
<1>1. IInv => OneServicePerDirectory
  BY DEF IInv
<1>2. QED
  BY Inductive, <1>1, PTL

\* Past its launch, a service goes on behind a lost tunnel, or until the end of the
\* session gets to it.
THEOREM StoppedIsGone == Spec => []StoppedMeansGone
<1>1. IInv => StoppedMeansGone
  BY DEF IInv, TypeOK, Tunnels, Active, StoppedMeansGone
<1>2. QED
  BY Inductive, <1>1, PTL

\* The proxy serves running launches only.
THEOREM ProxyRuns == Spec => []ProxyOnlyRunning
<1>1. IInv => ProxyOnlyRunning
  BY DEF IInv
<1>2. QED
  BY Inductive, <1>1, PTL

\* All three.
THEOREM RegistryIsExact == Spec => []RegistryAgrees
<1>1. RegisteredWhileActive /\ OneServicePerDirectory /\ StoppedMeansGone => RegistryAgrees
  BY DEF RegistryAgrees
<1>2. QED
  BY RegistryExact, OneService, StoppedIsGone, <1>1, PTL

-----------------------------------------------------------------------------
(***************************************************************************)
(* AppLaunch implements AppService.  What a page sees of a directory is    *)
(* that of the launch it names; a launch that is over shows in what is     *)
(* left, if at all.                                                        *)
(***************************************************************************)
\* A launch that is not the one of its directory is blank or over.
LEMMA Unnamed ==
    ASSUME IInv, NEW l \in Launches, state[l] \notin Active
    PROVE  /\ state[l] \in {"none", "stopped"}
           /\ \A c \in Dirs : byDir[c] # l
<1> USE DEF IInv, TypeOK, Launches, NoLaunch
<1>1. state[l] \in {"none", "starting", "running", "stopping", "stopped"}
  OBVIOUS
<1>2. l # NoLaunch
  OBVIOUS
<1>3. QED
  BY <1>1, <1>2 DEF Registry, Active

\* One that is, is that of no other.
LEMMA Named ==
    ASSUME IInv, NEW l \in Launches, state[l] \in Active
    PROVE  /\ dir[l] \in Dirs /\ byDir[dir[l]] = l /\ l # NoLaunch
           /\ \A c \in Dirs : byDir[c] = l => c = dir[l]
           /\ Phase(dir[l]) = state[l]
           /\ dir[l] \in LiveDirs <=> service[l] = "live"
           /\ dir[l] \in ReachDirs <=> service[l] = "live" /\ tunnel[l] = "up"
<1>0. l # NoLaunch
  BY DEF Launches, NoLaunch
<1>1. dir[l] \in Dirs /\ byDir[dir[l]] = l
  BY DEF IInv, TypeOK, Registry
<1>2. \A c \in Dirs : byDir[c] = l => c = dir[l]
  BY <1>0 DEF IInv, Registry
<1>3. QED
  BY <1>0, <1>1, <1>2 DEF Phase, LiveDirs, ReachDirs

\* What does not touch the registry, a launch or its service is not seen.
LEMMA Unseen ==
    UNCHANGED <<byDir, proxy, dir, state, service, tunnel, closed>> => UNCHANGED Service!vars
BY DEF Service!vars, Phase, LiveDirs, ReachDirs, LeftDirs, OpenDirs

LEMMA ServiceInit == Init => Service!Init
BY DEF Init, Service!Init, Phase, LiveDirs, ReachDirs, LeftDirs, OpenDirs, NoLaunch

\* The end of a launch whose instance is over, also of one that is over already.
LEMMA FinishSeen ==
    ASSUME IInv, NEW l \in Launches, FinishLocked(l),
           UNCHANGED <<dir, service, tunnel, closed>>,
           over[l] \/ closed, state[l] # "none"
    PROVE  [Service!Next]_(Service!vars)
<1>1. CASE state[l] \in Active
  <2> DEFINE d == dir[l]
  <2>1. /\ d \in Dirs /\ byDir[d] = l /\ l # NoLaunch /\ Phase(d) = state[l]
        /\ d \in LiveDirs <=> service[l] = "live"
        /\ d \in ReachDirs <=> service[l] = "live" /\ tunnel[l] = "up"
    BY <1>1, Named
  <2>2. byDir \in [Dirs -> 0..MaxLaunches] /\ state \in [Launches -> {"none", "starting", "running", "stopping", "stopped"}]
    BY DEF IInv, TypeOK
  <2>3. byDir' = [byDir EXCEPT ![d] = NoLaunch] /\ state' = [state EXCEPT ![l] = "stopped"]
    BY <2>1, <2>2 DEF FinishLocked, Forget
  <2>4. \A c \in Dirs : c # d => byDir[c] # l
    BY <1>1, Named
  <2>5. \A c \in Dirs : Phase(c)' = IF c = d THEN "stopped" ELSE Phase(c)
    BY <2>2, <2>3, <2>4 DEF Phase
  <2>6. LiveDirs' = LiveDirs \ {d} /\ ReachDirs' = ReachDirs \ {d}
    BY <2>1, <2>2, <2>3 DEF LiveDirs, ReachDirs
  <2>7. LeftDirs' = LeftDirs \cup (LiveDirs \cap {d})
    <3>1. \A m \in Launches : m # l => state'[m] = state[m]
      BY <2>2, <2>3
    <3>2. state'[l] = "stopped" /\ state[l] # "stopped"
      BY <1>1, <2>2, <2>3 DEF Active
    <3>3. QED
      BY <2>1, <3>1, <3>2 DEF LeftDirs
  <2>8. OpenDirs' = OpenDirs \ {d}
    <3>1. \A m \in proxy : m # l => dir[m] # d
      BY <2>1 DEF IInv, TypeOK, Registry, ProxyOnlyRunning, Active
    <3>2. QED
      BY <3>1 DEF FinishLocked, OpenDirs
  <2>9. d \in ReachDirs => closed
    BY <2>1 DEF IInv, Tunnels
  <2>10. Service!Move(d, {"starting", "running", "stopping"}, "stopped")
    BY <1>1, <2>1, <2>5 DEF Service!Move, Active
  <2>11. Service!Over(d)
    BY <2>1, <2>6, <2>7, <2>8, <2>9, <2>10 DEF Service!Over
  <2>12. QED
    BY <2>1, <2>11 DEF Service!Next
<1>2. CASE state[l] \notin Active
  <2>1. state[l] = "stopped" /\ \A c \in Dirs : byDir[c] # l
    BY <1>2, Unnamed
  <2>2. l \notin proxy /\ dir[l] \in Dirs
    BY <2>1 DEF IInv, TypeOK, ProxyOnlyRunning
  <2>3. UNCHANGED <<byDir, proxy, state>>
    BY <2>1, <2>2 DEF FinishLocked, Forget, IInv, TypeOK
  <2>4. QED
    BY <2>3, Unseen
<1>3. QED
  BY <1>1, <1>2

\* The end of a service, asked for or not, of a launch that is over or is not.
LEMMA EndSeen ==
    ASSUME IInv, NEW l \in Launches, service[l] = "live",
           service' = [service EXCEPT ![l] = "gone"],
           \A m \in Launches : m # l => tunnel'[m] = tunnel[m],
           UNCHANGED <<byDir, proxy, dir, state, closed>>
    PROVE  [Service!Next]_(Service!vars)
<1>1. (\A c \in Dirs : Phase(c)' = Phase(c)) /\ OpenDirs' = OpenDirs
  BY DEF Phase, OpenDirs
<1>2. \A m \in Launches : service'[m] = IF m = l THEN "gone" ELSE service[m]
  BY DEF IInv, TypeOK
<1>3. \A c \in Dirs : byDir[c] # NoLaunch => byDir[c] \in Launches
  BY DEF IInv, TypeOK, Launches, NoLaunch
<1>4. dir[l] \in Dirs
  BY DEF IInv, TypeOK
<1>5. CASE state[l] \in Active
  <2>1. \A c \in Dirs : byDir[c] = l <=> c = dir[l]
    BY <1>5, Named
  <2>2. dir[l] \in LiveDirs
    BY <1>5, Named
  <2>3. LiveDirs' = LiveDirs \ {dir[l]} /\ ReachDirs' = ReachDirs \ {dir[l]}
    BY <1>2, <1>3, <2>1 DEF LiveDirs, ReachDirs
  <2>4. LeftDirs' = LeftDirs
    BY <1>2, <1>5 DEF LeftDirs, Active
  <2>5. Service!End(dir[l])
    BY <1>1, <2>2, <2>3, <2>4 DEF Service!End
  <2>6. QED
    BY <1>4, <2>5 DEF Service!Next
<1>6. CASE state[l] \notin Active
  <2>1. \A c \in Dirs : byDir[c] # l
    BY <1>6, Unnamed
  <2>2. LiveDirs' = LiveDirs /\ ReachDirs' = ReachDirs
    BY <1>2, <1>3, <2>1 DEF LiveDirs, ReachDirs
  <2>3. LeftDirs' = LeftDirs \/ LeftDirs' = LeftDirs \ {dir[l]}
    BY <1>2 DEF LeftDirs
  <2>4. LeftDirs' = LeftDirs => UNCHANGED Service!vars
    BY <1>1, <2>2 DEF Service!vars
  <2>5. LeftDirs' = LeftDirs \ {dir[l]} => Service!Fade(dir[l])
    BY <1>1, <2>2 DEF Service!Fade
  <2>6. QED
    BY <1>4, <2>3, <2>4, <2>5 DEF Service!Next
<1>7. QED
  BY <1>5, <1>6

\* The end, or the loss, of a tunnel.
LEMMA LossSeen ==
    ASSUME IInv, NEW l \in Launches, NEW t \in {"lost", "ended"},
           tunnel' = [tunnel EXCEPT ![l] = t],
           UNCHANGED <<byDir, proxy, dir, state, service, closed>>
    PROVE  [Service!Next]_(Service!vars)
<1>1. /\ \A c \in Dirs : Phase(c)' = Phase(c)
      /\ OpenDirs' = OpenDirs /\ LiveDirs' = LiveDirs /\ LeftDirs' = LeftDirs
  BY DEF Phase, OpenDirs, LiveDirs, LeftDirs
<1>2. \A m \in Launches : tunnel'[m] = IF m = l THEN t ELSE tunnel[m]
  BY DEF IInv, TypeOK
<1>3. \A c \in Dirs : byDir[c] # NoLaunch => byDir[c] \in Launches
  BY DEF IInv, TypeOK, Launches, NoLaunch
<1>4. dir[l] \in Dirs
  BY DEF IInv, TypeOK
<1>5. CASE state[l] \in Active
  <2>1. \A c \in Dirs : byDir[c] = l <=> c = dir[l]
    BY <1>5, Named
  <2>2. ReachDirs' = ReachDirs \ {dir[l]}
    BY <1>2, <1>3, <2>1 DEF LiveDirs, ReachDirs
  <2>3. Service!Lose(dir[l])
    BY <1>1, <2>2 DEF Service!Lose
  <2>4. QED
    BY <1>4, <2>3 DEF Service!Next
<1>6. CASE state[l] \notin Active
  <2>1. \A c \in Dirs : byDir[c] # l
    BY <1>6, Unnamed
  <2>2. ReachDirs' = ReachDirs
    BY <1>2, <1>3, <2>1 DEF LiveDirs, ReachDirs
  <2>3. QED
    BY <1>1, <2>2 DEF Service!vars
<1>7. QED
  BY <1>5, <1>6

\* The end of an instance is that of its service, or of its tunnel, or nothing.
LEMMA InstanceSeen ==
    ASSUME IInv, NEW l \in Launches, EndInstance(l), UNCHANGED <<byDir, proxy, dir, state, closed>>
    PROVE  [Service!Next]_(Service!vars)
<1>0. service \in [Launches -> {"none", "live", "gone"}] /\ tunnel \in [Launches -> {"none", "up", "lost", "ended"}]
  BY DEF IInv, TypeOK
<1>1. CASE tunnel[l] = "up" /\ service[l] = "live"
  BY <1>0, <1>1, EndSeen DEF EndInstance
<1>2. CASE tunnel[l] = "up" /\ service[l] # "live"
  <2>1. tunnel' = [tunnel EXCEPT ![l] = "ended"] /\ service' = [service EXCEPT ![l] = "gone"]
    BY <1>2 DEF EndInstance
  <2>2. \A m \in Launches : service'[m] = "live" <=> service[m] = "live"
    BY <1>0, <1>2, <2>1
  <2>3. /\ \A c \in Dirs : Phase(c)' = Phase(c)
        /\ OpenDirs' = OpenDirs
    BY DEF Phase, OpenDirs
  <2>4. \A c \in Dirs : byDir[c] # NoLaunch => byDir[c] \in Launches
    BY DEF IInv, TypeOK, Launches, NoLaunch
  <2>5. LiveDirs' = LiveDirs /\ LeftDirs' = LeftDirs
    BY <2>2, <2>4 DEF LiveDirs, LeftDirs
  <2>6. ReachDirs' = ReachDirs
    BY <1>0, <1>2, <2>1, <2>4, <2>5 DEF LiveDirs, ReachDirs
  <2>7. QED
    BY <2>3, <2>5, <2>6 DEF Service!vars
<1>3. CASE tunnel[l] # "up"
  BY <1>3, Unseen DEF EndInstance
<1>4. QED
  BY <1>1, <1>2, <1>3

LEMMA ServiceStep == IInv /\ [Next]_vars => [Service!Next]_(Service!vars)
<1> SUFFICES ASSUME IInv, [Next]_vars PROVE [Service!Next]_(Service!vars)
  OBVIOUS
<1> USE AppLaunchAssumption DEF IInv, TypeOK, RequestPcs, WorkingPcs, GoTo, Answer,
      registry, launchVars, lifeVars, backing, session, request, Launches, NoLaunch
<1>1. ASSUME NEW r \in Requests, LookForExisting(r)
      PROVE  [Service!Next]_(Service!vars)
  BY <1>1, Unseen DEF LookForExisting
<1>2. ASSUME NEW r \in Requests, FolderAccepted(r)
      PROVE  [Service!Next]_(Service!vars)
  BY <1>2, Unseen DEF FolderAccepted
<1>3. ASSUME NEW r \in Requests, FolderRefused(r)
      PROVE  [Service!Next]_(Service!vars)
  BY <1>3, Unseen DEF FolderRefused
<1>4. ASSUME NEW r \in Requests, AcquireExisting(r)
      PROVE  [Service!Next]_(Service!vars)
  BY <1>4, Unseen DEF AcquireExisting
<1>5. ASSUME NEW r \in Requests, AcquireFails(r)
      PROVE  [Service!Next]_(Service!vars)
  BY <1>5, Unseen DEF AcquireFails
<1>6. ASSUME NEW r \in Requests, StartFails(r)
      PROVE  [Service!Next]_(Service!vars)
  <2> DEFINE l == mine[r]
  <2>1. l \in Launches /\ state[l] = "starting"
    BY <1>6 DEF StartFails, Owner, Starting
  <2>2. CASE UNCHANGED <<service, tunnel>>
    BY <1>6, <2>2, Unseen DEF StartFails
  <2>3. CASE service' = [service EXCEPT ![l] = "live"] /\ tunnel' = [tunnel EXCEPT ![l] = "lost"]
    <3>1. /\ dir[l] \in Dirs /\ Phase(dir[l]) = "starting" /\ byDir[dir[l]] = l /\ l # NoLaunch
          /\ \A c \in Dirs : byDir[c] = l => c = dir[l]
      BY <2>1, Named DEF Active
    <3>2. \A m \in Launches : /\ service'[m] = IF m = l THEN "live" ELSE service[m]
                              /\ tunnel'[m] = IF m = l THEN "lost" ELSE tunnel[m]
      BY <2>3
    <3>3. \A c \in Dirs : byDir[c] # NoLaunch => byDir[c] \in Launches
      OBVIOUS
    <3>4. UNCHANGED <<byDir, proxy, dir, state, closed>>
      BY <1>6 DEF StartFails
    <3>5. tunnel[l] # "up"
      BY <1>6, <2>1 DEF StartFails, Owner, Tunnels
    <3> HIDE DEF l, IInv, TypeOK, Launches, NoLaunch
    <3>6. LiveDirs' = LiveDirs \cup {dir[l]}
      BY <3>1, <3>2, <3>3, <3>4 DEF LiveDirs
    <3>7. ReachDirs' = ReachDirs
      BY <3>1, <3>2, <3>3, <3>4, <3>5 DEF ReachDirs, LiveDirs
    <3>8. LeftDirs' = LeftDirs
      BY <2>1, <3>2, <3>4 DEF LeftDirs
    <3>9. (\A c \in Dirs : Phase(c)' = Phase(c)) /\ OpenDirs' = OpenDirs
      BY <3>4 DEF Phase, OpenDirs
    <3>10. Service!Arrive(dir[l])
      BY <3>1, <3>4, <3>6, <3>7, <3>8, <3>9 DEF Service!Arrive
    <3>11. QED
      BY <3>1, <3>10 DEF Service!Next
  <2>4. QED
    BY <1>6, <2>2, <2>3 DEF StartFails
<1>7. ASSUME NEW r \in Requests, Respond(r)
      PROVE  [Service!Next]_(Service!vars)
  BY <1>7, Unseen DEF Respond
<1>8. ASSUME NEW r \in Requests, StopNothing(r)
      PROVE  [Service!Next]_(Service!vars)
  BY <1>8, Unseen DEF StopNothing
<1>9. ASSUME NEW r \in Requests, StopSeen(r)
      PROVE  [Service!Next]_(Service!vars)
  BY <1>9, Unseen DEF StopSeen
<1>10. ASSUME NEW r \in Requests, GiveUp(r)
      PROVE  [Service!Next]_(Service!vars)
  BY <1>10, Unseen DEF GiveUp
<1>11. ASSUME NEW r \in Requests, NEW d \in Dirs, Delete(r, d)
      PROVE  [Service!Next]_(Service!vars)
  BY <1>11, Unseen DEF Delete
<1>12. ASSUME NEW r \in Requests, NEW d \in Dirs, NEW p \in Pythons, Post(r, d, p)
      PROVE  [Service!Next]_(Service!vars)
  BY <1>12, Unseen DEF Post
<1>13. ASSUME NEW r \in Requests, Complete(r)
      PROVE  [Service!Next]_(Service!vars)
  <2> DEFINE l == mine[r]
             d == dir[l]
  <2>1. l \in Launches /\ state[l] = "starting"
    BY <1>13 DEF Complete, Owner, Starting
  <2>2. /\ d \in Dirs /\ Phase(d) = "starting" /\ byDir[d] = l /\ l # NoLaunch
        /\ \A c \in Dirs : byDir[c] = l => c = d
    BY <2>1, Named DEF Active
  <2>3. UNCHANGED <<byDir, dir, service, tunnel, closed>>
    BY <1>13 DEF Complete
  <2>4. state' = [state EXCEPT ![l] = "running"] /\ proxy' = proxy \cup {l}
    BY <1>13 DEF Complete
  <2>5. \A m \in Launches : state'[m] = IF m = l THEN "running" ELSE state[m]
    BY <2>4
  <2>6. \A c \in Dirs : byDir[c] # NoLaunch => byDir[c] \in Launches
    OBVIOUS
  <2> HIDE DEF l, d, IInv, TypeOK, Launches, NoLaunch
  <2>7. \A c \in Dirs : Phase(c)' = IF c = d THEN "running" ELSE Phase(c)
    BY <2>2, <2>3, <2>5, <2>6 DEF Phase
  <2>8. LiveDirs' = LiveDirs /\ ReachDirs' = ReachDirs
    BY <2>3 DEF LiveDirs, ReachDirs
  <2>9. LeftDirs' = LeftDirs
    BY <2>1, <2>3, <2>5 DEF LeftDirs
  <2>10. OpenDirs' = OpenDirs \cup {d}
    BY <2>2, <2>3, <2>4 DEF OpenDirs, d
  <2>11. Service!Move(d, {"starting"}, "running")
    BY <2>2, <2>7 DEF Service!Move
  <2>12. Service!Open(d)
    BY <2>3, <2>8, <2>9, <2>10, <2>11 DEF Service!Open
  <2>13. QED
    BY <2>2, <2>12 DEF Service!Next
<1>14. ASSUME NEW r \in Requests, StopRunning(r)
      PROVE  [Service!Next]_(Service!vars)
  <2> DEFINE l == byDir[asked[r].dir]
             d == dir[l]
  <2>1. l \in Launches /\ state[l] = "running"
    BY <1>14 DEF StopRunning
  <2>2. /\ d \in Dirs /\ Phase(d) = "running" /\ byDir[d] = l /\ l # NoLaunch
        /\ \A c \in Dirs : byDir[c] = l => c = d
    BY <2>1, Named DEF Active
  <2>3. UNCHANGED <<byDir, dir, service, tunnel, closed>>
    BY <1>14 DEF StopRunning
  <2>4. state' = [state EXCEPT ![l] = "stopping"] /\ proxy' = proxy \ {l}
    BY <1>14 DEF StopRunning
  <2>5. \A m \in Launches : state'[m] = IF m = l THEN "stopping" ELSE state[m]
    BY <2>4
  <2>6. \A c \in Dirs : byDir[c] # NoLaunch => byDir[c] \in Launches
    OBVIOUS
  <2>7. \A m \in proxy : m # l => dir[m] # d
    BY <2>1, <2>2 DEF ProxyOnlyRunning, Registry, Active
  <2> HIDE DEF l, d, IInv, TypeOK, Launches, NoLaunch
  <2>8. \A c \in Dirs : Phase(c)' = IF c = d THEN "stopping" ELSE Phase(c)
    BY <2>2, <2>3, <2>5, <2>6 DEF Phase
  <2>9. LiveDirs' = LiveDirs /\ ReachDirs' = ReachDirs
    BY <2>3 DEF LiveDirs, ReachDirs
  <2>10. LeftDirs' = LeftDirs
    BY <2>1, <2>3, <2>5 DEF LeftDirs
  <2>11. OpenDirs' = OpenDirs \ {d}
    BY <2>3, <2>4, <2>7 DEF OpenDirs, d
  <2>12. Service!Move(d, {"running"}, "stopping")
    BY <2>2, <2>8 DEF Service!Move
  <2>13. Service!Halt(d)
    BY <2>3, <2>9, <2>10, <2>11, <2>12 DEF Service!Halt
  <2>14. QED
    BY <2>2, <2>13 DEF Service!Next
<1>15. ASSUME NEW r \in Requests, ServiceStarts(r)
      PROVE  [Service!Next]_(Service!vars)
  <2> DEFINE l == mine[r]
             d == dir[l]
  <2>1. l \in Launches /\ state[l] = "starting"
    BY <1>15 DEF ServiceStarts, Owner, Starting
  <2>2. /\ d \in Dirs /\ Phase(d) = "starting" /\ byDir[d] = l /\ l # NoLaunch
        /\ \A c \in Dirs : byDir[c] = l => c = d
    BY <2>1, Named DEF Active
  <2>3. UNCHANGED <<byDir, dir, state, proxy, closed>> /\ ~closed
    BY <1>15 DEF ServiceStarts
  <2>4. \A m \in Launches : /\ service'[m] = IF m = l THEN "live" ELSE service[m]
                            /\ tunnel'[m] = IF m = l THEN "up" ELSE tunnel[m]
    BY <1>15 DEF ServiceStarts
  <2>5. \A c \in Dirs : byDir[c] # NoLaunch => byDir[c] \in Launches
    OBVIOUS
  <2> HIDE DEF l, d, IInv, TypeOK, Launches, NoLaunch
  <2>6. LiveDirs' = LiveDirs \cup {d}
    BY <2>2, <2>3, <2>4, <2>5 DEF LiveDirs
  <2>7. ReachDirs' = ReachDirs \cup {d}
    BY <2>2, <2>3, <2>4, <2>5 DEF LiveDirs, ReachDirs
  <2>8. LeftDirs' = LeftDirs
    BY <2>1, <2>3, <2>4 DEF LeftDirs
  <2>9. (\A c \in Dirs : Phase(c)' = Phase(c)) /\ OpenDirs' = OpenDirs
    BY <2>3 DEF Phase, OpenDirs
  <2>10. Service!Arrive(d)
    BY <2>2, <2>3, <2>6, <2>7, <2>8, <2>9 DEF Service!Arrive
  <2>11. QED
    BY <2>2, <2>10 DEF Service!Next
<1>16. ASSUME NEW r \in Requests, ServiceStops(r)
      PROVE  [Service!Next]_(Service!vars)
  <2>1. mine[r] \in Launches
    BY <1>16 DEF ServiceStops
  <2>2. CASE closed
    BY <1>16, <2>2, Unseen DEF ServiceStops
  <2>3. CASE ~closed
    BY <1>16, <2>1, <2>3, InstanceSeen DEF ServiceStops
  <2>4. QED
    BY <2>2, <2>3
<1>17. ASSUME NEW l \in Launches, ServiceEnds(l)
      PROVE  [Service!Next]_(Service!vars)
  <2>1. \A m \in Launches : m # l => tunnel'[m] = tunnel[m]
    BY <1>17 DEF ServiceEnds
  <2>2. QED
    BY <1>17, <2>1, EndSeen DEF ServiceEnds
<1>18. ASSUME NEW r \in Requests, FinishStop(r)
      PROVE  [Service!Next]_(Service!vars)
  <2>1. mine[r] \in Launches /\ (over[mine[r]] \/ closed) /\ state[mine[r]] # "none"
    BY <1>18 DEF FinishStop, Endings
  <2>2. QED
    BY <1>18, <2>1, FinishSeen DEF FinishStop
<1>19. ASSUME NEW l \in Launches, Watch(l)
      PROVE  [Service!Next]_(Service!vars)
  <2>1. over[l] /\ state[l] # "none"
    BY <1>19 DEF Watch, Endings
  <2>2. QED
    BY <1>19, <2>1, FinishSeen DEF Watch
<1>20. ASSUME NEW r \in Requests, CompleteFailed(r)
      PROVE  [Service!Next]_(Service!vars)
  <2>1. mine[r] \in Launches /\ (over[mine[r]] \/ closed) /\ state[mine[r]] # "none"
    BY <1>20 DEF CompleteFailed, Owner, Starting, Endings
  <2>2. QED
    BY <1>20, <2>1, FinishSeen DEF CompleteFailed
<1>21. ASSUME NEW r \in Requests, AcquireNew(r)
      PROVE  [Service!Next]_(Service!vars)
  <2> DEFINE l == created + 1
             d == asked[r].dir
  <2>1. l \in Launches /\ d \in Dirs /\ byDir[d] = NoLaunch /\ l > created
    BY <1>21 DEF AcquireNew
  <2>2. state[l] = "none"
    BY <2>1 DEF Blank
  <2>3. l \notin proxy /\ service[l] = "none"
    BY <2>1, <2>2 DEF Blank, ProxyOnlyRunning
  <2>4. \A c \in Dirs : byDir[c] # l
    BY <2>1, <2>2, Unnamed DEF Active
  <2>5. \A c \in Dirs : byDir[c] # NoLaunch => byDir[c] \in Launches
    OBVIOUS
  <2>6. /\ byDir' = [byDir EXCEPT ![d] = l] /\ state' = [state EXCEPT ![l] = "starting"]
        /\ dir' = [dir EXCEPT ![l] = d]
        /\ UNCHANGED <<proxy, service, tunnel, closed>>
    BY <1>21 DEF AcquireNew
  <2>7. /\ \A c \in Dirs : byDir'[c] = IF c = d THEN l ELSE byDir[c]
        /\ \A m \in Launches : /\ state'[m] = IF m = l THEN "starting" ELSE state[m]
                               /\ dir'[m] = IF m = l THEN d ELSE dir[m]
    BY <2>1, <2>6
  <2>8. proxy \subseteq Launches /\ NoLaunch # l
    BY <2>1
  <2> HIDE DEF l, d, IInv, TypeOK, Launches, NoLaunch
  <2>9. Phase(d) = "stopped" /\ d \notin LiveDirs
    BY <2>1 DEF Phase, LiveDirs
  <2>10. \A c \in Dirs : Phase(c)' = IF c = d THEN "starting" ELSE Phase(c)
    BY <2>1, <2>4, <2>5, <2>7, <2>8 DEF Phase
  <2>11. LiveDirs' = LiveDirs /\ ReachDirs' = ReachDirs
    BY <2>1, <2>3, <2>6, <2>7, <2>8 DEF LiveDirs, ReachDirs
  <2>12. LeftDirs' = LeftDirs
    BY <2>2, <2>3, <2>6, <2>7 DEF LeftDirs
  <2>13. OpenDirs' = OpenDirs
    BY <2>3, <2>6, <2>7, <2>8 DEF OpenDirs
  <2>14. Service!Move(d, {"stopped"}, "starting")
    BY <2>1, <2>9, <2>10 DEF Service!Move
  <2>15. Service!Begin(d)
    BY <2>6, <2>9, <2>11, <2>12, <2>13, <2>14 DEF Service!Begin
  <2>16. QED
    BY <2>1, <2>15 DEF Service!Next
<1>24. ASSUME NEW l \in Launches, TunnelBreaks(l)
      PROVE  [Service!Next]_(Service!vars)
  BY <1>24, LossSeen DEF TunnelBreaks
<1>25. ASSUME NEW l \in Launches, Reattach(l)
      PROVE  [Service!Next]_(Service!vars)
  <2> DEFINE d == dir[l]
  <2>1. state[l] \in Active
    <3>1. state[l] # "none" /\ state[l] # "stopped"
      BY <1>25 DEF Reattach, Blank, Endings
    <3>2. QED
      BY <3>1 DEF Active
  <2>2. /\ d \in Dirs /\ byDir[d] = l /\ l # NoLaunch /\ d \in LiveDirs
        /\ \A c \in Dirs : byDir[c] = l => c = d
    BY <1>25, <2>1, Named DEF Reattach
  <2>3. UNCHANGED <<byDir, proxy, dir, state, service, closed>> /\ ~closed
    BY <1>25 DEF Reattach
  <2>4. \A m \in Launches : tunnel'[m] = IF m = l THEN "up" ELSE tunnel[m]
    BY <1>25 DEF Reattach
  <2>5. \A c \in Dirs : byDir[c] # NoLaunch => byDir[c] \in Launches
    OBVIOUS
  <2> HIDE DEF d, IInv, TypeOK, Launches, NoLaunch
  <2>6. ReachDirs' = ReachDirs \cup {d}
    BY <2>2, <2>3, <2>4, <2>5 DEF ReachDirs, LiveDirs
  <2>7. /\ \A c \in Dirs : Phase(c)' = Phase(c)
        /\ OpenDirs' = OpenDirs /\ LiveDirs' = LiveDirs /\ LeftDirs' = LeftDirs
    BY <2>3 DEF Phase, OpenDirs, LiveDirs, LeftDirs
  <2>8. Service!Regain(d)
    BY <2>2, <2>3, <2>6, <2>7 DEF Service!Regain
  <2>9. QED
    BY <2>2, <2>8 DEF Service!Next
<1>26. ASSUME NEW l \in Launches, CloseStops(l)
      PROVE  [Service!Next]_(Service!vars)
  BY <1>26, InstanceSeen DEF CloseStops
<1>27. ASSUME Close
      PROVE  [Service!Next]_(Service!vars)
  <2>1. UNCHANGED <<byDir, proxy, dir, state, service, tunnel>> /\ closed' = TRUE
    BY <1>27 DEF Close
  <2>2. /\ \A c \in Dirs : Phase(c)' = Phase(c)
        /\ OpenDirs' = OpenDirs /\ LiveDirs' = LiveDirs
        /\ LeftDirs' = LeftDirs /\ ReachDirs' = ReachDirs
    BY <2>1 DEF Phase, OpenDirs, LiveDirs, LeftDirs, ReachDirs
  <2>3. Service!Close(Dirs)
    BY <2>1, <2>2 DEF Service!Close
  <2>4. QED
    BY <2>3 DEF Service!Next
<1>22. CASE UNCHANGED vars
  BY <1>22, Unseen DEF vars
<1>23. QED
  BY <1>1, <1>2, <1>3, <1>4, <1>5, <1>6, <1>7, <1>8, <1>9, <1>10, <1>11, <1>12, <1>13, <1>14, <1>15, <1>16, <1>17, <1>18, <1>19, <1>20,
     <1>21, <1>22, <1>24, <1>25, <1>26, <1>27 DEF Next, Handler

\* The registry of launches, the requests and the watchers do to a directory
\* only what AppService says may happen to it.
THEOREM ImplementsService == Spec => ServiceSpec
<1>1. IInv /\ [Next]_vars => [Service!Next]_(Service!vars)
  BY ServiceStep
<1>2. QED
  BY ServiceInit, <1>1, Inductive, PTL DEF Spec, ServiceSpec, Service!Spec
=============================================================================
