----------------------------- MODULE AppLaunch -----------------------------
(***************************************************************************)
(* The application launches of the web server (internal/web/app.go): at    *)
(* most one JupyterLab, or TensorBoard, per directory, started, looked up  *)
(* and stopped by concurrent HTTP requests, and one watcher goroutine per  *)
(* launch that waits for the end of its service.                           *)
(*                                                                         *)
(* Every block of code between Lock and Unlock of jupyterMu or tensorMu is *)
(* one action; the calls of the launcher, made without the lock, are       *)
(* actions of their own.  The two applications differ in what comes before *)
(* the launch is acquired and in the Python of the kernel; each has maps,  *)
(* a lock and a launcher of its own, so that the module is about either of *)
(* them.  Of the launcher there is what its calls leave behind: the        *)
(* service, the tunnel it is reached by and whether its instance is over.  *)
(* How a tunnel is re-attached and a service kept alive is the business of *)
(* modules Launcher and RemoteKeeper; what a page is promised is module    *)
(* AppService.                                                             *)
(***************************************************************************)
EXTENDS Integers, FiniteSets

CONSTANTS
    Dirs,           \* directories, the keys of the registry
    Pythons,        \* interpreters a kernel may be asked for
    Requests,       \* HTTP requests handled at a time
    MaxLaunches     \* model bound: launches ever created

Launches == 1..MaxLaunches
Applications == {"jupyter", "tensorboard"}
NoLaunch == 0
NoPython == CHOOSE p \in Pythons : TRUE    \* for what has no interpreter

ASSUME AppLaunchAssumption ==
    /\ MaxLaunches \in Nat \ {0}
    /\ Dirs # {}
    /\ Pythons # {}

VARIABLES
    byDir,          \* jupyterByDir / tensorByDir: the launch of a directory
    proxy,          \* jupyterProxy / tensorProxy: the launches with a handler
    created,        \* launches created so far
    dir,            \* of a launch: its directory
    python,         \*   the interpreter it was started with
    state,          \*   launch.state, "none" before it is created
    ready,          \*   launch.ready is closed
    stopped,        \*   launch.stopped is closed
    watcher,        \*   the watcher goroutine: none, waiting, done
    service,        \*   its service: none, live, gone
    tunnel,         \*   what the launcher reaches the service by, the process
                    \*   itself or its SSH connection: none, up, lost, ended
    over,           \*   nobody holds its instance: Done is closed, or there is none
    application,    \* jupyter or tensorboard
    remote,         \* the session is a remote one
    closed,         \* the launchers' Close was called
    pc,             \* of a request: where its handler is
    asked,          \*   what it asks for: the directory and the interpreter
    mine            \*   the launch it found or created

backing == <<service, tunnel, over>>
session == <<application, remote, closed>>
lifeVars == <<created, dir, python, state, ready, stopped, watcher>>
launchVars == <<lifeVars, backing, session>>
registry == <<byDir, proxy>>
request == <<pc, asked, mine>>
vars == <<registry, launchVars, request>>

\* What a request that is not under way asks for.
Nothing == [dir |-> CHOOSE d \in Dirs : TRUE, python |-> NoPython]

Init ==
    /\ byDir = [d \in Dirs |-> NoLaunch]
    /\ proxy = {}
    /\ created = 0
    /\ dir = [l \in Launches |-> CHOOSE d \in Dirs : TRUE]
    /\ python = [l \in Launches |-> NoPython]
    /\ state = [l \in Launches |-> "none"]
    /\ ready = [l \in Launches |-> FALSE]
    /\ stopped = [l \in Launches |-> FALSE]
    /\ watcher = [l \in Launches |-> "none"]
    /\ service = [l \in Launches |-> "none"]
    /\ tunnel = [l \in Launches |-> "none"]
    /\ over = [l \in Launches |-> FALSE]
    /\ application \in Applications
    /\ remote \in BOOLEAN
    /\ closed = FALSE
    /\ pc = [r \in Requests |-> "idle"]
    /\ asked = [r \in Requests |-> Nothing]
    /\ mine = [r \in Requests |-> NoLaunch]

GoTo(r, place) == pc' = [pc EXCEPT ![r] = place]

\* The handler writes its answer and returns, and what it knew goes with it.  The
\* answer itself (the launch and its error, a conflict, nothing) is left out.
Answer(r) ==
    /\ GoTo(r, "idle")
    /\ asked' = [asked EXCEPT ![r] = Nothing]
    /\ mine' = [mine EXCEPT ![r] = NoLaunch]

-----------------------------------------------------------------------------
(***************************************************************************)
(* finishJupyterLaunchLocked / finishTensorBoardLaunchLocked.              *)
(***************************************************************************)
\* Mutant: the entry of the directory goes, whichever launch it is.
ForgetWhatever(l) == byDir' = [byDir EXCEPT ![dir[l]] = NoLaunch]

\* The entry of the directory goes if it is still this launch.
Forget(l) == byDir' = [byDir EXCEPT ![dir[l]] = IF @ = l THEN NoLaunch ELSE @]

FinishLocked(l) ==
    /\ Forget(l)
    /\ proxy' = proxy \ {l}
    /\ state' = [state EXCEPT ![l] = "stopped"]
    /\ stopped' = [stopped EXCEPT ![l] = TRUE]

-----------------------------------------------------------------------------
(***************************************************************************)
(* POST: startJupyter and startTensorBoard.  No request is accepted after  *)
(* the server's Shutdown, which comes before the launchers' Close.         *)
(***************************************************************************)
Post(r, d, p) ==
    /\ pc[r] = "idle"
    /\ ~closed
    /\ asked' = [asked EXCEPT ![r] = [dir |-> d,
                                     python |-> IF application = "tensorboard" THEN NoPython ELSE p]]
    /\ mine' = [mine EXCEPT ![r] = NoLaunch]
    /\ GoTo(r, IF application = "tensorboard" THEN "look" ELSE "folder")
    /\ UNCHANGED <<registry, launchVars>>

\* startTensorBoard looks for a launch before it looks into the folder.
LookForExisting(r) ==
    /\ pc[r] = "look"
    /\ LET existing == byDir[asked[r].dir] IN
         \/ /\ existing = NoLaunch
            /\ GoTo(r, "folder")
            /\ UNCHANGED <<asked, mine>>
         \/ /\ existing # NoLaunch
            /\ state[existing] = "stopping"
            /\ Answer(r)
         \/ /\ existing # NoLaunch
            /\ state[existing] # "stopping"
            /\ mine' = [mine EXCEPT ![r] = existing]
            /\ GoTo(r, "await")
            /\ UNCHANGED asked
    /\ UNCHANGED <<registry, launchVars>>

\* Stat and ReadDir of the backend, and what they are checked for.
FolderAccepted(r) ==
    /\ pc[r] = "folder"
    /\ GoTo(r, "acquire")
    /\ UNCHANGED <<asked, mine, registry, launchVars>>

FolderRefused(r) ==
    /\ pc[r] = "folder"
    /\ Answer(r)
    /\ UNCHANGED <<registry, launchVars>>

\* errJupyterPythonConflict.
PythonConflict(l, p) == application = "jupyter" /\ python[l] # p

\* acquireJupyterLaunch / acquireTensorBoardLaunch finds a launch...
\* Mutant: it does not return the launch it found.
AcquireReturnsNil(r) ==
    /\ pc[r] = "acquire"
    /\ LET existing == byDir[asked[r].dir] IN
         /\ existing # NoLaunch
         /\ IF state[existing] = "stopping" \/ PythonConflict(existing, asked[r].python)
              THEN Answer(r)
              ELSE GoTo(r, "await") /\ UNCHANGED <<asked, mine>>
    /\ UNCHANGED <<registry, launchVars>>

AcquireExisting(r) ==
    /\ pc[r] = "acquire"
    /\ LET existing == byDir[asked[r].dir] IN
         /\ existing # NoLaunch
         /\ IF state[existing] = "stopping" \/ PythonConflict(existing, asked[r].python)
              THEN Answer(r)
              ELSE /\ mine' = [mine EXCEPT ![r] = existing]
                   /\ GoTo(r, "await")
                   /\ UNCHANGED asked
    /\ UNCHANGED <<registry, launchVars>>

\* ... or creates one, and the request owns it.
AcquireNew(r) ==
    /\ pc[r] = "acquire"
    /\ byDir[asked[r].dir] = NoLaunch
    /\ created < MaxLaunches
    /\ created' = created + 1
    /\ dir' = [dir EXCEPT ![created + 1] = asked[r].dir]
    /\ python' = [python EXCEPT ![created + 1] = asked[r].python]
    /\ state' = [state EXCEPT ![created + 1] = "starting"]
    /\ byDir' = [byDir EXCEPT ![asked[r].dir] = created + 1]
    /\ mine' = [mine EXCEPT ![r] = created + 1]
    /\ GoTo(r, "start")
    /\ UNCHANGED <<proxy, ready, stopped, watcher, backing, session, asked>>

\* No random identifier for the launch.
AcquireFails(r) ==
    /\ pc[r] = "acquire"
    /\ byDir[asked[r].dir] = NoLaunch
    /\ Answer(r)
    /\ UNCHANGED <<registry, launchVars>>

\* The launcher's Start, which does not know of the request's context: the
\* instance is registered with the launcher, and answers.
ServiceStarts(r) ==
    /\ pc[r] = "start"
    /\ ~closed
    /\ service' = [service EXCEPT ![mine[r]] = "live"]
    /\ tunnel' = [tunnel EXCEPT ![mine[r]] = "up"]
    /\ GoTo(r, "complete")
    /\ UNCHANGED <<over, session, lifeVars, asked, mine, registry>>

\* There is no instance.  A remote service whose connection broke before it was
\* ready is left to itself, and so is one whose tunnel was replaced meanwhile.
StartFails(r) ==
    /\ pc[r] = "start"
    /\ over' = [over EXCEPT ![mine[r]] = TRUE]
    /\ \/ UNCHANGED <<service, tunnel>>
       \/ /\ remote
          /\ service' = [service EXCEPT ![mine[r]] = "live"]
          /\ tunnel' = [tunnel EXCEPT ![mine[r]] = "lost"]
    /\ GoTo(r, "fail")
    /\ UNCHANGED <<session, lifeVars, asked, mine, registry>>

\* completeJupyterLaunch / completeTensorBoardLaunch, with a service.
Complete(r) ==
    /\ pc[r] = "complete"
    /\ state' = [state EXCEPT ![mine[r]] = "running"]
    /\ proxy' = proxy \union {mine[r]}
    /\ ready' = [ready EXCEPT ![mine[r]] = TRUE]
    /\ watcher' = [watcher EXCEPT ![mine[r]] = "waiting"]
    /\ GoTo(r, "await")
    /\ UNCHANGED <<byDir, created, dir, python, stopped, backing, session,
                   asked, mine>>

\* The same with an error: the launch is finished at once.
\* Mutant: those who wait for the launch are not told.
CompleteFailedSilently(r) ==
    /\ pc[r] = "fail"
    /\ FinishLocked(mine[r])
    /\ GoTo(r, "await")
    /\ UNCHANGED <<created, dir, python, ready, watcher, backing, session, asked, mine>>

CompleteFailed(r) ==
    /\ pc[r] = "fail"
    /\ FinishLocked(mine[r])
    /\ ready' = [ready EXCEPT ![mine[r]] = TRUE]
    /\ GoTo(r, "await")
    /\ UNCHANGED <<created, dir, python, watcher, backing, session, asked, mine>>

\* respondJupyterLaunch / respondTensorBoardLaunch.
Respond(r) ==
    /\ pc[r] = "await"
    /\ ready[mine[r]]
    /\ Answer(r)
    /\ UNCHANGED <<registry, launchVars>>

\* The client of a waiting request goes away.
GiveUp(r) ==
    /\ pc[r] \in {"await", "awaitStopped"}
    /\ Answer(r)
    /\ UNCHANGED <<registry, launchVars>>

-----------------------------------------------------------------------------
(***************************************************************************)
(* DELETE: stopJupyter and stopTensorBoard.                                *)
(***************************************************************************)
Delete(r, d) ==
    /\ pc[r] = "idle"
    /\ ~closed
    /\ asked' = [asked EXCEPT ![r] = [dir |-> d, python |-> NoPython]]
    /\ mine' = [mine EXCEPT ![r] = NoLaunch]
    /\ GoTo(r, "stop")
    /\ UNCHANGED <<registry, launchVars>>

\* Nothing runs, or the launch is still starting, or another request stops it.
StopNothing(r) ==
    /\ pc[r] = "stop"
    /\ LET launch == byDir[asked[r].dir] IN
         \/ launch = NoLaunch /\ Answer(r)
         \/ /\ launch # NoLaunch
            /\ state[launch] = "starting"
            /\ Answer(r)
         \/ /\ launch # NoLaunch
            /\ state[launch] = "stopping"
            /\ mine' = [mine EXCEPT ![r] = launch]
            /\ GoTo(r, "awaitStopped")
            /\ UNCHANGED asked
    /\ UNCHANGED <<registry, launchVars>>

\* Mutant: a launch that is still starting is stopped too.
StopUnfinished(r) ==
    /\ pc[r] = "stop"
    /\ LET launch == byDir[asked[r].dir] IN
         /\ launch # NoLaunch
         /\ state[launch] \in {"starting", "running"}
         /\ state' = [state EXCEPT ![launch] = "stopping"]
         /\ proxy' = proxy \ {launch}
         /\ mine' = [mine EXCEPT ![r] = launch]
    /\ GoTo(r, "stopping")
    /\ UNCHANGED <<byDir, created, dir, python, ready, stopped, watcher, backing,
                   session, asked>>

StopRunning(r) ==
    /\ pc[r] = "stop"
    /\ LET launch == byDir[asked[r].dir] IN
         /\ launch # NoLaunch
         /\ state[launch] = "running"
         /\ state' = [state EXCEPT ![launch] = "stopping"]
         /\ proxy' = proxy \ {launch}
         /\ mine' = [mine EXCEPT ![r] = launch]
    /\ GoTo(r, "stopping")
    /\ UNCHANGED <<byDir, created, dir, python, ready, stopped, watcher, backing,
                   session, asked>>

\* The end of an instance: what the tunnel reaches ends, and the tunnel with it;
\* behind a lost one a remote service goes on.
EndInstance(l) ==
    /\ over' = [over EXCEPT ![l] = TRUE]
    /\ IF tunnel[l] = "up"
         THEN /\ service' = [service EXCEPT ![l] = "gone"]
              /\ tunnel' = [tunnel EXCEPT ![l] = "ended"]
         ELSE UNCHANGED <<service, tunnel>>

\* The launcher's Stop, which returns nil whatever it met, and at once where
\* Close has retired the instance (and has yet to end it).
ServiceStops(r) ==
    /\ pc[r] = "stopping"
    /\ IF closed THEN UNCHANGED backing ELSE EndInstance(mine[r])
    /\ GoTo(r, "finish")
    /\ UNCHANGED <<session, lifeVars, asked, mine, registry>>

\* Whether Stop had an error makes a difference to the answer only.
FinishStop(r) ==
    /\ pc[r] = "finish"
    /\ FinishLocked(mine[r])
    /\ Answer(r)
    /\ UNCHANGED <<created, dir, python, ready, watcher, backing, session>>

\* The request that waited for another one's stop.
StopSeen(r) ==
    /\ pc[r] = "awaitStopped"
    /\ stopped[mine[r]]
    /\ Answer(r)
    /\ UNCHANGED <<registry, launchVars>>

-----------------------------------------------------------------------------
(***************************************************************************)
(* Services and connections that end by themselves, the session that       *)
(* re-attaches and closes the launchers, and watchJupyterLaunch /          *)
(* watchTensorBoardLaunch.                                                 *)
(***************************************************************************)
\* The end of a local process closes Done; a remote instance outlives its service.
ServiceEnds(l) ==
    /\ service[l] = "live"
    /\ service' = [service EXCEPT ![l] = "gone"]
    /\ IF remote
         THEN UNCHANGED <<tunnel, over>>
         ELSE /\ tunnel' = [tunnel EXCEPT ![l] = "ended"]
              /\ over' = [over EXCEPT ![l] = TRUE]
    /\ UNCHANGED <<session, lifeVars, registry, request>>

\* An SSH connection does not carry what it is told any more.
TunnelBreaks(l) ==
    /\ remote
    /\ tunnel[l] = "up"
    /\ tunnel' = [tunnel EXCEPT ![l] = "lost"]
    /\ UNCHANGED <<service, over, session, lifeVars, registry, request>>

\* Reattach reaches a service that survived.
Reattach(l) ==
    /\ tunnel[l] = "lost"
    /\ service[l] = "live"
    /\ ~over[l]
    /\ ~closed
    /\ tunnel' = [tunnel EXCEPT ![l] = "up"]
    /\ UNCHANGED <<service, over, session, lifeVars, registry, request>>

\* The session ends: the launchers are closed, which retires their instances.
Close ==
    /\ ~closed
    /\ closed' = TRUE
    /\ UNCHANGED <<application, remote, backing, lifeVars, registry, request>>

\* Close ends the instances it has retired, one after the other.
CloseStops(l) ==
    /\ closed
    /\ tunnel[l] \in {"up", "lost"}
    /\ ~over[l]
    /\ EndInstance(l)
    /\ UNCHANGED <<session, lifeVars, registry, request>>

Watch(l) ==
    /\ watcher[l] = "waiting"
    /\ over[l]
    /\ watcher' = [watcher EXCEPT ![l] = "done"]
    /\ FinishLocked(l)
    /\ UNCHANGED <<created, dir, python, ready, backing, session, request>>

-----------------------------------------------------------------------------
Handler(r) ==
    \/ LookForExisting(r) \/ FolderAccepted(r) \/ FolderRefused(r)
    \/ AcquireExisting(r) \/ AcquireNew(r) \/ AcquireFails(r)
    \/ ServiceStarts(r) \/ StartFails(r) \/ Complete(r) \/ CompleteFailed(r) \/ Respond(r)
    \/ StopNothing(r) \/ StopRunning(r) \/ ServiceStops(r) \/ FinishStop(r) \/ StopSeen(r)

Next ==
    \/ \E r \in Requests : Handler(r) \/ GiveUp(r)
    \/ \E r \in Requests, d \in Dirs : Delete(r, d) \/ \E p \in Pythons : Post(r, d, p)
    \/ \E l \in Launches :
          ServiceEnds(l) \/ TunnelBreaks(l) \/ Reattach(l) \/ CloseStops(l) \/ Watch(l)
    \/ Close

\* A handler and a watcher that can go on are goroutines the Go scheduler runs;
\* the launcher's calls return (CallsGoOn of module Launcher).  Nobody has to send
\* a request or to go away.
Fairness ==
    /\ \A r \in Requests : WF_vars(Handler(r))
    /\ \A l \in Launches : WF_vars(Watch(l) \/ CloseStops(l))

Spec == Init /\ [][Next]_vars
FairSpec == Spec /\ Fairness

-----------------------------------------------------------------------------
(***************************************************************************)
(* Properties.                                                             *)
(***************************************************************************)
RequestPcs == {"idle", "look", "folder", "acquire", "start", "complete", "fail", "await",
               "stop", "stopping", "finish", "awaitStopped"}

\* Where a handler has a launch in its hands.
WorkingPcs == {"start", "complete", "fail", "await", "stopping", "finish", "awaitStopped"}

TypeOK ==
    /\ byDir \in [Dirs -> 0..MaxLaunches]
    /\ proxy \subseteq Launches
    /\ created \in 0..MaxLaunches
    /\ dir \in [Launches -> Dirs]
    /\ python \in [Launches -> Pythons]
    /\ state \in [Launches -> {"none", "starting", "running", "stopping", "stopped"}]
    /\ ready \in [Launches -> BOOLEAN]
    /\ stopped \in [Launches -> BOOLEAN]
    /\ watcher \in [Launches -> {"none", "waiting", "done"}]
    /\ service \in [Launches -> {"none", "live", "gone"}]
    /\ tunnel \in [Launches -> {"none", "up", "lost", "ended"}]
    /\ over \in [Launches -> BOOLEAN]
    /\ application \in Applications
    /\ remote \in BOOLEAN
    /\ closed \in BOOLEAN
    /\ pc \in [Requests -> RequestPcs]
    /\ asked \in [Requests -> [dir : Dirs, python : Pythons]]
    /\ mine \in [Requests -> 0..MaxLaunches]
    /\ \A r \in Requests : pc[r] \in WorkingPcs => mine[r] \in Launches

\* A launch is the one of its directory exactly as long as it is not over: a
\* stop or a watcher that comes late never takes the entry of a newer launch.
RegisteredWhileActive ==
    \A l \in Launches :
        byDir[dir[l]] = l <=> state[l] \in {"starting", "running", "stopping"}

\* Only a running launch is reachable at its prefix.
ProxyOnlyRunning == \A l \in proxy : state[l] = "running"

\* The launcher never has two services of one directory in its hands: a second
\* one is started beside a live one only when that one is out of its reach.
OneServicePerDirectory ==
    \A l, m \in Launches :
        tunnel[l] = "up" /\ tunnel[m] = "up" /\ dir[l] = dir[m] => l = m

\* A service goes on after its launch is over in two cases only: the tunnel of a
\* remote one was lost, or the end of the session has retired it and has yet to
\* end it.
StoppedMeansGone ==
    \A l \in Launches :
        state[l] = "stopped" /\ service[l] = "live" =>
            \/ remote /\ tunnel[l] = "lost"
            \/ closed /\ ~over[l]

\* The registry, the states of the launches and their services agree, whoever
\* of a start, a stop, a watcher, a re-attachment and the end of the session
\* comes late.
RegistryAgrees == RegisteredWhileActive /\ OneServicePerDirectory /\ StoppedMeansGone

-----------------------------------------------------------------------------
(***************************************************************************)
(* The requests and launches implement what a page is promised.            *)
(***************************************************************************)
Phase(d) == IF byDir[d] = NoLaunch THEN "stopped" ELSE state[byDir[d]]
OpenDirs == {d \in Dirs : \E l \in proxy : dir[l] = d}

\* Of the launch a directory names, and of those it named before.
LiveDirs == {d \in Dirs : byDir[d] # NoLaunch /\ service[byDir[d]] = "live"}
ReachDirs == {d \in LiveDirs : tunnel[byDir[d]] = "up"}
LeftDirs == {d \in Dirs : \E l \in Launches :
                dir[l] = d /\ state[l] = "stopped" /\ service[l] = "live"}

Service == INSTANCE AppService
    WITH phase <- [d \in Dirs |-> Phase(d)], live <- LiveDirs, reach <- ReachDirs,
         left <- LeftDirs, open <- OpenDirs, closed <- IF closed THEN Dirs ELSE {}

\* To a page a directory goes from stopped to starting, running, stopping and
\* stopped again, never another way: it is let through to only while it runs,
\* and it is over only when its service is gone or cannot be reached, or the
\* session ends.
ServiceSpec == Service!Spec

\* Every request is answered, and no directory starts or stops for ever.
RequestsAnswered ==
    /\ \A r \in Requests : pc[r] # "idle" ~> pc[r] = "idle"
    /\ Service!Settles
=============================================================================
