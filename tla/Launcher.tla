------------------------------ MODULE Launcher ------------------------------
(***************************************************************************)
(* The launchers of JupyterLab and of TensorBoard: Start, Stop, Close and  *)
(* Reattach of internal/jupyter/launcher.go and of internal/tensorboard/   *)
(* launcher.go, run by HTTP handlers (Start and Stop) and by the session's *)
(* supervisor (Reattach and Close), over the subprocesses they share.      *)
(*                                                                         *)
(* The two keep the same state and differ in the order of a start, in what *)
(* Reattach looks at, and in a sentinel that TensorBoard's remote programs *)
(* print before they can be probed.  An instance is one runningInstance or *)
(* tunnelRecord.  Its subprocesses are numbered: 1 is the one startOnce    *)
(* runs, the later ones are run by Reattach.  When the launcher is remote  *)
(* a subprocess is an SSH tunnel and the service behind it can outlive it; *)
(* when it is local the two are the same.                                  *)
(***************************************************************************)
EXTENDS Integers, FiniteSets

CONSTANTS
    Instances,      \* launch attempts (one call of startOnce each)
    MaxProcs        \* model bound: subprocesses of one instance

ASSUME LauncherAssumption == MaxProcs \in Nat \ {0}

Procs == 1..MaxProcs

VARIABLES
    \* ProcessLauncher, under l.mu
    list,           \* l.instances
    closed,         \* l.closed
    app,            \* jupyter or tensorboard: which of the two launchers it is
    remote,         \* made by NewRemote rather than NewLocal
    \* runningInstance
    process,        \* the subprocess it holds, 0 before startOnce
    retired,        \* instances with retired set
    stopping,       \* its stopOnce: no, begun, waiting for the process, over
    victim,         \* the subprocess its stop was given
    available,      \* lifecycle.available
    finished,       \* lifecycle.done is closed
    \* subprocesses and services
    proc,           \* none, running, done
    told,           \* subprocesses that were sent SHUTDOWN while running
    service,        \* the Jupyter server itself: none, up, down
    lost,           \* history: a subprocess ended without obeying SHUTDOWN
    \* callers
    start,          \* where startOnce is
    halt,           \* where Stop is: idle, busy, returned
    sup,            \* where the supervisor is, in Reattach or Close
    todo,           \* instances of its snapshot still to be looked at
    cur,            \* the instance it looks at, {} or a singleton
    cand            \* the subprocess reattachInstance runs

kind == <<app, remote>>
recordVars == <<process, retired, stopping, victim, available, finished>>
procVars == <<proc, told, service, lost>>
supVars == <<sup, todo, cur, cand>>
vars == <<list, closed, kind, recordVars, procVars, start, halt, supVars>>

Init ==
    /\ list = {}
    /\ closed = FALSE
    /\ app \in {"jupyter", "tensorboard"}
    /\ remote \in BOOLEAN
    /\ process = [i \in Instances |-> 0]
    /\ retired = {}
    /\ stopping = [i \in Instances |-> "no"]
    /\ victim = [i \in Instances |-> 0]
    /\ available = [i \in Instances |-> FALSE]
    /\ finished = [i \in Instances |-> FALSE]
    /\ proc = [i \in Instances |-> [n \in Procs |-> "none"]]
    /\ told = [i \in Instances |-> {}]
    /\ service = [i \in Instances |-> "none"]
    /\ lost = [i \in Instances |-> FALSE]
    /\ start = [i \in Instances |-> "idle"]
    /\ halt = [i \in Instances |-> "idle"]
    /\ sup = "idle"
    /\ todo = {}
    /\ cur = {}
    /\ cand = 0

Running(i, n) == proc[i][n] = "running"
Done(i, n) == proc[i][n] = "done"
RunningProcs(i) == {n \in Procs : Running(i, n)}

\* The HTTP probe of waitUntilReady answers: service and tunnel are both up.
Answers(i) == service[i] = "up" /\ RunningProcs(i) # {}

-----------------------------------------------------------------------------
(***************************************************************************)
(* runningInstance.stop, run once by Stop, by Close or by a failed Start.  *)
(***************************************************************************)
\* Enter stopOnce with process n, read before the call; a later caller only
\* waits for the first.
EnterStop(i, n) ==
    IF stopping[i] = "no"
      THEN /\ stopping' = [stopping EXCEPT ![i] = "begun"]
           /\ victim' = [victim EXCEPT ![i] = n]
      ELSE UNCHANGED <<stopping, victim>>

\* Mutant: the pipe is closed, which looks like a lost connection.
CloseWithoutShutdown(i) ==
    /\ stopping[i] = "begun"
    /\ stopping' = [stopping EXCEPT ![i] = "waiting"]
    /\ UNCHANGED <<list, closed, kind, process, retired, victim, available, finished, procVars, start,
                   halt, supVars>>

\* process.stop: nothing is sent to a process that is done, else SHUTDOWN.
\* (A local process is signalled instead.)
SendShutdown(i) ==
    /\ stopping[i] = "begun"
    /\ stopping' = [stopping EXCEPT ![i] = "waiting"]
    /\ told' = [told EXCEPT ![i] = IF Running(i, victim[i]) THEN @ \cup {victim[i]} ELSE @]
    /\ UNCHANGED <<list, closed, kind, process, retired, victim, available, finished, proc, service,
                   lost, start, halt, supVars>>

\* Mutant: the lifecycle ends before the process does.
FinishWithoutWaiting(i) ==
    /\ stopping[i] = "waiting"
    /\ stopping' = [stopping EXCEPT ![i] = "over"]
    /\ finished' = [finished EXCEPT ![i] = TRUE]
    /\ available' = [available EXCEPT ![i] = FALSE]
    /\ UNCHANGED <<list, closed, kind, process, retired, victim, procVars, start, halt, supVars>>

\* process.stop has waited for the process; the lifecycle ends.
FinishStop(i) ==
    /\ stopping[i] = "waiting"
    /\ Done(i, victim[i])
    /\ stopping' = [stopping EXCEPT ![i] = "over"]
    /\ finished' = [finished EXCEPT ![i] = TRUE]
    /\ available' = [available EXCEPT ![i] = IF finished[i] THEN @ ELSE FALSE]
    /\ UNCHANGED <<list, closed, kind, process, retired, victim, procVars, start, halt, supVars>>

(***************************************************************************)
(* Start.                                                                  *)
(***************************************************************************)
\* startOnce: command.Start and a lifecycle that is available.
Spawn(i) ==
    /\ start[i] = "idle"
    /\ start' = [start EXCEPT ![i] = "spawned"]
    /\ process' = [process EXCEPT ![i] = 1]
    /\ proc' = [proc EXCEPT ![i][1] = "running"]
    /\ available' = [available EXCEPT ![i] = TRUE]
    /\ UNCHANGED <<list, closed, kind, retired, stopping, victim, finished, told, service, lost, halt,
                   supVars>>

\* A JupyterLab is sent its configuration before it is registered; TensorBoard
\* after that, where an error is one more way to fail.
FrameFails(i) ==
    /\ start[i] = "spawned"
    /\ remote /\ app = "jupyter"
    /\ EnterStop(i, 1)
    /\ start' = [start EXCEPT ![i] = "failing"]
    /\ UNCHANGED <<list, closed, kind, process, retired, available, finished, procVars, halt, supVars>>

\* The record enters the list, unless the launcher was closed meanwhile.
Register(i) ==
    /\ start[i] = "spawned"
    /\ ~closed
    /\ list' = list \cup {i}
    /\ start' = [start EXCEPT ![i] = "waiting"]
    /\ UNCHANGED <<closed, kind, recordVars, procVars, halt, supVars>>

Refused(i) ==
    /\ start[i] = "spawned"
    /\ closed
    /\ EnterStop(i, process[i])
    /\ start' = [start EXCEPT ![i] = "failing"]
    /\ UNCHANGED <<list, closed, kind, process, retired, available, finished, procVars, halt, supVars>>

\* waitForReadySentinel: the remote helper has bound its socket.
StartSentinel(i) ==
    /\ start[i] = "waiting"
    /\ remote /\ app = "tensorboard"
    /\ service[i] # "none"
    /\ start' = [start EXCEPT ![i] = "probing"]
    /\ UNCHANGED <<list, closed, kind, recordVars, procVars, halt, supVars>>

\* waitUntilReady, probeTensorBoardReady.
StartReady(i) ==
    /\ start[i] = IF remote /\ app = "tensorboard" THEN "probing" ELSE "waiting"
    /\ Answers(i)
    /\ start' = [start EXCEPT ![i] = "ready"]
    /\ UNCHANGED <<list, closed, kind, recordVars, procVars, halt, supVars>>

\* The first process ended or a deadline passed.  stopWithoutAPI stops the
\* process the instance has now, stopRecord the one that was started.
StartFails(i) ==
    /\ start[i] \in {"waiting", "probing"}
    /\ EnterStop(i, IF app = "jupyter" THEN process[i] ELSE 1)
    /\ start' = [start EXCEPT ![i] = "failing"]
    /\ UNCHANGED <<list, closed, kind, process, retired, available, finished, procVars, halt, supVars>>

\* removeInstance or removeRecord, once the stop has returned.
StartReturnsError(i) ==
    /\ start[i] = "failing"
    /\ stopping[i] = "over"
    /\ list' = list \ {i}
    /\ start' = [start EXCEPT ![i] = "failed"]
    /\ UNCHANGED <<closed, kind, recordVars, procVars, halt, supVars>>

(***************************************************************************)
(* Stop.                                                                   *)
(***************************************************************************)
\* The record is retired and leaves the list before its process is touched.
Stop(i) ==
    /\ start[i] = "ready"
    /\ halt[i] = "idle"
    /\ IF i \in retired
         THEN /\ halt' = [halt EXCEPT ![i] = "returned"]
              /\ UNCHANGED <<list, retired, stopping, victim>>
         ELSE /\ halt' = [halt EXCEPT ![i] = "busy"]
              /\ retired' = retired \cup {i}
              /\ list' = list \ {i}
              /\ EnterStop(i, process[i])
    /\ UNCHANGED <<closed, kind, process, available, finished, procVars, start, supVars>>

StopReturns(i) ==
    /\ halt[i] = "busy"
    /\ stopping[i] = "over"
    /\ halt' = [halt EXCEPT ![i] = "returned"]
    /\ UNCHANGED <<list, closed, kind, recordVars, procVars, start, supVars>>

(***************************************************************************)
(* Close, by the supervisor.                                               *)
(***************************************************************************)
Close ==
    /\ sup = "idle"
    /\ closed' = TRUE
    /\ retired' = retired \cup list
    /\ todo' = list
    /\ list' = {}
    /\ sup' = "closing"
    /\ UNCHANGED <<kind, process, stopping, victim, available, finished, procVars, start, halt, cur,
                   cand>>

\* Mutant: the stops of a Close overlap.
CloseStopAtOnce(i) ==
    /\ sup = "closing"
    /\ i \in todo
    /\ EnterStop(i, process[i])
    /\ cur' = cur \cup {i}
    /\ UNCHANGED <<list, closed, kind, process, retired, available, finished, procVars, start, halt,
                   sup, todo, cand>>

\* One instance of the snapshot after the other.
CloseStop(i) ==
    /\ sup = "closing"
    /\ cur = {}
    /\ i \in todo
    /\ EnterStop(i, process[i])
    /\ cur' = {i}
    /\ UNCHANGED <<list, closed, kind, process, retired, available, finished, procVars, start, halt,
                   sup, todo, cand>>

CloseStopped(i) ==
    /\ sup = "closing"
    /\ i \in cur
    /\ stopping[i] = "over"
    /\ cur' = {}
    /\ todo' = todo \ {i}
    /\ UNCHANGED <<list, closed, kind, recordVars, procVars, start, halt, sup, cand>>

CloseReturns ==
    /\ sup = "closing"
    /\ todo = {}
    /\ sup' = "closed"
    /\ UNCHANGED <<list, closed, kind, recordVars, procVars, start, halt, todo, cur, cand>>

(***************************************************************************)
(* Reattach, by the supervisor after each reconnect.                       *)
(***************************************************************************)
Reattach ==
    /\ sup = "idle"
    /\ remote
    /\ list # {}
    /\ todo' = list
    /\ sup' = "loop"
    /\ UNCHANGED <<list, closed, kind, recordVars, procVars, start, halt, cur, cand>>

\* An instance of the snapshot whose process lives, or, for JupyterLab, that was
\* retired since.
ReattachSkip(i) ==
    /\ sup = "loop"
    /\ i \in todo
    /\ (app = "jupyter" /\ i \in retired) \/ ~Done(i, process[i])
    /\ todo' = todo \ {i}
    /\ UNCHANGED <<list, closed, kind, recordVars, procVars, start, halt, sup, cur, cand>>

\* TensorBoard's loop leaves when the session's context is done.
ReattachCanceled ==
    /\ sup = "loop"
    /\ app = "tensorboard"
    /\ todo' = {}
    /\ sup' = "idle"
    /\ UNCHANGED <<list, closed, kind, recordVars, procVars, start, halt, cur, cand>>

\* Mutant: a process that still runs is replaced too.
SpawnBesideLive(i) ==
    /\ sup = "loop"
    /\ i \in todo
    /\ i \notin retired
    /\ process[i] \in 1..(MaxProcs - 1)
    /\ cur' = {i}
    /\ cand' = process[i] + 1
    /\ proc' = [proc EXCEPT ![i][process[i] + 1] = "running"]
    /\ sup' = "swap"
    /\ UNCHANGED <<list, closed, kind, recordVars, told, service, lost, start, halt, todo>>

\* reattachInstance, reattachOne: a new SSH process, not yet known to the record.
ReattachSpawn(i) ==
    /\ sup = "loop"
    /\ i \in todo
    /\ app = "jupyter" => i \notin retired
    /\ Done(i, process[i])
    /\ process[i] < MaxProcs
    /\ cur' = {i}
    /\ cand' = process[i] + 1
    /\ proc' = [proc EXCEPT ![i][process[i] + 1] = "running"]
    /\ told' = [told EXCEPT ![i] = @ \ {process[i] + 1}]
    /\ sup' = "swap"
    /\ UNCHANGED <<list, closed, kind, recordVars, service, lost, start, halt, todo>>

\* The SSH process cannot be started at all.
ReattachSpawnFails(i) ==
    /\ sup = "loop"
    /\ i \in todo
    /\ app = "jupyter" => i \notin retired
    /\ Done(i, process[i])
    /\ todo' = todo \ {i}
    /\ UNCHANGED <<list, closed, kind, recordVars, procVars, start, halt, sup, cur, cand>>

\* process.stop on the new process.
Discard(i) ==
    /\ told' = [told EXCEPT ![i] = IF Running(i, cand) THEN @ \cup {cand} ELSE @]
    /\ sup' = "discard"

\* Under the lock: the record takes the new process, unless it was retired.
\* Nobody else replaces a process, so process = previous always holds here.
Swap(i) ==
    /\ sup = "swap"
    /\ i \in cur
    /\ IF closed \/ i \in retired
         THEN Discard(i) /\ UNCHANGED process
         ELSE /\ process' = [process EXCEPT ![i] = cand]
              /\ sup' = IF app = "jupyter" THEN "probe" ELSE "sentinel"
              /\ UNCHANGED told
    /\ UNCHANGED <<list, closed, kind, retired, stopping, victim, available, finished, proc, service,
                   lost, start, halt, todo, cur, cand>>

\* waitForReadySentinel: the re-attach shell holds the lease.
ReattachSentinel(i) ==
    /\ sup = "sentinel"
    /\ i \in cur
    /\ Running(i, cand)
    /\ sup' = "probe"
    /\ UNCHANGED <<list, closed, kind, recordVars, procVars, start, halt, todo, cur, cand>>

ProbeReady(i) ==
    /\ sup = "probe"
    /\ i \in cur
    /\ service[i] = "up" /\ Running(i, cand)
    /\ sup' = "confirm"
    /\ UNCHANGED <<list, closed, kind, recordVars, procVars, start, halt, todo, cur, cand>>

\* The new process ended, a deadline passed or the session's context ended.
ProbeFails(i) ==
    /\ sup \in {"sentinel", "probe"}
    /\ i \in cur
    /\ Discard(i)
    /\ UNCHANGED <<list, closed, kind, recordVars, proc, service, lost, start, halt, todo, cur, cand>>

\* Mutant: the last step does not look again.
ConfirmUnchecked(i) ==
    /\ sup = "confirm"
    /\ i \in cur
    /\ available' = [available EXCEPT ![i] = TRUE]
    /\ sup' = "loop"
    /\ todo' = todo \ {i}
    /\ cur' = {}
    /\ UNCHANGED <<list, closed, kind, process, retired, stopping, victim, finished, procVars, start,
                   halt, cand>>

\* Under the lock again: the proxy is available.
Confirm(i) ==
    /\ sup = "confirm"
    /\ i \in cur
    /\ IF closed \/ i \in retired
         THEN Discard(i) /\ UNCHANGED <<available, todo, cur>>
         ELSE /\ available' = [available EXCEPT ![i] = TRUE]
              /\ sup' = "loop"
              /\ todo' = todo \ {i}
              /\ cur' = {}
              /\ UNCHANGED told
    /\ UNCHANGED <<list, closed, kind, process, retired, stopping, victim, finished, proc, service,
                   lost, start, halt, cand>>

Discarded(i) ==
    /\ sup = "discard"
    /\ i \in cur
    /\ Done(i, cand)
    /\ sup' = "loop"
    /\ todo' = todo \ {i}
    /\ cur' = {}
    /\ UNCHANGED <<list, closed, kind, recordVars, procVars, start, halt, cand>>

ReattachReturns ==
    /\ sup = "loop"
    /\ todo = {}
    /\ sup' = "idle"
    /\ UNCHANGED <<list, closed, kind, recordVars, procVars, start, halt, todo, cur, cand>>

-----------------------------------------------------------------------------
(***************************************************************************)
(* Subprocesses and services.                                              *)
(***************************************************************************)
\* newRunningProcess after Wait: onDone, then close(process.done).  A tunnel
\* that ends makes the instance unavailable, a local server also finishes it.
OnDone(i, n) ==
    /\ proc' = [proc EXCEPT ![i][n] = "done"]
    /\ available' = [available EXCEPT ![i] = FALSE]
    /\ finished' = [finished EXCEPT ![i] = IF remote THEN @ ELSE TRUE]

\* The remote shell reads SHUTDOWN, stops the service and exits.
ShellObeys(i, n) ==
    /\ remote
    /\ Running(i, n) /\ n \in told[i]
    /\ OnDone(i, n)
    /\ service' = [service EXCEPT ![i] = IF @ = "up" THEN "down" ELSE @]
    /\ UNCHANGED <<list, closed, kind, process, retired, stopping, victim, told, lost, start, halt,
                   supVars>>

\* A subprocess ends in any other way: the network, a crash, the signals of
\* process.stop after its grace period.  A remote service stays up.
ProcessEnds(i, n) ==
    /\ Running(i, n)
    /\ OnDone(i, n)
    /\ lost' = [lost EXCEPT ![i] = TRUE]
    /\ service' = [service EXCEPT ![i] = IF remote THEN @ ELSE "down"]
    /\ UNCHANGED <<list, closed, kind, process, retired, stopping, victim, told, start, halt, supVars>>

ServiceUp(i) ==
    /\ service[i] = "none"
    /\ Running(i, 1) /\ 1 \notin told[i]
    /\ service' = [service EXCEPT ![i] = "up"]
    /\ UNCHANGED <<list, closed, kind, recordVars, proc, told, lost, start, halt, supVars>>

\* The keeper's grace window passes with no tunnel, or the service dies.
ServiceEnds(i) ==
    /\ remote
    /\ service[i] = "up"
    /\ service' = [service EXCEPT ![i] = "down"]
    /\ UNCHANGED <<list, closed, kind, recordVars, proc, told, lost, start, halt, supVars>>

-----------------------------------------------------------------------------
StartStep(i) ==
    \/ FrameFails(i) \/ Register(i) \/ Refused(i)
    \/ StartSentinel(i) \/ StartReady(i) \/ StartFails(i) \/ StartReturnsError(i)

StopStep(i) == SendShutdown(i) \/ FinishStop(i) \/ StopReturns(i)

CloseStep == CloseReturns \/ \E i \in Instances : CloseStop(i) \/ CloseStopped(i)

ReattachStep ==
    \/ ReattachReturns \/ ReattachCanceled
    \/ \E i \in Instances :
          \/ ReattachSkip(i) \/ ReattachSpawn(i) \/ ReattachSpawnFails(i)
          \/ Swap(i) \/ ReattachSentinel(i) \/ ProbeReady(i) \/ ProbeFails(i) \/ Confirm(i) \/ Discarded(i)

Process(i, n) == ShellObeys(i, n) \/ ProcessEnds(i, n)

Next ==
    \/ CloseStep \/ ReattachStep \/ Close \/ Reattach
    \/ \E i \in Instances :
          \/ Spawn(i) \/ StartStep(i) \/ Stop(i) \/ StopStep(i)
          \/ ServiceUp(i) \/ ServiceEnds(i)
          \/ \E n \in Procs : Process(i, n)

Spec == Init /\ [][Next]_vars

-----------------------------------------------------------------------------
(***************************************************************************)
(* Properties.                                                             *)
(***************************************************************************)
TypeOK ==
    /\ list \subseteq Instances
    /\ closed \in BOOLEAN
    /\ app \in {"jupyter", "tensorboard"} /\ remote \in BOOLEAN
    /\ process \in [Instances -> 0..MaxProcs]
    /\ retired \subseteq Instances
    /\ stopping \in [Instances -> {"no", "begun", "waiting", "over"}]
    /\ victim \in [Instances -> 0..MaxProcs]
    /\ available \in [Instances -> BOOLEAN]
    /\ finished \in [Instances -> BOOLEAN]
    /\ proc \in [Instances -> [Procs -> {"none", "running", "done"}]]
    /\ told \in [Instances -> SUBSET Procs]
    /\ service \in [Instances -> {"none", "up", "down"}]
    /\ lost \in [Instances -> BOOLEAN]
    /\ start \in [Instances -> {"idle", "spawned", "waiting", "probing", "failing", "failed", "ready"}]
    /\ halt \in [Instances -> {"idle", "busy", "returned"}]
    /\ sup \in {"idle", "loop", "swap", "sentinel", "probe", "confirm", "discard", "closing", "closed"}
    /\ todo \subseteq Instances
    /\ cur \subseteq Instances /\ Cardinality(cur) <= 1
    /\ cand \in 0..MaxProcs

\* An instance has at most one SSH tunnel at a time on its local port: a
\* reattach never runs beside the tunnel of the launch or of another reattach.
SingleTunnel == \A i \in Instances, m, n \in Procs : Running(i, m) /\ Running(i, n) => m = n

\* The comment of Stop: a concurrent or later Reattach cannot revive an
\* instance that was stopped explicitly, whichever of its steps it is at.
RetiredNotRevived ==
    [][\A i \in retired :
          process'[i] = process[i] /\ (available'[i] => available[i])]_vars

\* When the stop of an instance has returned and no tunnel of it ever broke,
\* the remote service is down: it is not left to its grace window.
StopEndsService ==
    \A i \in Instances :
        stopping[i] = "over" /\ service[i] = "up" => lost[i]

\* After Close, no process of a launch that had succeeded is running, except
\* one that a Stop of its own is still waiting for.
CloseEndsLaunched ==
    sup = "closed" =>
        \A i \in Instances :
            start[i] = "ready" /\ halt[i] # "busy" => RunningProcs(i) = {}

\* Done is closed only once the process of the instance is gone: the app lets
\* the next launch into the directory when it sees Done.
FinishedMeansStopped ==
    \A i \in Instances :
        start[i] = "ready" /\ finished[i] => ~Running(i, process[i]) /\ ~available[i]

\* What the app relies on when a stop or a close is over, or Done is closed:
\* the service went with the call that stopped it, or with the Close of the
\* launcher, and no process of it is left running.
StoppedIsOver == StopEndsService /\ CloseEndsLaunched /\ FinishedMeansStopped

\* A subprocess that is being stopped goes by itself: a remote shell obeys the
\* SHUTDOWN it was sent or is killed with the SSH process, a local server is
\* terminated and killed by process.stop.
Ends(i, n) == Done(i, n) \/ (Running(i, n) /\ (remote => n \in told[i]))

\* The stop of an instance has begun, and waits for nothing but its subprocess.
StopGoesOn(i) ==
    stopping[i] \in {"begun", "over"} \/ (stopping[i] = "waiting" /\ Ends(i, victim[i]))

\* Stop, Close, a failed Start and Reattach never wait for one another, for a
\* tunnel that broke or for a slow process in a circle: what each waits for is a
\* stop or a subprocess that goes on without the environment and without another
\* call.  (Of these steps an instance has a bounded number for each call.)
CallsGoOn ==
    /\ \A i \in Instances :
          halt[i] = "busy" \/ start[i] = "failing" \/ (sup = "closing" /\ i \in cur) => StopGoesOn(i)
    /\ sup = "closing" => cur \subseteq todo
    /\ sup \in {"swap", "sentinel", "probe", "confirm", "discard"} => cur # {}
    /\ sup = "discard" => \A i \in cur : Ends(i, cand)

\* Available's comment: the proxy has a live local process or SSH tunnel.
AvailableHasTunnel == \A i \in Instances : available[i] => RunningProcs(i) # {}
=============================================================================
