---------------------------- MODULE RemoteKeeper ----------------------------
(***************************************************************************)
(* The shell programs that keep one JupyterLab or one TensorBoard alive on *)
(* the remote host: the launch shell, its detached keeper and the          *)
(* re-attach shells of internal/jupyter/launcher.go                        *)
(* (supervisedRemoteScript, reattachScript, graceProbeCount) and of        *)
(* internal/tensorboard/launcher.go (remoteTensorBoardScript,              *)
(* remoteKeeperScript, remoteReattachScript, keeperGraceParams).  They     *)
(* share the run directory: a lease file taken with flock, the pid of the  *)
(* lease's holder (watcher.pid) and a shutdown marker.  The two differ in  *)
(* the launch shell: JupyterLab's holds the lease before it forks the      *)
(* service, TensorBoard's forks the service first.                         *)
(*                                                                         *)
(* Shell 1 is the launch shell, shells 2, 3, ... are the re-attach shells  *)
(* in the order their SSH connections are made.  The local end of each is  *)
(* its client, which is one subprocess of module Launcher.                 *)
(***************************************************************************)
EXTENDS Integers

CONSTANTS
    NShells,        \* model bound: SSH connections ever made for the service
    Grace,          \* the grace window, in ticks
    Check           \* the keeper's pause between two looks, in ticks

Shells == 1..NShells
ProbeHolder == NShells + 1      \* the keeper's own `flock -n lease true'

ASSUME KeeperAssumption ==
    /\ NShells \in Nat \ {0}
    /\ Grace \in Nat \ {0}
    /\ Check \in Nat \ {0}

VARIABLES
    app,            \* jupyter or tensorboard: whose shells they are
    shell,          \* where each shell is
    client,         \* its local end: none, live, told (SHUTDOWN sent), cut
    lease,          \* the holder of the lease, 0 if it is free
    watcher,        \* the content of watcher.pid, 0 if there is none
    marker,         \* the shutdown marker exists
    runDir,         \* the run directory exists
    service,        \* none, forked (not yet in its own group), up, down
    missed,         \* the keeper has looked for the service before it had its group
    keeper,         \* where the keeper is
    idle,           \* its count of free probes in a row
    nap,            \* what is left of its sleep
    free            \* ticks since a shell last held the lease, up to Grace

vars == <<app, shell, client, lease, watcher, marker, runDir, service, missed, keeper, idle, nap, free>>

\* Mutant: rounded down.
ProbesRoundedDown == IF Grace \div Check < 1 THEN 1 ELSE Grace \div Check

\* graceProbeCount: the window in pauses, rounded up.
GraceProbeCount == (Grace + Check - 1) \div Check

Init ==
    /\ app \in {"jupyter", "tensorboard"}
    /\ shell = [s \in Shells |-> "none"]
    /\ client = [s \in Shells |-> "none"]
    /\ lease = 0
    /\ watcher = 0
    /\ marker = FALSE
    /\ runDir = FALSE
    /\ service = "none"
    /\ missed = FALSE
    /\ keeper = "none"
    /\ idle = 0
    /\ nap = 0
    /\ free = 0

GoTo(s, place) == shell' = [shell EXCEPT ![s] = place]

\* The end of a shell: the kernel releases its lease.
Exit(s) ==
    /\ GoTo(s, "gone")
    /\ lease' = IF lease = s THEN 0 ELSE lease

-----------------------------------------------------------------------------
(***************************************************************************)
(* The launch shell.                                                       *)
(***************************************************************************)
\* JupyterLab: the setup made the run directory; the lease is taken and
\* watcher.pid written before the service is forked.
Launch ==
    /\ app = "jupyter"
    /\ shell[1] = "none"
    /\ client' = [client EXCEPT ![1] = "live"]
    /\ runDir' = TRUE
    /\ lease' = 1
    /\ watcher' = 1
    /\ service' = "forked"
    /\ GoTo(1, "forked")
    /\ UNCHANGED <<app, missed, marker, keeper, idle, nap, free>>

\* TensorBoard: the service is forked as soon as its configuration was read.
LaunchTensorBoard ==
    /\ app = "tensorboard"
    /\ shell[1] = "none"
    /\ client' = [client EXCEPT ![1] = "live"]
    /\ runDir' = TRUE
    /\ service' = "forked"
    /\ GoTo(1, "lease")
    /\ UNCHANGED <<app, missed, lease, watcher, marker, keeper, idle, nap, free>>

\* `exec 9>lease; flock 9', then watcher.pid: nobody else knows the directory yet.
TakeLease ==
    /\ shell[1] = "lease"
    /\ lease' = 1
    /\ watcher' = 1
    /\ GoTo(1, "forked")
    /\ UNCHANGED <<app, missed, client, marker, runDir, service, keeper, idle, nap, free>>

\* The lease file cannot be opened or locked: the shell exits, with no trap and
\* no keeper behind it, and leaves the service it has forked.
TakeLeaseFails ==
    /\ shell[1] = "lease"
    /\ GoTo(1, "gone")
    /\ UNCHANGED <<app, missed, client, lease, watcher, marker, runDir, service, keeper, idle, nap, free>>

StartKeeper ==
    /\ shell[1] = "forked"
    /\ keeper' = "group"
    /\ GoTo(1, "reading")
    /\ UNCHANGED <<app, missed, client, lease, watcher, marker, runDir, service, idle, nap, free>>

(***************************************************************************)
(* A re-attach shell.                                                      *)
(***************************************************************************)
\* The socket is there or the shell gives up.
CheckSocket(s) ==
    /\ shell[s] = "contact"
    /\ GoTo(s, IF service = "up" /\ runDir THEN "lock" ELSE "gone")
    /\ UNCHANGED <<app, missed, client, lease, watcher, marker, runDir, service, keeper, idle, nap, free>>

\* `exec 9>lease', which needs the directory, then `flock -n 9'.
TryLock(s) ==
    /\ shell[s] = "lock"
    /\ IF ~runDir THEN GoTo(s, "gone") /\ UNCHANGED <<lease, free>>
       ELSE IF lease = 0 THEN GoTo(s, "locked") /\ lease' = s /\ free' = 0
       ELSE GoTo(s, "evict") /\ UNCHANGED <<lease, free>>
    /\ UNCHANGED <<app, missed, client, watcher, marker, runDir, service, keeper, idle, nap>>

\* Mutant: the launch shell's exit trap removes the run directory in any case.
EvictRemovesRunDir(s) ==
    /\ shell[s] = "evict"
    /\ shell' = [t \in Shells |-> IF t = s THEN "wait" ELSE IF t = watcher THEN "gone" ELSE shell[t]]
    /\ lease' = IF lease = watcher THEN 0 ELSE lease
    /\ runDir' = (runDir /\ watcher # 1)
    /\ UNCHANGED <<app, missed, client, watcher, marker, service, keeper, idle, nap, free>>

\* TERM to the pid in watcher.pid.  The launch shell's exit trap leaves the
\* run directory alone once the keeper runs.
Evict(s) ==
    /\ shell[s] = "evict"
    /\ shell' = [t \in Shells |->
                    IF t = s THEN "wait"
                    ELSE IF t = watcher /\ runDir THEN "gone" ELSE shell[t]]
    /\ lease' = IF lease = watcher /\ runDir THEN 0 ELSE lease
    /\ UNCHANGED <<app, missed, client, watcher, marker, runDir, service, keeper, idle, nap, free>>

\* `flock -w 5 9': the lease, or the end of the wait.
WaitLock(s) ==
    /\ shell[s] = "wait"
    /\ lease = 0
    /\ GoTo(s, "locked")
    /\ lease' = s
    /\ free' = 0
    /\ UNCHANGED <<app, missed, client, watcher, marker, runDir, service, keeper, idle, nap>>

WaitExpires(s) ==
    /\ shell[s] = "wait"
    /\ GoTo(s, "gone")
    /\ UNCHANGED <<app, missed, client, lease, watcher, marker, runDir, service, keeper, idle, nap, free>>

WriteWatcher(s) ==
    /\ shell[s] = "locked"
    /\ watcher' = IF runDir THEN s ELSE watcher
    /\ GoTo(s, "reading")
    /\ UNCHANGED <<app, missed, client, lease, marker, runDir, service, keeper, idle, nap, free>>

(***************************************************************************)
(* The read loop that both kinds of shell end in.                          *)
(***************************************************************************)
\* Mutant: SHUTDOWN only ends the shell.
ReadShutdownNoMarker(s) ==
    /\ shell[s] = "reading"
    /\ client[s] = "told"
    /\ Exit(s)
    /\ UNCHANGED <<app, missed, client, watcher, marker, runDir, service, keeper, idle, nap, free>>

ReadShutdown(s) ==
    /\ shell[s] = "reading"
    /\ client[s] = "told"
    /\ marker' = (marker \/ runDir)
    /\ Exit(s)
    /\ UNCHANGED <<app, missed, client, watcher, runDir, service, keeper, idle, nap, free>>

\* The end of the input, once sshd has noticed that the client is gone.
ReadEnd(s) ==
    /\ shell[s] = "reading"
    /\ client[s] = "cut"
    /\ Exit(s)
    /\ UNCHANGED <<app, missed, client, watcher, marker, runDir, service, keeper, idle, nap, free>>

-----------------------------------------------------------------------------
(***************************************************************************)
(* The keeper.                                                             *)
(***************************************************************************)
KeeperGoes(place) == keeper' = place

\* `kill -0 -pgid': no such group ends the loop.  Nothing orders the first of
\* these looks after the setsid(2) of the service.
FindGroup ==
    /\ keeper = "group"
    /\ KeeperGoes(IF service = "up" THEN "look" ELSE "remove")
    /\ missed' = (service = "forked")
    /\ UNCHANGED <<app, shell, client, lease, watcher, marker, runDir, service, idle, nap, free>>

\* The marker, then `flock -n lease true': a held lease starts the count anew.
Look ==
    /\ keeper = "look"
    /\ IF marker THEN KeeperGoes("kill") /\ UNCHANGED <<lease, idle, nap>>
       ELSE IF lease = 0
       THEN KeeperGoes("probing") /\ lease' = ProbeHolder /\ UNCHANGED <<idle, nap>>
       ELSE KeeperGoes("nap") /\ idle' = 0 /\ nap' = Check /\ UNCHANGED lease
    /\ UNCHANGED <<app, missed, shell, client, watcher, marker, runDir, service, free>>

\* Mutant: `-gt' for `-ge'.
ProbedOneMore ==
    /\ keeper = "probing"
    /\ lease' = 0
    /\ idle' = idle + 1
    /\ IF idle + 1 > GraceProbeCount
         THEN KeeperGoes("expire") /\ UNCHANGED nap
         ELSE KeeperGoes("nap") /\ nap' = Check
    /\ UNCHANGED <<app, missed, shell, client, watcher, marker, runDir, service, free>>

\* The probe lets the lease go; enough of them in a row end the service.
Probed ==
    /\ keeper = "probing"
    /\ lease' = 0
    /\ idle' = idle + 1
    /\ IF idle + 1 >= GraceProbeCount
         THEN KeeperGoes("expire") /\ UNCHANGED nap
         ELSE KeeperGoes("nap") /\ nap' = Check
    /\ UNCHANGED <<app, missed, shell, client, watcher, marker, runDir, service, free>>

Wake ==
    /\ keeper = "nap"
    /\ nap = 0
    /\ KeeperGoes("group")
    /\ UNCHANGED <<app, missed, shell, client, lease, watcher, marker, runDir, service, idle, nap, free>>

\* TERM, then KILL to the service's group.
Kill ==
    /\ keeper \in {"kill", "expire"}
    /\ service' = "down"
    /\ KeeperGoes("remove")
    /\ UNCHANGED <<app, missed, shell, client, lease, watcher, marker, runDir, idle, nap, free>>

Remove ==
    /\ keeper = "remove"
    /\ runDir' = FALSE
    /\ KeeperGoes("gone")
    /\ UNCHANGED <<app, missed, shell, client, lease, watcher, marker, service, idle, nap, free>>

-----------------------------------------------------------------------------
(***************************************************************************)
(* The service, the clients and time.                                      *)
(***************************************************************************)
\* setsid(2) in the forked service.
Setsid ==
    /\ service = "forked"
    /\ service' = "up"
    /\ UNCHANGED <<app, missed, shell, client, lease, watcher, marker, runDir, keeper, idle, nap, free>>

ServiceDies ==
    /\ service = "up"
    /\ service' = "down"
    /\ UNCHANGED <<app, missed, shell, client, lease, watcher, marker, runDir, keeper, idle, nap, free>>

\* The client connects again, only after the one before it has ended.  The
\* launch shell is past its setup by then: it forks the service and the keeper
\* in a few statements in a row, the client waits a backoff of a second first.
Connect(s) ==
    /\ shell[s] = "none"
    /\ s > 1
    /\ shell[1] \notin {"lease", "forked"}
    /\ client[s - 1] = "cut" \/ (client[s - 1] = "told" /\ shell[s - 1] = "gone")
    /\ client' = [client EXCEPT ![s] = "live"]
    /\ GoTo(s, "contact")
    /\ UNCHANGED <<app, missed, lease, watcher, marker, runDir, service, keeper, idle, nap, free>>

\* process.stop of the client.
Tell(s) ==
    /\ client[s] = "live"
    /\ client' = [client EXCEPT ![s] = "told"]
    /\ UNCHANGED <<app, missed, shell, lease, watcher, marker, runDir, service, keeper, idle, nap, free>>

\* The connection is lost, with what was sent and not read.
Cut(s) ==
    /\ client[s] \in {"live", "told"}
    /\ client' = [client EXCEPT ![s] = "cut"]
    /\ UNCHANGED <<app, missed, shell, lease, watcher, marker, runDir, service, keeper, idle, nap, free>>

Tick ==
    /\ keeper \notin {"none", "gone"}
    /\ nap' = IF nap > 0 THEN nap - 1 ELSE 0
    /\ free' = IF lease \in Shells THEN 0 ELSE IF free < Grace THEN free + 1 ELSE free
    /\ UNCHANGED <<app, missed, shell, client, lease, watcher, marker, runDir, service, keeper, idle>>

-----------------------------------------------------------------------------
ShellStep(s) ==
    \/ CheckSocket(s) \/ TryLock(s) \/ Evict(s) \/ WaitLock(s) \/ WaitExpires(s)
    \/ WriteWatcher(s) \/ ReadShutdown(s) \/ ReadEnd(s)

KeeperStep == FindGroup \/ Look \/ Probed \/ Wake \/ Kill \/ Remove

Next ==
    \/ Launch \/ LaunchTensorBoard \/ TakeLease \/ TakeLeaseFails \/ StartKeeper
    \/ KeeperStep \/ Setsid \/ ServiceDies \/ Tick
    \/ \E s \in Shells : ShellStep(s) \/ Connect(s) \/ Tell(s) \/ Cut(s)

\* Processes of the remote host run and time passes; a shell whose client is
\* gone reads the end of its input when sshd's TCP keepalive gives up.
Fairness ==
    /\ WF_vars(TakeLease \/ TakeLeaseFails) /\ WF_vars(StartKeeper) /\ WF_vars(KeeperStep)
    /\ WF_vars(Setsid) /\ WF_vars(Tick)
    /\ \A s \in Shells : WF_vars(ShellStep(s))

Spec == Init /\ [][Next]_vars
FairSpec == Spec /\ Fairness

-----------------------------------------------------------------------------
(***************************************************************************)
(* Properties.                                                             *)
(***************************************************************************)
ShellPcs ==
    {"none", "lease", "forked", "contact", "lock", "evict", "wait", "locked", "reading", "gone"}
KeeperPcs == {"none", "group", "look", "probing", "nap", "kill", "expire", "remove", "gone"}

TypeOK ==
    /\ app \in {"jupyter", "tensorboard"}
    /\ shell \in [Shells -> ShellPcs]
    /\ client \in [Shells -> {"none", "live", "told", "cut"}]
    /\ lease \in 0..ProbeHolder
    /\ watcher \in 0..NShells
    /\ marker \in BOOLEAN
    /\ runDir \in BOOLEAN
    /\ service \in {"none", "forked", "up", "down"}
    /\ missed \in BOOLEAN
    /\ keeper \in KeeperPcs
    /\ idle \in 0..GraceProbeCount
    /\ nap \in 0..Check
    /\ free \in 0..Grace

\* While the service runs its run directory is there, for a reconnect to find
\* the socket and the lease: the keeper removes it only after the service, and
\* no shell that exits or is evicted removes it.
RunDirOutlivesService == service = "up" /\ ~missed => runDir

\* supervisedRemoteScript: the keeper leaves only when the service is down, so
\* there is always somebody to end a service nobody is attached to.
KeeperOutlivesService == keeper = "gone" /\ ~missed => service = "down"

\* A service is given up in one way only: the keeper's first look came before
\* the setsid(2) of the service.  One that the keeper has found it keeps.
MissedAtFirst == missed => keeper \in {"remove", "gone"} /\ idle = 0

\* The pid a later re-attach evicts is the one of the shell that reads.
WatcherIsReader ==
    \A s \in Shells : shell[s] = "reading" /\ lease = s /\ runDir => watcher = s

\* Whoever holds, loses, waits for or gives up the lease: what a later re-attach
\* needs to find the service, and the keeper needs to end it, is there, unless
\* the keeper has missed the service when both began.
ServiceKept ==
    RunDirOutlivesService /\ KeeperOutlivesService /\ MissedAtFirst /\ WatcherIsReader

\* A service nobody has tried to re-attach to is given up at most one pause
\* before its grace window has passed since the launch shell held the lease.
\* (A re-attach between two looks of the keeper does not start the window anew.)
GraceNearlyFull ==
    [][/\ keeper # "expire" /\ keeper' = "expire"
       /\ \A s \in Shells : s > 1 => shell[s] = "none"
       => free + Check >= Grace]_vars

\* Nobody keeps the service: only the launch shell starts the keeper, and it was
\* gone before (TakeLeaseFails), or the keeper missed the service.
Unkept == missed \/ (shell[1] = "gone" /\ keeper = "none")

\* An explicit close that reaches the shell that reads ends the service and
\* cleans up, even if another shell takes the lease in the meantime: it is not
\* left to the grace window.
ToldEndsService ==
    []~Unkept =>
        /\ \A s \in Shells :
              client[s] = "told" /\ shell[s] = "reading" ~> client[s] = "cut" \/ service = "down"
        /\ marker ~> service = "down" /\ ~runDir

\* A service that no client comes back to ends and leaves nothing behind.
AbandonedServiceEnds ==
    /\ []~Unkept
    /\ <>[](\A s \in Shells : client[s] # "live" /\ shell[s] # "contact")
    => <>[](service \in {"none", "down"} /\ ~runDir)

\* Both: a service that was told to, or that nobody is left for, ends.
ServiceEnds == ToldEndsService /\ AbandonedServiceEnds
=============================================================================
