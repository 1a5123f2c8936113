------------------------------- MODULE Session -------------------------------
(***************************************************************************)
(* The life of one open-server process: runSessions starts one session per *)
(* target, every session runs a supervisor goroutine over its HTTP server, *)
(* its SSH connection and its launchers, and the process returns when all  *)
(* of them have ended.  Source: cmd/open-server/main.go (runSessions,      *)
(* startSession) and cmd/open-server/reconnect.go.                         *)
(*                                                                         *)
(* A connection is one `ssh ... sftp' subprocess.  The connections of a    *)
(* target are numbered 1, 2, ... in the order they are opened; 0 stands    *)
(* for no connection (a local target, or the Disconnected backend).        *)
(***************************************************************************)
EXTENDS Integers

CONSTANTS
    NTargets,       \* the number of targets on the command line
    Remote,         \* the targets reached over SSH; the others are local
    Reconnect,      \* FALSE under -no-reconnect
    Timed,          \* the targets whose duration passes: under -duration it may
    MaxAttempts,    \* reconnectPolicy.maxAttempts
    BaseDelay,      \* reconnectPolicy.baseDelay
    MaxDelay,       \* reconnectPolicy.maxDelay
    MaxConns        \* model bound: connections one target ever opens

Targets == 1..NTargets

ASSUME SessionAssumption ==
    /\ NTargets \in Nat
    /\ Remote \subseteq Targets
    /\ Reconnect \in BOOLEAN
    /\ Timed \subseteq Targets
    /\ MaxAttempts \in Nat \ {0}
    /\ BaseDelay \in Nat \ {0}
    /\ MaxDelay \in Nat \ {0}
    /\ MaxConns \in Nat \ {0}

Launchers == {"jupyter", "tensorboard"}

VARIABLES
    \* runSessions
    mainPc,         \* where the main goroutine is
    cursor,         \* the target the start loop is at
    active,         \* sessions started and not yet reported as ended
    failed,         \* targets with an entry in sessionErrors
    interrupted,    \* ctx of signal.NotifyContext is done
    userClose,      \* label of the first user close, 0 if there is none
    events,         \* session events sent and not yet received
    \* one session each
    pc,             \* where startSession, then the supervisor, is
    ended,          \* the session context's own end: no, canceled, expired
    conn,           \* the connection behind currentDone and currentClose
    lastConn,       \* the connection dialled last
    open,           \* connections whose subprocess was not closed
    alive,          \* of those, the connections whose transport still works
    backend,        \* the connection app requests are served from
    attempt,        \* attempt counter of reconnectSSH
    delay,          \* back-off before that attempt
    closeReq,       \* the app's closeSignal: none, queued, taken
    serve,          \* the HTTP server: off, serving, failed, shut
    launchers,      \* launchers created and not closed
    listening,      \* the listener is bound
    result          \* what the supervisor reports: none, ok, error

mainVars == <<mainPc, cursor, active, failed>>
sessionVars == <<ended, conn, lastConn, open, alive, backend, attempt, delay,
                 closeReq, serve, launchers, listening, result>>
vars == <<mainVars, interrupted, userClose, events, pc, sessionVars>>

(***************************************************************************)
(* Helpers.                                                                *)
(***************************************************************************)
CtxDone(t) == interrupted \/ ended[t] # "no"

\* The locals of reconnectSSH end with it.
LeaveReconnect(t) ==
    /\ attempt' = [attempt EXCEPT ![t] = 0]
    /\ delay' = [delay EXCEPT ![t] = 0]

\* nextBackoff
NextBackoff(previous) ==
    LET next == IF previous > 0 THEN previous * 2 ELSE BaseDelay
    IN  IF next > MaxDelay THEN MaxDelay ELSE next

\* Session.Close: the subprocess is gone when it returns; twice is once.
CloseConnection(t, c) ==
    /\ open' = [open EXCEPT ![t] = @ \ {c}]
    /\ alive' = [alive EXCEPT ![t] = @ \ {c}]

GoTo(t, place) == pc' = [pc EXCEPT ![t] = place]

\* Where a session is while runSessions waits inside startSession.
StartupPcs == {"dialing", "probing", "building"}
\* Where the supervisor goroutine is while it runs.
SelectPcs == {"select", "dropped", "backoff", "redial", "restat", "reattach"}
TeardownPcs == {"cancel", "shutdown", "closeJupyter", "closeTensorBoard",
                "closeBackend", "closeListener"}
SupervisorPcs == SelectPcs \cup TeardownPcs
\* Where nothing of the session is left.
OverPcs == {"idle", "failed", "ended", "done"}

Init ==
    /\ mainPc = "starting"
    /\ cursor = 1
    /\ active = {}
    /\ failed = {}
    /\ interrupted = FALSE
    /\ userClose = 0
    /\ events = {}
    /\ pc = [t \in Targets |-> "idle"]
    /\ ended = [t \in Targets |-> "no"]
    /\ conn = [t \in Targets |-> 0]
    /\ lastConn = [t \in Targets |-> 0]
    /\ open = [t \in Targets |-> {}]
    /\ alive = [t \in Targets |-> {}]
    /\ backend = [t \in Targets |-> 0]
    /\ attempt = [t \in Targets |-> 0]
    /\ delay = [t \in Targets |-> 0]
    /\ closeReq = [t \in Targets |-> "none"]
    /\ serve = [t \in Targets |-> "off"]
    /\ launchers = [t \in Targets |-> {}]
    /\ listening = [t \in Targets |-> FALSE]
    /\ result = [t \in Targets |-> "none"]

-----------------------------------------------------------------------------
(***************************************************************************)
(* runSessions: the loop over the targets.                                 *)
(***************************************************************************)
AtTarget(t) == mainPc = "starting" /\ cursor = t /\ pc[t] = "idle" /\ ~interrupted

\* The target, its configuration or its port cannot be had: note and go on.
TargetRejected(t) ==
    /\ AtTarget(t)
    /\ failed' = failed \cup {t}
    /\ cursor' = cursor + 1
    /\ UNCHANGED <<mainPc, active, interrupted, userClose, events, pc, sessionVars>>

\* The listener is bound and startSession begins.
BeginSession(t) ==
    /\ AtTarget(t)
    /\ listening' = [listening EXCEPT ![t] = TRUE]
    /\ GoTo(t, IF t \in Remote THEN "dialing" ELSE "building")
    /\ launchers' = [launchers EXCEPT ![t] = IF t \in Remote THEN @ ELSE Launchers]
    /\ UNCHANGED <<mainVars, interrupted, userClose, events, ended, conn, lastConn,
                   open, alive, backend, attempt, delay, closeReq, serve, result>>

\* No target is left, or the context is done: run with what was started.
LeaveStartLoop ==
    /\ mainPc = "starting"
    /\ cursor \in Targets => interrupted /\ pc[cursor] = "idle"
    /\ mainPc' = IF active = {} THEN "exited" ELSE "waiting"
    /\ UNCHANGED <<cursor, active, failed, interrupted, userClose, events, pc, sessionVars>>

(***************************************************************************)
(* startSession, still in the main goroutine.                              *)
(***************************************************************************)
\* sshsession.Start succeeds.
Dial(t) ==
    /\ pc[t] = "dialing"
    /\ lastConn' = [lastConn EXCEPT ![t] = 1]
    /\ conn' = [conn EXCEPT ![t] = 1]
    /\ open' = [open EXCEPT ![t] = {1}]
    /\ alive' = [alive EXCEPT ![t] = {1}]
    /\ GoTo(t, "probing")
    /\ UNCHANGED <<mainVars, interrupted, userClose, events, ended, backend, attempt,
                   delay, closeReq, serve, launchers, listening, result>>

\* logicalRemoteRoot and Stat find a directory; the launchers are made.
ProbeRoot(t) ==
    /\ pc[t] = "probing"
    /\ conn[t] \in alive[t]
    /\ launchers' = [launchers EXCEPT ![t] = Launchers]
    /\ backend' = [backend EXCEPT ![t] = conn[t]]
    /\ GoTo(t, "building")
    /\ UNCHANGED <<mainVars, interrupted, userClose, events, ended, conn, lastConn,
                   open, alive, attempt, delay, closeReq, serve, listening, result>>

\* fail and endDuringStartup, then the caller closes the listener.  A session
\* whose context ended is not an error.
StartFails(t) ==
    /\ pc[t] \in StartupPcs
    /\ launchers' = [launchers EXCEPT ![t] = {}]
    /\ open' = [open EXCEPT ![t] = {}]
    /\ alive' = [alive EXCEPT ![t] = {}]
    /\ ended' = [ended EXCEPT ![t] = IF @ = "no" THEN "canceled" ELSE @]
    /\ listening' = [listening EXCEPT ![t] = FALSE]
    /\ cursor' = cursor + 1
    /\ IF CtxDone(t) /\ pc[t] # "building"
         THEN GoTo(t, "ended") /\ UNCHANGED failed
         ELSE GoTo(t, "failed") /\ failed' = failed \cup {t}
    /\ UNCHANGED <<mainPc, active, interrupted, userClose, events, conn, lastConn,
                   backend, attempt, delay, closeReq, serve, result>>

\* app.New, the server goroutine and the supervisor goroutine.
SessionStarted(t) ==
    /\ pc[t] = "building"
    /\ serve' = [serve EXCEPT ![t] = "serving"]
    /\ GoTo(t, "select")
    /\ active' = active \cup {t}
    /\ cursor' = cursor + 1
    /\ UNCHANGED <<mainPc, failed, interrupted, userClose, events, ended, conn, lastConn,
                   open, alive, backend, attempt, delay, closeReq, launchers, listening,
                   result>>

(***************************************************************************)
(* runSessions: waiting for the sessions.                                  *)
(***************************************************************************)
\* ctx.Done: every session still active is cancelled, then only drained.
CancelAll ==
    /\ mainPc = "waiting"
    /\ active # {}
    /\ interrupted
    /\ ended' = [t \in Targets |->
                    IF t \in active /\ ended[t] = "no" THEN "canceled" ELSE ended[t]]
    /\ mainPc' = "draining"
    /\ UNCHANGED <<cursor, active, failed, interrupted, userClose, events, pc, conn,
                   lastConn, open, alive, backend, attempt, delay, closeReq, serve,
                   launchers, listening, result>>

\* Mutant: errors are not collected while all sessions are being cancelled.
ReceiveEventDropsError(t) ==
    /\ mainPc \in {"waiting", "draining"}
    /\ t \in events
    /\ events' = events \ {t}
    /\ active' = active \ {t}
    /\ failed' = IF result[t] = "error" /\ ~interrupted THEN failed \cup {t} ELSE failed
    /\ UNCHANGED <<mainPc, cursor, interrupted, userClose, pc, sessionVars>>

ReceiveEvent(t) ==
    /\ mainPc \in {"waiting", "draining"}
    /\ t \in events
    /\ events' = events \ {t}
    /\ active' = active \ {t}
    /\ failed' = IF result[t] = "error" THEN failed \cup {t} ELSE failed
    /\ UNCHANGED <<mainPc, cursor, interrupted, userClose, pc, sessionVars>>

Return ==
    /\ mainPc \in {"waiting", "draining"}
    /\ active = {}
    /\ mainPc' = "exited"
    /\ UNCHANGED <<cursor, active, failed, interrupted, userClose, events, pc, sessionVars>>

-----------------------------------------------------------------------------
(***************************************************************************)
(* The supervisor: its select.                                             *)
(***************************************************************************)
NoteResult(t, value) == result' = [result EXCEPT ![t] = value]

SelectContextDone(t) ==
    /\ pc[t] \in {"select", "backoff"}
    /\ CtxDone(t)
    /\ LeaveReconnect(t)
    /\ GoTo(t, "cancel")
    /\ UNCHANGED <<mainVars, interrupted, userClose, events, ended, conn, lastConn, open, alive,
                   backend, closeReq, serve, launchers, listening, result>>

\* Mutant: only a back-off wait takes the close request.
OnlyBackoffUserClose(t) ==
    /\ pc[t] = "backoff"
    /\ closeReq[t] = "queued"
    /\ closeReq' = [closeReq EXCEPT ![t] = "taken"]
    /\ userClose' = IF userClose = 0 THEN t ELSE userClose
    /\ interrupted' = TRUE
    /\ GoTo(t, "cancel")
    /\ UNCHANGED <<mainVars, events, ended, conn, lastConn, open, alive, backend, attempt,
                   delay, serve, launchers, listening, result>>

\* app.CloseRequested, in the select or in a back-off wait: the first user
\* close of the process is recorded and stops every session.
SelectUserClose(t) ==
    /\ pc[t] \in {"select", "backoff"}
    /\ closeReq[t] = "queued"
    /\ closeReq' = [closeReq EXCEPT ![t] = "taken"]
    /\ userClose' = IF userClose = 0 THEN t ELSE userClose
    /\ interrupted' = TRUE
    /\ LeaveReconnect(t)
    /\ GoTo(t, "cancel")
    /\ UNCHANGED <<mainVars, events, ended, conn, lastConn, open, alive, backend, serve,
                   launchers, listening, result>>

LinkLost(t) == t \in Remote /\ conn[t] \notin alive[t]

\* currentDone, and nothing to reconnect for.
SelectLinkLostEnds(t) ==
    /\ pc[t] = "select"
    /\ LinkLost(t)
    /\ CtxDone(t) \/ ~Reconnect
    /\ NoteResult(t, IF CtxDone(t) THEN result[t] ELSE "error")
    /\ GoTo(t, "cancel")
    /\ UNCHANGED <<mainVars, interrupted, userClose, events, ended, conn, lastConn, open,
                   alive, backend, attempt, delay, closeReq, serve, launchers, listening>>

\* Mutant: the app keeps the backend of the lost connection.
KeepBackend(t) ==
    /\ pc[t] = "select"
    /\ LinkLost(t)
    /\ ~CtxDone(t) /\ Reconnect
    /\ GoTo(t, "dropped")
    /\ UNCHANGED <<mainVars, interrupted, userClose, events, sessionVars>>

\* currentDone: requests fail with ErrDisconnected from here on.
SetDisconnected(t) ==
    /\ pc[t] = "select"
    /\ LinkLost(t)
    /\ ~CtxDone(t) /\ Reconnect
    /\ backend' = [backend EXCEPT ![t] = 0]
    /\ GoTo(t, "dropped")
    /\ UNCHANGED <<mainVars, interrupted, userClose, events, ended, conn, lastConn, open,
                   alive, attempt, delay, closeReq, serve, launchers, listening, result>>

SelectServeError(t) ==
    /\ pc[t] = "select"
    /\ serve[t] = "failed"
    /\ NoteResult(t, "error")
    /\ GoTo(t, "cancel")
    /\ UNCHANGED <<mainVars, interrupted, userClose, events, ended, conn, lastConn, open,
                   alive, backend, attempt, delay, closeReq, serve, launchers, listening>>

(***************************************************************************)
(* The supervisor: reconnectSSH.                                           *)
(***************************************************************************)
\* currentClose on the lost connection, then the first back-off wait.
CloseDropped(t) ==
    /\ pc[t] = "dropped"
    /\ CloseConnection(t, conn[t])
    /\ attempt' = [attempt EXCEPT ![t] = 1]
    /\ delay' = [delay EXCEPT ![t] = NextBackoff(0)]
    /\ GoTo(t, "backoff")
    /\ UNCHANGED <<mainVars, interrupted, userClose, events, ended, conn, lastConn,
                   backend, closeReq, serve, launchers, listening, result>>

BackoffElapsed(t) ==
    /\ pc[t] = "backoff"
    /\ GoTo(t, "redial")
    /\ UNCHANGED <<mainVars, interrupted, userClose, events, sessionVars>>

\* sshsession.Start succeeds.
Redial(t) ==
    /\ pc[t] = "redial"
    /\ lastConn[t] < MaxConns
    /\ lastConn' = [lastConn EXCEPT ![t] = @ + 1]
    /\ open' = [open EXCEPT ![t] = @ \cup {lastConn[t] + 1}]
    /\ alive' = [alive EXCEPT ![t] = @ \cup {lastConn[t] + 1}]
    /\ GoTo(t, "restat")
    /\ UNCHANGED <<mainVars, interrupted, userClose, events, ended, conn, backend, attempt,
                   delay, closeReq, serve, launchers, listening, result>>

\* Mutant: one attempt too many.
AttemptFailedOnceMore(t) ==
    /\ IF CtxDone(t) THEN GoTo(t, "cancel") /\ UNCHANGED <<attempt, delay, result>>
       ELSE IF attempt[t] <= MaxAttempts
       THEN /\ attempt' = [attempt EXCEPT ![t] = @ + 1]
            /\ delay' = [delay EXCEPT ![t] = NextBackoff(@)]
            /\ GoTo(t, "backoff")
            /\ UNCHANGED result
       ELSE /\ NoteResult(t, "error")
            /\ GoTo(t, "cancel")
            /\ UNCHANGED <<attempt, delay>>
    /\ UNCHANGED <<mainVars, interrupted, userClose, events, ended, conn, lastConn,
                   backend, closeReq, serve, launchers, listening>>

\* A failed attempt: leave if the context is done, else back off or give up.
AttemptFailed(t) ==
    /\ IF CtxDone(t) THEN GoTo(t, "cancel") /\ LeaveReconnect(t) /\ UNCHANGED result
       ELSE IF attempt[t] < MaxAttempts
       THEN /\ attempt' = [attempt EXCEPT ![t] = @ + 1]
            /\ delay' = [delay EXCEPT ![t] = NextBackoff(@)]
            /\ GoTo(t, "backoff")
            /\ UNCHANGED result
       ELSE /\ NoteResult(t, "error")
            /\ GoTo(t, "cancel")
            /\ LeaveReconnect(t)
    /\ UNCHANGED <<mainVars, interrupted, userClose, events, ended, conn, lastConn,
                   backend, closeReq, serve, launchers, listening>>

RedialFails(t) == pc[t] = "redial" /\ AttemptFailed(t) /\ UNCHANGED <<open, alive>>

\* The root is gone, is no directory, or the new connection failed already.
RestatFails(t) ==
    /\ pc[t] = "restat"
    /\ CloseConnection(t, lastConn[t])
    /\ AttemptFailed(t)

\* reconnectConnected: the app and the supervisor move to the new connection.
SetBackend(t) ==
    /\ pc[t] = "restat"
    /\ lastConn[t] \in alive[t]
    /\ backend' = [backend EXCEPT ![t] = lastConn[t]]
    /\ conn' = [conn EXCEPT ![t] = lastConn[t]]
    /\ LeaveReconnect(t)
    /\ GoTo(t, "reattach")
    /\ UNCHANGED <<mainVars, interrupted, userClose, events, ended, lastConn, open, alive,
                   closeReq, serve, launchers, listening, result>>

\* reattachLaunchers returns: the launchers module follows what it did.
Reattached(t) ==
    /\ pc[t] = "reattach"
    /\ GoTo(t, "select")
    /\ UNCHANGED <<mainVars, interrupted, userClose, events, sessionVars>>

(***************************************************************************)
(* The supervisor: after the loop.                                         *)
(***************************************************************************)
Cancel(t) ==
    /\ pc[t] = "cancel"
    /\ ended' = [ended EXCEPT ![t] = IF @ = "no" THEN "canceled" ELSE @]
    /\ GoTo(t, "shutdown")
    /\ UNCHANGED <<mainVars, interrupted, userClose, events, conn, lastConn, open, alive,
                   backend, attempt, delay, closeReq, serve, launchers, listening, result>>

\* server.Shutdown closes the listeners; it gives up on busy handlers after
\* five seconds, which is an error unless another one came first.
ShutdownServer(t) ==
    /\ pc[t] = "shutdown"
    /\ serve' = [serve EXCEPT ![t] = "shut"]
    /\ \E outcome \in {"ok", "error"} :
          NoteResult(t, IF result[t] = "error" THEN "error" ELSE outcome)
    /\ GoTo(t, "closeJupyter")
    /\ UNCHANGED <<mainVars, interrupted, userClose, events, ended, conn, lastConn, open,
                   alive, backend, attempt, delay, closeReq, launchers, listening>>

CloseJupyter(t) ==
    /\ pc[t] = "closeJupyter"
    /\ launchers' = [launchers EXCEPT ![t] = @ \ {"jupyter"}]
    /\ GoTo(t, "closeTensorBoard")
    /\ UNCHANGED <<mainVars, interrupted, userClose, events, ended, conn, lastConn, open,
                   alive, backend, attempt, delay, closeReq, serve, listening, result>>

CloseTensorBoard(t) ==
    /\ pc[t] = "closeTensorBoard"
    /\ launchers' = [launchers EXCEPT ![t] = @ \ {"tensorboard"}]
    /\ GoTo(t, "closeBackend")
    /\ UNCHANGED <<mainVars, interrupted, userClose, events, ended, conn, lastConn, open,
                   alive, backend, attempt, delay, closeReq, serve, listening, result>>

CloseBackend(t) ==
    /\ pc[t] = "closeBackend"
    /\ CloseConnection(t, conn[t])
    /\ GoTo(t, "closeListener")
    /\ UNCHANGED <<mainVars, interrupted, userClose, events, ended, conn, lastConn,
                   backend, attempt, delay, closeReq, serve, launchers, listening, result>>

\* listener.Close, then done <- result, which the waiter turns into an event.
Finish(t) ==
    /\ pc[t] = "closeListener"
    /\ listening' = [listening EXCEPT ![t] = FALSE]
    /\ events' = events \cup {t}
    /\ GoTo(t, "done")
    /\ UNCHANGED <<mainVars, interrupted, userClose, ended, conn, lastConn, open, alive,
                   backend, attempt, delay, closeReq, serve, launchers, result>>

-----------------------------------------------------------------------------
(***************************************************************************)
(* The environment.                                                        *)
(***************************************************************************)
\* SIGINT or SIGTERM.
Interrupt ==
    /\ mainPc # "exited"
    /\ ~interrupted
    /\ interrupted' = TRUE
    /\ UNCHANGED <<mainVars, userClose, events, pc, sessionVars>>

\* closeSession: a browser posts the close of one session, once.
RequestClose(t) ==
    /\ serve[t] = "serving"
    /\ closeReq[t] = "none"
    /\ closeReq' = [closeReq EXCEPT ![t] = "queued"]
    /\ UNCHANGED <<mainVars, interrupted, userClose, events, pc, ended, conn, lastConn,
                   open, alive, backend, attempt, delay, serve, launchers, listening, result>>

\* A transport fails, or its subprocess is killed with the context.
DropLink(t) ==
    /\ \E c \in alive[t] : alive' = [alive EXCEPT ![t] = @ \ {c}]
    /\ UNCHANGED <<mainVars, interrupted, userClose, events, pc, ended, conn, lastConn, open,
                   backend, attempt, delay, closeReq, serve, launchers, listening, result>>

\* The session context's deadline passes.
Expire(t) ==
    /\ t \in Timed
    /\ pc[t] \in StartupPcs \cup SupervisorPcs
    /\ ended[t] = "no"
    /\ ended' = [ended EXCEPT ![t] = "expired"]
    /\ UNCHANGED <<mainVars, interrupted, userClose, events, pc, conn, lastConn, open, alive,
                   backend, attempt, delay, closeReq, serve, launchers, listening, result>>

\* server.Serve returns with an error of its own.
ServeFails(t) ==
    /\ serve[t] = "serving"
    /\ serve' = [serve EXCEPT ![t] = "failed"]
    /\ UNCHANGED <<mainVars, interrupted, userClose, events, pc, ended, conn, lastConn, open,
                   alive, backend, attempt, delay, closeReq, launchers, listening, result>>

-----------------------------------------------------------------------------
Startup(t) ==
    \/ TargetRejected(t) \/ BeginSession(t)
    \/ Dial(t) \/ ProbeRoot(t) \/ StartFails(t) \/ SessionStarted(t)

Main == LeaveStartLoop \/ CancelAll \/ Return
        \/ \E t \in Targets : Startup(t) \/ ReceiveEvent(t)

Select(t) ==
    \/ SelectContextDone(t) \/ SelectUserClose(t) \/ SelectLinkLostEnds(t)
    \/ SetDisconnected(t) \/ SelectServeError(t)

ReconnectSSH(t) ==
    \/ CloseDropped(t) \/ BackoffElapsed(t) \/ Redial(t) \/ RedialFails(t)
    \/ RestatFails(t) \/ SetBackend(t) \/ Reattached(t)

Teardown(t) ==
    \/ Cancel(t) \/ ShutdownServer(t) \/ CloseJupyter(t) \/ CloseTensorBoard(t)
    \/ CloseBackend(t) \/ Finish(t)

Supervise(t) == Select(t) \/ ReconnectSSH(t) \/ Teardown(t)

Environment ==
    Interrupt \/ \E t \in Targets : RequestClose(t) \/ DropLink(t) \/ Expire(t) \/ ServeFails(t)

Next == Main \/ Environment \/ \E t \in Targets : Supervise(t)

\* Every goroutine that can run does: dials, probes, the reattach and the
\* closes of a launcher are bounded by timeouts, back-offs by timers.  The
\* user, the network and the signals owe nothing.
Fairness == WF_vars(Main) /\ \A t \in Targets : WF_vars(Supervise(t))

Spec == Init /\ [][Next]_vars
FairSpec == Spec /\ Fairness

-----------------------------------------------------------------------------
(***************************************************************************)
(* Properties.                                                             *)
(***************************************************************************)
TypeOK ==
    /\ mainPc \in {"starting", "waiting", "draining", "exited"}
    /\ cursor \in 1..(NTargets + 1)
    /\ active \subseteq Targets
    /\ failed \subseteq Targets
    /\ interrupted \in BOOLEAN
    /\ userClose \in {0} \cup Targets
    /\ events \subseteq Targets
    /\ pc \in [Targets -> StartupPcs \cup SupervisorPcs \cup OverPcs]
    /\ ended \in [Targets -> {"no", "canceled", "expired"}]
    /\ conn \in [Targets -> 0..MaxConns]
    /\ lastConn \in [Targets -> 0..MaxConns]
    /\ open \in [Targets -> SUBSET (1..MaxConns)]
    /\ alive \in [Targets -> SUBSET (1..MaxConns)]
    /\ backend \in [Targets -> 0..MaxConns]
    /\ attempt \in [Targets -> 0..MaxAttempts]
    /\ delay \in [Targets -> 0..MaxDelay]
    /\ closeReq \in [Targets -> {"none", "queued", "taken"}]
    /\ serve \in [Targets -> {"off", "serving", "failed", "shut"}]
    /\ launchers \in [Targets -> SUBSET Launchers]
    /\ listening \in [Targets -> BOOLEAN]
    /\ result \in [Targets -> {"none", "ok", "error"}]

\* Everything a session holds outside the process.
Released(t) == open[t] = {} /\ launchers[t] = {} /\ ~listening[t]

\* When runSessions returns, no target has an SSH subprocess, a launcher or a
\* listener left, whatever way each of the sessions ended: refused, failed in
\* the middle of startSession, cancelled during a reconnect, or closed.
ExitClean == mainPc = "exited" => \A t \in Targets : Released(t)

\* A session never holds two SSH subprocesses: a reconnect closes the lost
\* connection before it dials, and closes what it dialled and then refused.
OneConnection == \A t \in Targets : \A c, d \in open[t] : c = d

\* The app never serves requests from a connection the supervisor has closed
\* itself, until the teardown is past the HTTP server.
ServesOpenConnection ==
    \A t \in Targets :
        serve[t] \in {"serving", "failed"} /\ backend[t] # 0 => backend[t] \in open[t]

\* Whatever fails while a session reconnects, it holds the one connection it
\* serves requests from.
ServesItsConnection == OneConnection /\ ServesOpenConnection

\* The error the process returns joins those of all targets: a start that
\* failed and a session that ended in error are in it, also when the session
\* ended while all of them were being cancelled.
ErrorsSurvive ==
    mainPc = "exited" =>
        \A t \in Targets : pc[t] = "failed" \/ result[t] = "error" => t \in failed

\* The process returns when everything is released, with every error.
ExitComplete == ExitClean /\ ErrorsSurvive

\* Ctrl-C, or a user close that a supervisor has seen, ends the process and
\* all its sessions, wherever each of them is.
ProcessEnds == interrupted \/ userClose # 0 ~> mainPc = "exited"

\* A session ends when its duration has passed, and when a browser closes it:
\* it may be between two attempts to reconnect.
SessionEnds ==
    \A t \in Targets : closeReq[t] = "queued" \/ ended[t] = "expired" ~> pc[t] \in OverPcs

\* Both: whoever was told to end does, wherever it was.
EndsWhenTold == ProcessEnds /\ SessionEnds
=============================================================================
