--------------------------- MODULE Session_proofs ---------------------------
(***************************************************************************)
(* Proofs about module Session, for every number and kind of targets and   *)
(* every reconnect policy.                                                 *)
(***************************************************************************)
EXTENDS Session, TLAPS

(***************************************************************************)
(* The inductive invariant.                                                *)
(***************************************************************************)
\* runSessions is inside startSession for the target its cursor is at, every
\* running supervisor is in active, and only ended ones have sent an event.
MainInv ==
    /\ \A t \in Targets : pc[t] \in StartupPcs => mainPc = "starting" /\ cursor = t
    /\ \A t \in Targets : pc[t] \in SupervisorPcs => t \in active
    /\ \A t \in events : t \in active /\ pc[t] = "done"
    /\ mainPc = "exited" => active = {}

\* Which subprocess may be there at each place of a session.
OpenInv(t) ==
    /\ alive[t] \subseteq open[t]
    /\ pc[t] \in {"dialing", "backoff", "redial", "closeListener"} \cup OverPcs => open[t] = {}
    /\ pc[t] \in {"probing", "building", "select", "dropped", "reattach"}
                     \cup (TeardownPcs \ {"closeListener"}) => open[t] \subseteq {conn[t]}
    /\ pc[t] = "restat" => open[t] \subseteq {lastConn[t]}

\* Which launchers and listeners may be there.
HoldInv(t) ==
    /\ pc[t] \in {"dialing", "probing", "closeBackend", "closeListener"} \cup OverPcs
          => launchers[t] = {}
    /\ pc[t] = "closeTensorBoard" => launchers[t] \subseteq {"tensorboard"}
    /\ pc[t] \in OverPcs => ~listening[t]

\* Where requests are served from.
BackendInv(t) ==
    /\ serve[t] \in {"serving", "failed"} => pc[t] \in SelectPcs \cup {"cancel", "shutdown"}
    /\ pc[t] \in {"dropped", "backoff", "redial", "restat"} => backend[t] = 0
    /\ pc[t] \in {"dialing", "probing"} \cup {"idle"} => backend[t] = 0
    /\ pc[t] \in {"building", "select", "reattach", "cancel", "shutdown"} /\ backend[t] # 0
          => backend[t] \in open[t]

SessionInv == \A t \in Targets : OpenInv(t) /\ HoldInv(t) /\ BackendInv(t)

\* An error is in sessionErrors, or its session still has to be heard of.
ErrorInv ==
    \A t \in Targets :
        /\ pc[t] = "failed" => t \in failed
        /\ result[t] = "error" => t \in failed \/ t \in active

IInv == TypeOK /\ MainInv /\ SessionInv /\ ErrorInv

LEMMA NextBackoffRange ==
    ASSUME NEW previous \in 0..MaxDelay
    PROVE  NextBackoff(previous) \in 0..MaxDelay
BY SessionAssumption DEF NextBackoff

LEMMA PcMoves ==
    ASSUME TypeOK, NEW t \in Targets,
           \E place \in OverPcs : pc' = [pc EXCEPT ![t] = place]
    PROVE  pc' \in [Targets -> StartupPcs \cup SupervisorPcs \cup OverPcs]
BY DEF TypeOK

LEMMA ConnNumber ==
    ASSUME NEW c \in 0..MaxConns, c < MaxConns
    PROVE  c + 1 \in 0..MaxConns /\ c + 1 \in 1..MaxConns
BY SessionAssumption

\* The end of a reconnect leaves its locals at zero.
LEMMA LeaveReconnectType ==
    ASSUME TypeOK, NEW t \in Targets, LeaveReconnect(t)
    PROVE  attempt' \in [Targets -> 0..MaxAttempts] /\ delay' \in [Targets -> 0..MaxDelay]
<1>1. 0 \in 0..MaxAttempts /\ 0 \in 0..MaxDelay
  BY SessionAssumption
<1>2. QED
  BY <1>1 DEF LeaveReconnect, TypeOK

\* What a failed reconnect attempt may do to the variables it changes.
LEMMA AttemptFailedType ==
    ASSUME TypeOK, NEW t \in Targets, AttemptFailed(t)
    PROVE  /\ pc' \in [Targets -> StartupPcs \cup SupervisorPcs \cup OverPcs]
           /\ attempt' \in [Targets -> 0..MaxAttempts]
           /\ delay' \in [Targets -> 0..MaxDelay]
           /\ result' \in [Targets -> {"none", "ok", "error"}]
<1> USE SessionAssumption DEF TypeOK, GoTo, NoteResult, StartupPcs, SupervisorPcs, SelectPcs,
        TeardownPcs, OverPcs
<1>1. CASE CtxDone(t)
  BY <1>1, LeaveReconnectType DEF AttemptFailed
<1>2. CASE ~CtxDone(t) /\ attempt[t] < MaxAttempts
  <2>1. attempt[t] + 1 \in 0..MaxAttempts
    BY <1>2
  <2>2. NextBackoff(delay[t]) \in 0..MaxDelay
    BY NextBackoffRange
  <2>3. QED
    BY <1>2, <2>1, <2>2 DEF AttemptFailed
<1>3. CASE ~CtxDone(t) /\ ~(attempt[t] < MaxAttempts)
  BY <1>3, LeaveReconnectType DEF AttemptFailed
<1>4. QED
  BY <1>1, <1>2, <1>3

LEMMA InitIInv == Init => IInv
<1> SUFFICES ASSUME Init PROVE IInv
  OBVIOUS
<1> USE SessionAssumption DEF Init, Targets, StartupPcs, SupervisorPcs, SelectPcs,
        TeardownPcs, OverPcs
<1>1. TypeOK
  <2>1. 1 \in 1..(NTargets + 1) /\ 0 \in 0..MaxConns /\ 0 \in 0..MaxAttempts
           /\ 0 \in 0..MaxDelay
    OBVIOUS
  <2>2. QED
    BY <2>1 DEF TypeOK
<1>2. MainInv
  BY DEF MainInv
<1>3. SessionInv
  BY DEF SessionInv, OpenInv, HoldInv, BackendInv
<1>4. ErrorInv
  BY DEF ErrorInv
<1>5. QED
  BY <1>1, <1>2, <1>3, <1>4 DEF IInv

LEMMA TypeStep == TypeOK /\ MainInv /\ [Next]_vars => TypeOK'
<1> SUFFICES ASSUME TypeOK /\ MainInv, [Next]_vars PROVE TypeOK'
  OBVIOUS
<1> USE SessionAssumption DEF TypeOK, MainInv, Targets, StartupPcs, SupervisorPcs, SelectPcs, TeardownPcs, OverPcs, Launchers, mainVars, sessionVars, GoTo
<1>1. ASSUME NEW t \in Targets, TargetRejected(t) PROVE TypeOK'
  <2>1. cursor' \in 1..(NTargets + 1)
    BY <1>1 DEF TargetRejected, AtTarget
  <2>2. QED
    BY <1>1, <2>1 DEF TargetRejected, AtTarget
<1>2. ASSUME NEW t \in Targets, BeginSession(t) PROVE TypeOK'
  BY <1>2 DEF BeginSession, AtTarget
<1>3. ASSUME NEW t \in Targets, Dial(t) PROVE TypeOK'
  <2>1. 1 \in 0..MaxConns /\ 1 \in 1..MaxConns
    BY <1>3 DEF Dial
  <2>2. lastConn' \in [Targets -> 0..MaxConns]
    BY <1>3, <2>1 DEF Dial
  <2>3. conn' \in [Targets -> 0..MaxConns]
    BY <1>3, <2>1 DEF Dial
  <2>4. open' \in [Targets -> SUBSET (1..MaxConns)]
    BY <1>3, <2>1 DEF Dial
  <2>5. alive' \in [Targets -> SUBSET (1..MaxConns)]
    BY <1>3, <2>1 DEF Dial
  <2>6. QED
    BY <1>3, <2>1, <2>2, <2>3, <2>4, <2>5 DEF Dial
<1>4. ASSUME NEW t \in Targets, ProbeRoot(t) PROVE TypeOK'
  BY <1>4 DEF ProbeRoot
<1>5. ASSUME NEW t \in Targets, StartFails(t) PROVE TypeOK'
  <2>1. cursor' \in 1..(NTargets + 1)
    BY <1>5 DEF StartFails
  <2>2. open' \in [Targets -> SUBSET (1..MaxConns)]
    BY <1>5 DEF StartFails
  <2>3. alive' \in [Targets -> SUBSET (1..MaxConns)]
    BY <1>5 DEF StartFails
  <2>4. launchers' \in [Targets -> SUBSET {"jupyter", "tensorboard"}]
    BY <1>5 DEF StartFails
  <2>5. ended' \in [Targets -> {"no", "canceled", "expired"}]
    BY <1>5 DEF StartFails
  <2>6. pc' \in [Targets -> StartupPcs \cup SupervisorPcs \cup OverPcs]
    <3>1. \/ pc' = [pc EXCEPT ![t] = "ended"]
          \/ pc' = [pc EXCEPT ![t] = "failed"]
      BY <1>5 DEF StartFails
    <3>2. QED
      BY <3>1, PcMoves
  <2>7. failed' = failed \/ failed' = failed \cup {t}
    BY <1>5 DEF StartFails
  <2>8. QED
    BY <1>5, <2>1, <2>2, <2>3, <2>4, <2>5, <2>6, <2>7 DEF StartFails
<1>6. ASSUME NEW t \in Targets, SessionStarted(t) PROVE TypeOK'
  <2>1. cursor' \in 1..(NTargets + 1)
    BY <1>6 DEF SessionStarted
  <2>2. serve' \in [Targets -> {"off", "serving", "failed", "shut"}]
    BY <1>6 DEF SessionStarted
  <2>3. QED
    BY <1>6, <2>1, <2>2 DEF SessionStarted
<1>7. ASSUME NEW t \in Targets, ReceiveEvent(t) PROVE TypeOK'
  BY <1>7 DEF ReceiveEvent
<1>8. ASSUME NEW t \in Targets, RequestClose(t) PROVE TypeOK'
  BY <1>8 DEF RequestClose
<1>9. ASSUME NEW t \in Targets, DropLink(t) PROVE TypeOK'
  <2>1. PICK c \in alive[t] : alive' = [alive EXCEPT ![t] = @ \ {c}]
    BY <1>9 DEF DropLink
  <2>2. alive' \in [Targets -> SUBSET (1..MaxConns)]
    BY <2>1
  <2>3. QED
    BY <1>9, <2>2 DEF DropLink
<1>10. ASSUME NEW t \in Targets, Expire(t) PROVE TypeOK'
  BY <1>10 DEF Expire
<1>11. ASSUME NEW t \in Targets, ServeFails(t) PROVE TypeOK'
  BY <1>11 DEF ServeFails
<1>12. ASSUME NEW t \in Targets, SelectContextDone(t) PROVE TypeOK'
  BY <1>12, LeaveReconnectType DEF SelectContextDone
<1>13. ASSUME NEW t \in Targets, SelectUserClose(t) PROVE TypeOK'
  BY <1>13, LeaveReconnectType DEF SelectUserClose
<1>14. ASSUME NEW t \in Targets, SelectLinkLostEnds(t) PROVE TypeOK'
  BY <1>14 DEF SelectLinkLostEnds, NoteResult
<1>15. ASSUME NEW t \in Targets, SetDisconnected(t) PROVE TypeOK'
  <2>1. 0 \in 0..MaxConns
    BY <1>15 DEF SetDisconnected
  <2>2. backend' \in [Targets -> 0..MaxConns]
    BY <1>15, <2>1 DEF SetDisconnected
  <2>3. QED
    BY <1>15, <2>1, <2>2 DEF SetDisconnected
<1>16. ASSUME NEW t \in Targets, SelectServeError(t) PROVE TypeOK'
  BY <1>16 DEF SelectServeError, NoteResult
<1>17. ASSUME NEW t \in Targets, CloseDropped(t) PROVE TypeOK'
  <2>1. 1 \in 0..MaxAttempts /\ 0 \in 0..MaxDelay
    BY <1>17, NextBackoffRange DEF CloseDropped, CloseConnection
  <2>2. open' \in [Targets -> SUBSET (1..MaxConns)]
    BY <1>17, <2>1, NextBackoffRange DEF CloseDropped, CloseConnection
  <2>3. alive' \in [Targets -> SUBSET (1..MaxConns)]
    BY <1>17, <2>1, NextBackoffRange DEF CloseDropped, CloseConnection
  <2>4. attempt' \in [Targets -> 0..MaxAttempts]
    BY <1>17, <2>1, NextBackoffRange DEF CloseDropped, CloseConnection
  <2>5. delay' \in [Targets -> 0..MaxDelay]
    BY <1>17, <2>1, NextBackoffRange DEF CloseDropped, CloseConnection
  <2>6. QED
    BY <1>17, <2>1, <2>2, <2>3, <2>4, <2>5 DEF CloseDropped, CloseConnection
<1>18. ASSUME NEW t \in Targets, BackoffElapsed(t) PROVE TypeOK'
  BY <1>18 DEF BackoffElapsed
<1>19. ASSUME NEW t \in Targets, Redial(t) PROVE TypeOK'
  <2>1. lastConn[t] + 1 \in 0..MaxConns /\ lastConn[t] + 1 \in 1..MaxConns
    BY <1>19, ConnNumber DEF Redial
  <2>2. lastConn' \in [Targets -> 0..MaxConns]
    BY <1>19, <2>1 DEF Redial
  <2>3. open' \in [Targets -> SUBSET (1..MaxConns)]
    BY <1>19, <2>1 DEF Redial
  <2>4. alive' \in [Targets -> SUBSET (1..MaxConns)]
    BY <1>19, <2>1 DEF Redial
  <2>5. QED
    BY <1>19, <2>1, <2>2, <2>3, <2>4 DEF Redial
<1>20. ASSUME NEW t \in Targets, RedialFails(t) PROVE TypeOK'
  <2>1. AttemptFailed(t)
    BY <1>20 DEF RedialFails
  <2>2. UNCHANGED <<mainVars, interrupted, userClose, events, ended, conn, lastConn, backend,
                    closeReq, serve, launchers, listening, open, alive>>
    BY <1>20 DEF RedialFails, AttemptFailed
  <2>3. QED
    BY <2>1, <2>2, AttemptFailedType
<1>21. ASSUME NEW t \in Targets, RestatFails(t) PROVE TypeOK'
  <2>1. AttemptFailed(t)
    BY <1>21 DEF RestatFails
  <2>2. UNCHANGED <<mainVars, interrupted, userClose, events, ended, conn, lastConn, backend,
                    closeReq, serve, launchers, listening>>
    BY <1>21 DEF RestatFails, AttemptFailed
  <2>3. open' \in [Targets -> SUBSET (1..MaxConns)]
    BY <1>21 DEF RestatFails, CloseConnection
  <2>4. alive' \in [Targets -> SUBSET (1..MaxConns)]
    BY <1>21 DEF RestatFails, CloseConnection
  <2>5. QED
    BY <2>1, <2>2, <2>3, <2>4, AttemptFailedType
<1>22. ASSUME NEW t \in Targets, SetBackend(t) PROVE TypeOK'
  BY <1>22, LeaveReconnectType DEF SetBackend
<1>23. ASSUME NEW t \in Targets, Reattached(t) PROVE TypeOK'
  BY <1>23 DEF Reattached
<1>24. ASSUME NEW t \in Targets, Cancel(t) PROVE TypeOK'
  BY <1>24 DEF Cancel
<1>25. ASSUME NEW t \in Targets, ShutdownServer(t) PROVE TypeOK'
  <2>1. serve' \in [Targets -> {"off", "serving", "failed", "shut"}]
    BY <1>25 DEF ShutdownServer, NoteResult
  <2>2. result' \in [Targets -> {"none", "ok", "error"}]
    BY <1>25 DEF ShutdownServer, NoteResult
  <2>3. QED
    BY <1>25, <2>1, <2>2 DEF ShutdownServer, NoteResult
<1>26. ASSUME NEW t \in Targets, CloseJupyter(t) PROVE TypeOK'
  BY <1>26 DEF CloseJupyter
<1>27. ASSUME NEW t \in Targets, CloseTensorBoard(t) PROVE TypeOK'
  BY <1>27 DEF CloseTensorBoard
<1>28. ASSUME NEW t \in Targets, CloseBackend(t) PROVE TypeOK'
  BY <1>28 DEF CloseBackend, CloseConnection
<1>29. ASSUME NEW t \in Targets, Finish(t) PROVE TypeOK'
  BY <1>29 DEF Finish
<1>30. CASE LeaveStartLoop
  BY <1>30 DEF LeaveStartLoop
<1>31. CASE CancelAll
  BY <1>31 DEF CancelAll
<1>32. CASE Return
  BY <1>32 DEF Return
<1>33. CASE Interrupt
  BY <1>33 DEF Interrupt
<1>34. CASE UNCHANGED vars
  BY <1>34 DEF vars
<1>35. QED
  BY <1>1, <1>2, <1>3, <1>4, <1>5, <1>6, <1>7, <1>8, <1>9, <1>10, <1>11, <1>12, <1>13, <1>14, <1>15, <1>16, <1>17, <1>18, <1>19, <1>20, <1>21, <1>22, <1>23, <1>24, <1>25, <1>26, <1>27, <1>28, <1>29, <1>30, <1>31, <1>32, <1>33, <1>34
  DEF Next, Main, Startup, Environment, Supervise, Select, ReconnectSSH, Teardown

LEMMA MainStep == TypeOK /\ MainInv /\ [Next]_vars => MainInv'
<1> SUFFICES ASSUME TypeOK /\ MainInv, [Next]_vars PROVE MainInv'
  OBVIOUS
<1> USE SessionAssumption DEF TypeOK, MainInv, StartupPcs, SupervisorPcs, SelectPcs, TeardownPcs, OverPcs, mainVars, sessionVars, GoTo
<1>1. ASSUME NEW t \in Targets, TargetRejected(t) PROVE MainInv'
  BY <1>1 DEF TargetRejected, AtTarget
<1>2. ASSUME NEW t \in Targets, BeginSession(t) PROVE MainInv'
  BY <1>2 DEF BeginSession, AtTarget
<1>3. ASSUME NEW t \in Targets, Dial(t) PROVE MainInv'
  BY <1>3 DEF Dial
<1>4. ASSUME NEW t \in Targets, ProbeRoot(t) PROVE MainInv'
  BY <1>4 DEF ProbeRoot
<1>5. ASSUME NEW t \in Targets, StartFails(t) PROVE MainInv'
  <2>1. \A u \in Targets : u # t => pc'[u] = pc[u] /\ pc[u] \notin StartupPcs
    BY <1>5 DEF StartFails
  <2>2. pc'[t] \in {"ended", "failed"}
    BY <1>5 DEF StartFails
  <2>3. QED
    BY <1>5, <2>1, <2>2 DEF StartFails
<1>6. ASSUME NEW t \in Targets, SessionStarted(t) PROVE MainInv'
  BY <1>6 DEF SessionStarted
<1>7. ASSUME NEW t \in Targets, ReceiveEvent(t) PROVE MainInv'
  BY <1>7 DEF ReceiveEvent
<1>8. ASSUME NEW t \in Targets, RequestClose(t) PROVE MainInv'
  BY <1>8 DEF RequestClose
<1>9. ASSUME NEW t \in Targets, DropLink(t) PROVE MainInv'
  BY <1>9 DEF DropLink
<1>10. ASSUME NEW t \in Targets, Expire(t) PROVE MainInv'
  BY <1>10 DEF Expire
<1>11. ASSUME NEW t \in Targets, ServeFails(t) PROVE MainInv'
  BY <1>11 DEF ServeFails
<1>12. ASSUME NEW t \in Targets, SelectContextDone(t) PROVE MainInv'
  BY <1>12 DEF SelectContextDone, LeaveReconnect
<1>13. ASSUME NEW t \in Targets, SelectUserClose(t) PROVE MainInv'
  BY <1>13 DEF SelectUserClose, LeaveReconnect
<1>14. ASSUME NEW t \in Targets, SelectLinkLostEnds(t) PROVE MainInv'
  BY <1>14 DEF SelectLinkLostEnds, NoteResult
<1>15. ASSUME NEW t \in Targets, SetDisconnected(t) PROVE MainInv'
  BY <1>15 DEF SetDisconnected
<1>16. ASSUME NEW t \in Targets, SelectServeError(t) PROVE MainInv'
  BY <1>16 DEF SelectServeError, NoteResult
<1>17. ASSUME NEW t \in Targets, CloseDropped(t) PROVE MainInv'
  BY <1>17 DEF CloseDropped, CloseConnection
<1>18. ASSUME NEW t \in Targets, BackoffElapsed(t) PROVE MainInv'
  BY <1>18 DEF BackoffElapsed
<1>19. ASSUME NEW t \in Targets, Redial(t) PROVE MainInv'
  BY <1>19 DEF Redial
<1>20. ASSUME NEW t \in Targets, RedialFails(t) PROVE MainInv'
  BY <1>20 DEF RedialFails, AttemptFailed, LeaveReconnect, NoteResult
<1>21. ASSUME NEW t \in Targets, RestatFails(t) PROVE MainInv'
  BY <1>21 DEF RestatFails, AttemptFailed, LeaveReconnect, NoteResult, CloseConnection
<1>22. ASSUME NEW t \in Targets, SetBackend(t) PROVE MainInv'
  BY <1>22 DEF SetBackend, LeaveReconnect
<1>23. ASSUME NEW t \in Targets, Reattached(t) PROVE MainInv'
  BY <1>23 DEF Reattached
<1>24. ASSUME NEW t \in Targets, Cancel(t) PROVE MainInv'
  BY <1>24 DEF Cancel
<1>25. ASSUME NEW t \in Targets, ShutdownServer(t) PROVE MainInv'
  BY <1>25 DEF ShutdownServer, NoteResult
<1>26. ASSUME NEW t \in Targets, CloseJupyter(t) PROVE MainInv'
  BY <1>26 DEF CloseJupyter
<1>27. ASSUME NEW t \in Targets, CloseTensorBoard(t) PROVE MainInv'
  BY <1>27 DEF CloseTensorBoard
<1>28. ASSUME NEW t \in Targets, CloseBackend(t) PROVE MainInv'
  BY <1>28 DEF CloseBackend, CloseConnection
<1>29. ASSUME NEW t \in Targets, Finish(t) PROVE MainInv'
  BY <1>29 DEF Finish
<1>30. CASE LeaveStartLoop
  BY <1>30 DEF LeaveStartLoop
<1>31. CASE CancelAll
  BY <1>31 DEF CancelAll
<1>32. CASE Return
  BY <1>32 DEF Return
<1>33. CASE Interrupt
  BY <1>33 DEF Interrupt
<1>34. CASE UNCHANGED vars
  BY <1>34 DEF vars
<1>35. QED
  BY <1>1, <1>2, <1>3, <1>4, <1>5, <1>6, <1>7, <1>8, <1>9, <1>10, <1>11, <1>12, <1>13, <1>14, <1>15, <1>16, <1>17, <1>18, <1>19, <1>20, <1>21, <1>22, <1>23, <1>24, <1>25, <1>26, <1>27, <1>28, <1>29, <1>30, <1>31, <1>32, <1>33, <1>34
  DEF Next, Main, Startup, Environment, Supervise, Select, ReconnectSSH, Teardown

LEMMA HoldStep == TypeOK /\ (\A u \in Targets : HoldInv(u)) /\ [Next]_vars => (\A u \in Targets : HoldInv(u))'
<1> SUFFICES ASSUME TypeOK /\ (\A u \in Targets : HoldInv(u)), [Next]_vars PROVE (\A u \in Targets : HoldInv(u))'
  OBVIOUS
<1> USE SessionAssumption DEF TypeOK, HoldInv, Launchers, StartupPcs, SupervisorPcs, SelectPcs, TeardownPcs, OverPcs, mainVars, sessionVars, GoTo
<1>1. ASSUME NEW t \in Targets, TargetRejected(t) PROVE (\A u \in Targets : HoldInv(u))'
  BY <1>1 DEF TargetRejected, AtTarget
<1>2. ASSUME NEW t \in Targets, BeginSession(t) PROVE (\A u \in Targets : HoldInv(u))'
  BY <1>2 DEF BeginSession, AtTarget
<1>3. ASSUME NEW t \in Targets, Dial(t) PROVE (\A u \in Targets : HoldInv(u))'
  BY <1>3 DEF Dial
<1>4. ASSUME NEW t \in Targets, ProbeRoot(t) PROVE (\A u \in Targets : HoldInv(u))'
  BY <1>4 DEF ProbeRoot
<1>5. ASSUME NEW t \in Targets, StartFails(t) PROVE (\A u \in Targets : HoldInv(u))'
  BY <1>5 DEF StartFails
<1>6. ASSUME NEW t \in Targets, SessionStarted(t) PROVE (\A u \in Targets : HoldInv(u))'
  BY <1>6 DEF SessionStarted
<1>7. ASSUME NEW t \in Targets, ReceiveEvent(t) PROVE (\A u \in Targets : HoldInv(u))'
  BY <1>7 DEF ReceiveEvent
<1>8. ASSUME NEW t \in Targets, RequestClose(t) PROVE (\A u \in Targets : HoldInv(u))'
  BY <1>8 DEF RequestClose
<1>9. ASSUME NEW t \in Targets, DropLink(t) PROVE (\A u \in Targets : HoldInv(u))'
  BY <1>9 DEF DropLink
<1>10. ASSUME NEW t \in Targets, Expire(t) PROVE (\A u \in Targets : HoldInv(u))'
  BY <1>10 DEF Expire
<1>11. ASSUME NEW t \in Targets, ServeFails(t) PROVE (\A u \in Targets : HoldInv(u))'
  BY <1>11 DEF ServeFails
<1>12. ASSUME NEW t \in Targets, SelectContextDone(t) PROVE (\A u \in Targets : HoldInv(u))'
  BY <1>12 DEF SelectContextDone, LeaveReconnect
<1>13. ASSUME NEW t \in Targets, SelectUserClose(t) PROVE (\A u \in Targets : HoldInv(u))'
  BY <1>13 DEF SelectUserClose, LeaveReconnect
<1>14. ASSUME NEW t \in Targets, SelectLinkLostEnds(t) PROVE (\A u \in Targets : HoldInv(u))'
  BY <1>14 DEF SelectLinkLostEnds, NoteResult
<1>15. ASSUME NEW t \in Targets, SetDisconnected(t) PROVE (\A u \in Targets : HoldInv(u))'
  BY <1>15 DEF SetDisconnected
<1>16. ASSUME NEW t \in Targets, SelectServeError(t) PROVE (\A u \in Targets : HoldInv(u))'
  BY <1>16 DEF SelectServeError, NoteResult
<1>17. ASSUME NEW t \in Targets, CloseDropped(t) PROVE (\A u \in Targets : HoldInv(u))'
  BY <1>17 DEF CloseDropped, CloseConnection
<1>18. ASSUME NEW t \in Targets, BackoffElapsed(t) PROVE (\A u \in Targets : HoldInv(u))'
  BY <1>18 DEF BackoffElapsed
<1>19. ASSUME NEW t \in Targets, Redial(t) PROVE (\A u \in Targets : HoldInv(u))'
  BY <1>19 DEF Redial
<1>20. ASSUME NEW t \in Targets, RedialFails(t) PROVE (\A u \in Targets : HoldInv(u))'
  BY <1>20 DEF RedialFails, AttemptFailed, LeaveReconnect, NoteResult
<1>21. ASSUME NEW t \in Targets, RestatFails(t) PROVE (\A u \in Targets : HoldInv(u))'
  BY <1>21 DEF RestatFails, AttemptFailed, LeaveReconnect, NoteResult, CloseConnection
<1>22. ASSUME NEW t \in Targets, SetBackend(t) PROVE (\A u \in Targets : HoldInv(u))'
  BY <1>22 DEF SetBackend, LeaveReconnect
<1>23. ASSUME NEW t \in Targets, Reattached(t) PROVE (\A u \in Targets : HoldInv(u))'
  BY <1>23 DEF Reattached
<1>24. ASSUME NEW t \in Targets, Cancel(t) PROVE (\A u \in Targets : HoldInv(u))'
  BY <1>24 DEF Cancel
<1>25. ASSUME NEW t \in Targets, ShutdownServer(t) PROVE (\A u \in Targets : HoldInv(u))'
  BY <1>25 DEF ShutdownServer, NoteResult
<1>26. ASSUME NEW t \in Targets, CloseJupyter(t) PROVE (\A u \in Targets : HoldInv(u))'
  BY <1>26 DEF CloseJupyter
<1>27. ASSUME NEW t \in Targets, CloseTensorBoard(t) PROVE (\A u \in Targets : HoldInv(u))'
  BY <1>27 DEF CloseTensorBoard
<1>28. ASSUME NEW t \in Targets, CloseBackend(t) PROVE (\A u \in Targets : HoldInv(u))'
  BY <1>28 DEF CloseBackend, CloseConnection
<1>29. ASSUME NEW t \in Targets, Finish(t) PROVE (\A u \in Targets : HoldInv(u))'
  BY <1>29 DEF Finish
<1>30. CASE LeaveStartLoop
  BY <1>30 DEF LeaveStartLoop
<1>31. CASE CancelAll
  BY <1>31 DEF CancelAll
<1>32. CASE Return
  BY <1>32 DEF Return
<1>33. CASE Interrupt
  BY <1>33 DEF Interrupt
<1>34. CASE UNCHANGED vars
  BY <1>34 DEF vars
<1>35. QED
  BY <1>1, <1>2, <1>3, <1>4, <1>5, <1>6, <1>7, <1>8, <1>9, <1>10, <1>11, <1>12, <1>13, <1>14, <1>15, <1>16, <1>17, <1>18, <1>19, <1>20, <1>21, <1>22, <1>23, <1>24, <1>25, <1>26, <1>27, <1>28, <1>29, <1>30, <1>31, <1>32, <1>33, <1>34
  DEF Next, Main, Startup, Environment, Supervise, Select, ReconnectSSH, Teardown

LEMMA BackendStep == TypeOK /\ (\A u \in Targets : OpenInv(u) /\ BackendInv(u)) /\ [Next]_vars => (\A u \in Targets : BackendInv(u))'
<1> SUFFICES ASSUME TypeOK /\ (\A u \in Targets : OpenInv(u) /\ BackendInv(u)), [Next]_vars PROVE (\A u \in Targets : BackendInv(u))'
  OBVIOUS
<1> USE SessionAssumption DEF TypeOK, OpenInv, BackendInv, StartupPcs, SupervisorPcs, SelectPcs, TeardownPcs, OverPcs, mainVars, sessionVars, GoTo
<1>1. ASSUME NEW t \in Targets, TargetRejected(t) PROVE (\A u \in Targets : BackendInv(u))'
  BY <1>1 DEF TargetRejected, AtTarget
<1>2. ASSUME NEW t \in Targets, BeginSession(t) PROVE (\A u \in Targets : BackendInv(u))'
  BY <1>2 DEF BeginSession, AtTarget
<1>3. ASSUME NEW t \in Targets, Dial(t) PROVE (\A u \in Targets : BackendInv(u))'
  BY <1>3 DEF Dial
<1>4. ASSUME NEW t \in Targets, ProbeRoot(t) PROVE (\A u \in Targets : BackendInv(u))'
  BY <1>4 DEF ProbeRoot
<1>5. ASSUME NEW t \in Targets, StartFails(t) PROVE (\A u \in Targets : BackendInv(u))'
  BY <1>5 DEF StartFails
<1>6. ASSUME NEW t \in Targets, SessionStarted(t) PROVE (\A u \in Targets : BackendInv(u))'
  BY <1>6 DEF SessionStarted
<1>7. ASSUME NEW t \in Targets, ReceiveEvent(t) PROVE (\A u \in Targets : BackendInv(u))'
  BY <1>7 DEF ReceiveEvent
<1>8. ASSUME NEW t \in Targets, RequestClose(t) PROVE (\A u \in Targets : BackendInv(u))'
  BY <1>8 DEF RequestClose
<1>9. ASSUME NEW t \in Targets, DropLink(t) PROVE (\A u \in Targets : BackendInv(u))'
  BY <1>9 DEF DropLink
<1>10. ASSUME NEW t \in Targets, Expire(t) PROVE (\A u \in Targets : BackendInv(u))'
  BY <1>10 DEF Expire
<1>11. ASSUME NEW t \in Targets, ServeFails(t) PROVE (\A u \in Targets : BackendInv(u))'
  BY <1>11 DEF ServeFails
<1>12. ASSUME NEW t \in Targets, SelectContextDone(t) PROVE (\A u \in Targets : BackendInv(u))'
  BY <1>12 DEF SelectContextDone, LeaveReconnect
<1>13. ASSUME NEW t \in Targets, SelectUserClose(t) PROVE (\A u \in Targets : BackendInv(u))'
  BY <1>13 DEF SelectUserClose, LeaveReconnect
<1>14. ASSUME NEW t \in Targets, SelectLinkLostEnds(t) PROVE (\A u \in Targets : BackendInv(u))'
  BY <1>14 DEF SelectLinkLostEnds, NoteResult
<1>15. ASSUME NEW t \in Targets, SetDisconnected(t) PROVE (\A u \in Targets : BackendInv(u))'
  BY <1>15 DEF SetDisconnected
<1>16. ASSUME NEW t \in Targets, SelectServeError(t) PROVE (\A u \in Targets : BackendInv(u))'
  BY <1>16 DEF SelectServeError, NoteResult
<1>17. ASSUME NEW t \in Targets, CloseDropped(t) PROVE (\A u \in Targets : BackendInv(u))'
  BY <1>17 DEF CloseDropped, CloseConnection
<1>18. ASSUME NEW t \in Targets, BackoffElapsed(t) PROVE (\A u \in Targets : BackendInv(u))'
  BY <1>18 DEF BackoffElapsed
<1>19. ASSUME NEW t \in Targets, Redial(t) PROVE (\A u \in Targets : BackendInv(u))'
  BY <1>19 DEF Redial
<1>20. ASSUME NEW t \in Targets, RedialFails(t) PROVE (\A u \in Targets : BackendInv(u))'
  BY <1>20 DEF RedialFails, AttemptFailed, LeaveReconnect, NoteResult
<1>21. ASSUME NEW t \in Targets, RestatFails(t) PROVE (\A u \in Targets : BackendInv(u))'
  BY <1>21 DEF RestatFails, AttemptFailed, LeaveReconnect, NoteResult, CloseConnection
<1>22. ASSUME NEW t \in Targets, SetBackend(t) PROVE (\A u \in Targets : BackendInv(u))'
  BY <1>22 DEF SetBackend, LeaveReconnect
<1>23. ASSUME NEW t \in Targets, Reattached(t) PROVE (\A u \in Targets : BackendInv(u))'
  BY <1>23 DEF Reattached
<1>24. ASSUME NEW t \in Targets, Cancel(t) PROVE (\A u \in Targets : BackendInv(u))'
  BY <1>24 DEF Cancel
<1>25. ASSUME NEW t \in Targets, ShutdownServer(t) PROVE (\A u \in Targets : BackendInv(u))'
  BY <1>25 DEF ShutdownServer, NoteResult
<1>26. ASSUME NEW t \in Targets, CloseJupyter(t) PROVE (\A u \in Targets : BackendInv(u))'
  BY <1>26 DEF CloseJupyter
<1>27. ASSUME NEW t \in Targets, CloseTensorBoard(t) PROVE (\A u \in Targets : BackendInv(u))'
  BY <1>27 DEF CloseTensorBoard
<1>28. ASSUME NEW t \in Targets, CloseBackend(t) PROVE (\A u \in Targets : BackendInv(u))'
  BY <1>28 DEF CloseBackend, CloseConnection
<1>29. ASSUME NEW t \in Targets, Finish(t) PROVE (\A u \in Targets : BackendInv(u))'
  BY <1>29 DEF Finish
<1>30. CASE LeaveStartLoop
  BY <1>30 DEF LeaveStartLoop
<1>31. CASE CancelAll
  BY <1>31 DEF CancelAll
<1>32. CASE Return
  BY <1>32 DEF Return
<1>33. CASE Interrupt
  BY <1>33 DEF Interrupt
<1>34. CASE UNCHANGED vars
  BY <1>34 DEF vars
<1>35. QED
  BY <1>1, <1>2, <1>3, <1>4, <1>5, <1>6, <1>7, <1>8, <1>9, <1>10, <1>11, <1>12, <1>13, <1>14, <1>15, <1>16, <1>17, <1>18, <1>19, <1>20, <1>21, <1>22, <1>23, <1>24, <1>25, <1>26, <1>27, <1>28, <1>29, <1>30, <1>31, <1>32, <1>33, <1>34
  DEF Next, Main, Startup, Environment, Supervise, Select, ReconnectSSH, Teardown

LEMMA OpenStep == TypeOK /\ (\A u \in Targets : OpenInv(u)) /\ [Next]_vars => (\A u \in Targets : OpenInv(u))'
<1> SUFFICES ASSUME TypeOK /\ (\A u \in Targets : OpenInv(u)), [Next]_vars PROVE (\A u \in Targets : OpenInv(u))'
  OBVIOUS
<1> USE SessionAssumption DEF TypeOK, OpenInv, StartupPcs, SupervisorPcs, SelectPcs, TeardownPcs, OverPcs, mainVars, sessionVars, GoTo
<1>1. ASSUME NEW t \in Targets, TargetRejected(t) PROVE (\A u \in Targets : OpenInv(u))'
  BY <1>1 DEF TargetRejected, AtTarget
<1>2. ASSUME NEW t \in Targets, BeginSession(t) PROVE (\A u \in Targets : OpenInv(u))'
  BY <1>2 DEF BeginSession, AtTarget
<1>3. ASSUME NEW t \in Targets, Dial(t) PROVE (\A u \in Targets : OpenInv(u))'
  BY <1>3 DEF Dial
<1>4. ASSUME NEW t \in Targets, ProbeRoot(t) PROVE (\A u \in Targets : OpenInv(u))'
  BY <1>4 DEF ProbeRoot
<1>5. ASSUME NEW t \in Targets, StartFails(t) PROVE (\A u \in Targets : OpenInv(u))'
  BY <1>5 DEF StartFails
<1>6. ASSUME NEW t \in Targets, SessionStarted(t) PROVE (\A u \in Targets : OpenInv(u))'
  BY <1>6 DEF SessionStarted
<1>7. ASSUME NEW t \in Targets, ReceiveEvent(t) PROVE (\A u \in Targets : OpenInv(u))'
  BY <1>7 DEF ReceiveEvent
<1>8. ASSUME NEW t \in Targets, RequestClose(t) PROVE (\A u \in Targets : OpenInv(u))'
  BY <1>8 DEF RequestClose
<1>9. ASSUME NEW t \in Targets, DropLink(t) PROVE (\A u \in Targets : OpenInv(u))'
  BY <1>9 DEF DropLink
<1>10. ASSUME NEW t \in Targets, Expire(t) PROVE (\A u \in Targets : OpenInv(u))'
  BY <1>10 DEF Expire
<1>11. ASSUME NEW t \in Targets, ServeFails(t) PROVE (\A u \in Targets : OpenInv(u))'
  BY <1>11 DEF ServeFails
<1>12. ASSUME NEW t \in Targets, SelectContextDone(t) PROVE (\A u \in Targets : OpenInv(u))'
  BY <1>12 DEF SelectContextDone, LeaveReconnect
<1>13. ASSUME NEW t \in Targets, SelectUserClose(t) PROVE (\A u \in Targets : OpenInv(u))'
  BY <1>13 DEF SelectUserClose, LeaveReconnect
<1>14. ASSUME NEW t \in Targets, SelectLinkLostEnds(t) PROVE (\A u \in Targets : OpenInv(u))'
  BY <1>14 DEF SelectLinkLostEnds, NoteResult
<1>15. ASSUME NEW t \in Targets, SetDisconnected(t) PROVE (\A u \in Targets : OpenInv(u))'
  BY <1>15 DEF SetDisconnected
<1>16. ASSUME NEW t \in Targets, SelectServeError(t) PROVE (\A u \in Targets : OpenInv(u))'
  BY <1>16 DEF SelectServeError, NoteResult
<1>17. ASSUME NEW t \in Targets, CloseDropped(t) PROVE (\A u \in Targets : OpenInv(u))'
  BY <1>17 DEF CloseDropped, CloseConnection
<1>18. ASSUME NEW t \in Targets, BackoffElapsed(t) PROVE (\A u \in Targets : OpenInv(u))'
  BY <1>18 DEF BackoffElapsed
<1>19. ASSUME NEW t \in Targets, Redial(t) PROVE (\A u \in Targets : OpenInv(u))'
  BY <1>19 DEF Redial
<1>20. ASSUME NEW t \in Targets, RedialFails(t) PROVE (\A u \in Targets : OpenInv(u))'
  BY <1>20 DEF RedialFails, AttemptFailed, LeaveReconnect, NoteResult
<1>21. ASSUME NEW t \in Targets, RestatFails(t) PROVE (\A u \in Targets : OpenInv(u))'
  BY <1>21 DEF RestatFails, AttemptFailed, LeaveReconnect, NoteResult, CloseConnection
<1>22. ASSUME NEW t \in Targets, SetBackend(t) PROVE (\A u \in Targets : OpenInv(u))'
  BY <1>22 DEF SetBackend, LeaveReconnect
<1>23. ASSUME NEW t \in Targets, Reattached(t) PROVE (\A u \in Targets : OpenInv(u))'
  BY <1>23 DEF Reattached
<1>24. ASSUME NEW t \in Targets, Cancel(t) PROVE (\A u \in Targets : OpenInv(u))'
  BY <1>24 DEF Cancel
<1>25. ASSUME NEW t \in Targets, ShutdownServer(t) PROVE (\A u \in Targets : OpenInv(u))'
  BY <1>25 DEF ShutdownServer, NoteResult
<1>26. ASSUME NEW t \in Targets, CloseJupyter(t) PROVE (\A u \in Targets : OpenInv(u))'
  BY <1>26 DEF CloseJupyter
<1>27. ASSUME NEW t \in Targets, CloseTensorBoard(t) PROVE (\A u \in Targets : OpenInv(u))'
  BY <1>27 DEF CloseTensorBoard
<1>28. ASSUME NEW t \in Targets, CloseBackend(t) PROVE (\A u \in Targets : OpenInv(u))'
  BY <1>28 DEF CloseBackend, CloseConnection
<1>29. ASSUME NEW t \in Targets, Finish(t) PROVE (\A u \in Targets : OpenInv(u))'
  BY <1>29 DEF Finish
<1>30. CASE LeaveStartLoop
  BY <1>30 DEF LeaveStartLoop
<1>31. CASE CancelAll
  BY <1>31 DEF CancelAll
<1>32. CASE Return
  BY <1>32 DEF Return
<1>33. CASE Interrupt
  BY <1>33 DEF Interrupt
<1>34. CASE UNCHANGED vars
  BY <1>34 DEF vars
<1>35. QED
  BY <1>1, <1>2, <1>3, <1>4, <1>5, <1>6, <1>7, <1>8, <1>9, <1>10, <1>11, <1>12, <1>13, <1>14, <1>15, <1>16, <1>17, <1>18, <1>19, <1>20, <1>21, <1>22, <1>23, <1>24, <1>25, <1>26, <1>27, <1>28, <1>29, <1>30, <1>31, <1>32, <1>33, <1>34
  DEF Next, Main, Startup, Environment, Supervise, Select, ReconnectSSH, Teardown

LEMMA ErrorStep == TypeOK /\ MainInv /\ ErrorInv /\ [Next]_vars => ErrorInv'
<1> SUFFICES ASSUME TypeOK /\ MainInv /\ ErrorInv, [Next]_vars PROVE ErrorInv'
  OBVIOUS
<1> USE SessionAssumption DEF TypeOK, MainInv, ErrorInv, StartupPcs, SupervisorPcs, SelectPcs, TeardownPcs, OverPcs, mainVars, sessionVars, GoTo
<1>1. ASSUME NEW t \in Targets, TargetRejected(t) PROVE ErrorInv'
  BY <1>1 DEF TargetRejected, AtTarget
<1>2. ASSUME NEW t \in Targets, BeginSession(t) PROVE ErrorInv'
  BY <1>2 DEF BeginSession, AtTarget
<1>3. ASSUME NEW t \in Targets, Dial(t) PROVE ErrorInv'
  BY <1>3 DEF Dial
<1>4. ASSUME NEW t \in Targets, ProbeRoot(t) PROVE ErrorInv'
  BY <1>4 DEF ProbeRoot
<1>5. ASSUME NEW t \in Targets, StartFails(t) PROVE ErrorInv'
  BY <1>5 DEF StartFails
<1>6. ASSUME NEW t \in Targets, SessionStarted(t) PROVE ErrorInv'
  BY <1>6 DEF SessionStarted
<1>7. ASSUME NEW t \in Targets, ReceiveEvent(t) PROVE ErrorInv'
  BY <1>7 DEF ReceiveEvent
<1>8. ASSUME NEW t \in Targets, RequestClose(t) PROVE ErrorInv'
  BY <1>8 DEF RequestClose
<1>9. ASSUME NEW t \in Targets, DropLink(t) PROVE ErrorInv'
  BY <1>9 DEF DropLink
<1>10. ASSUME NEW t \in Targets, Expire(t) PROVE ErrorInv'
  BY <1>10 DEF Expire
<1>11. ASSUME NEW t \in Targets, ServeFails(t) PROVE ErrorInv'
  BY <1>11 DEF ServeFails
<1>12. ASSUME NEW t \in Targets, SelectContextDone(t) PROVE ErrorInv'
  BY <1>12 DEF SelectContextDone, LeaveReconnect
<1>13. ASSUME NEW t \in Targets, SelectUserClose(t) PROVE ErrorInv'
  BY <1>13 DEF SelectUserClose, LeaveReconnect
<1>14. ASSUME NEW t \in Targets, SelectLinkLostEnds(t) PROVE ErrorInv'
  BY <1>14 DEF SelectLinkLostEnds, NoteResult
<1>15. ASSUME NEW t \in Targets, SetDisconnected(t) PROVE ErrorInv'
  BY <1>15 DEF SetDisconnected
<1>16. ASSUME NEW t \in Targets, SelectServeError(t) PROVE ErrorInv'
  BY <1>16 DEF SelectServeError, NoteResult
<1>17. ASSUME NEW t \in Targets, CloseDropped(t) PROVE ErrorInv'
  BY <1>17 DEF CloseDropped, CloseConnection
<1>18. ASSUME NEW t \in Targets, BackoffElapsed(t) PROVE ErrorInv'
  BY <1>18 DEF BackoffElapsed
<1>19. ASSUME NEW t \in Targets, Redial(t) PROVE ErrorInv'
  BY <1>19 DEF Redial
<1>20. ASSUME NEW t \in Targets, RedialFails(t) PROVE ErrorInv'
  BY <1>20 DEF RedialFails, AttemptFailed, LeaveReconnect, NoteResult
<1>21. ASSUME NEW t \in Targets, RestatFails(t) PROVE ErrorInv'
  BY <1>21 DEF RestatFails, AttemptFailed, LeaveReconnect, NoteResult, CloseConnection
<1>22. ASSUME NEW t \in Targets, SetBackend(t) PROVE ErrorInv'
  BY <1>22 DEF SetBackend, LeaveReconnect
<1>23. ASSUME NEW t \in Targets, Reattached(t) PROVE ErrorInv'
  BY <1>23 DEF Reattached
<1>24. ASSUME NEW t \in Targets, Cancel(t) PROVE ErrorInv'
  BY <1>24 DEF Cancel
<1>25. ASSUME NEW t \in Targets, ShutdownServer(t) PROVE ErrorInv'
  BY <1>25 DEF ShutdownServer, NoteResult
<1>26. ASSUME NEW t \in Targets, CloseJupyter(t) PROVE ErrorInv'
  BY <1>26 DEF CloseJupyter
<1>27. ASSUME NEW t \in Targets, CloseTensorBoard(t) PROVE ErrorInv'
  BY <1>27 DEF CloseTensorBoard
<1>28. ASSUME NEW t \in Targets, CloseBackend(t) PROVE ErrorInv'
  BY <1>28 DEF CloseBackend, CloseConnection
<1>29. ASSUME NEW t \in Targets, Finish(t) PROVE ErrorInv'
  BY <1>29 DEF Finish
<1>30. CASE LeaveStartLoop
  BY <1>30 DEF LeaveStartLoop
<1>31. CASE CancelAll
  BY <1>31 DEF CancelAll
<1>32. CASE Return
  BY <1>32 DEF Return
<1>33. CASE Interrupt
  BY <1>33 DEF Interrupt
<1>34. CASE UNCHANGED vars
  BY <1>34 DEF vars
<1>35. QED
  BY <1>1, <1>2, <1>3, <1>4, <1>5, <1>6, <1>7, <1>8, <1>9, <1>10, <1>11, <1>12, <1>13, <1>14, <1>15, <1>16, <1>17, <1>18, <1>19, <1>20, <1>21, <1>22, <1>23, <1>24, <1>25, <1>26, <1>27, <1>28, <1>29, <1>30, <1>31, <1>32, <1>33, <1>34
  DEF Next, Main, Startup, Environment, Supervise, Select, ReconnectSSH, Teardown

-----------------------------------------------------------------------------
(***************************************************************************)
(* Theorems.                                                               *)
(***************************************************************************)
LEMMA Inductive == Spec => []IInv
<1>1. IInv /\ [Next]_vars => IInv'
  BY TypeStep, MainStep, OpenStep, HoldStep, BackendStep, ErrorStep DEF IInv, SessionInv
<1>2. QED
  BY InitIInv, <1>1, PTL DEF Spec

\* Every variable of runSessions and of the supervisors keeps its type, in
\* particular the attempt and the delay stay within the reconnect policy.
THEOREM TypeCorrect == Spec => []TypeOK
<1>1. IInv => TypeOK
  BY DEF IInv
<1>2. QED
  BY Inductive, <1>1, PTL

\* runSessions returns only when nothing of any session is left: no SSH
\* subprocess, no launcher, no listener.
THEOREM ExitReleasesAll == Spec => []ExitClean
<1>1. IInv => ExitClean
  <2> SUFFICES ASSUME IInv, mainPc = "exited", NEW t \in Targets PROVE Released(t)
    BY DEF ExitClean
  <2>1. pc[t] \notin SupervisorPcs /\ pc[t] \notin StartupPcs
    BY DEF IInv, MainInv
  <2>2. pc[t] \in OverPcs
    BY <2>1 DEF IInv, TypeOK
  <2>3. QED
    BY <2>2 DEF IInv, SessionInv, OpenInv, HoldInv, Released
<1>2. QED
  BY Inductive, <1>1, PTL

\* No session ever holds two SSH subprocesses, however often it reconnects.
THEOREM SingleConnection == Spec => []OneConnection
<1>1. IInv => OneConnection
  BY DEF IInv, TypeOK, SessionInv, OpenInv, OneConnection, StartupPcs, SupervisorPcs,
     SelectPcs, TeardownPcs, OverPcs
<1>2. QED
  BY Inductive, <1>1, PTL

\* While its HTTP server runs, a session's app never uses a connection that
\* the supervisor has closed.
THEOREM ServesOpen == Spec => []ServesOpenConnection
<1>1. IInv => ServesOpenConnection
  BY DEF IInv, SessionInv, OpenInv, BackendInv, ServesOpenConnection, SelectPcs
<1>2. QED
  BY Inductive, <1>1, PTL

\* The error runSessions returns has those of all targets, also of sessions
\* that ended in error while everything was being cancelled.
THEOREM ErrorsAreKept == Spec => []ErrorsSurvive
<1>1. IInv => ErrorsSurvive
  BY DEF IInv, MainInv, ErrorInv, ErrorsSurvive
<1>2. QED
  BY Inductive, <1>1, PTL

\* What the process is when it returns.
THEOREM ExitIsComplete == Spec => []ExitComplete
<1>1. ExitClean /\ ErrorsSurvive => ExitComplete
  BY DEF ExitComplete
<1>2. QED
  BY ExitReleasesAll, ErrorsAreKept, <1>1, PTL

\* What a session holds while it reconnects.
THEOREM ServesWhatItHolds == Spec => []ServesItsConnection
<1>1. OneConnection /\ ServesOpenConnection => ServesItsConnection
  BY DEF ServesItsConnection
<1>2. QED
  BY SingleConnection, ServesOpen, <1>1, PTL
=============================================================================
