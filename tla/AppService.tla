----------------------------- MODULE AppService -----------------------------
(***************************************************************************)
(* What the web server promises about the application of a directory, as a *)
(* page sees it: it is stopped, starting, running or stopping, it has a    *)
(* service or none, and it can be opened or not.  Which request does what, *)
(* and that a directory has launches that come and go, is the business of  *)
(* module AppLaunch (internal/web/app.go), which implements this one.      *)
(***************************************************************************)
CONSTANT Dirs           \* an application and a directory

VARIABLES
    phase,              \* what the page is told of each directory
    live,               \* the directories that have a service
    reach,              \* of them, those whose service the server can end
    left,               \* the directories with a service nobody is told of
    open,               \* the directories whose service the proxy serves
    closed              \* the directories whose launcher the session has closed

vars == <<phase, live, reach, left, open, closed>>

Init ==
    /\ phase = [d \in Dirs |-> "stopped"]
    /\ live = {} /\ reach = {} /\ left = {} /\ open = {} /\ closed = {}

Move(d, from, to) ==
    /\ phase[d] \in from
    /\ phase' = [phase EXCEPT ![d] = to]

\* A start is accepted only where there is no service but what was left.
Begin(d) ==
    /\ d \notin live
    /\ Move(d, {"stopped"}, "starting")
    /\ UNCHANGED <<live, reach, left, open, closed>>

\* The launcher has brought the service up, or has lost it at once, ...
Arrive(d) ==
    /\ phase[d] = "starting"
    /\ live' = live \cup {d}
    /\ \/ d \notin closed /\ reach' = reach \cup {d}
       \/ UNCHANGED reach
    /\ UNCHANGED <<phase, left, open, closed>>

\* ... and the page may open it.
Open(d) ==
    /\ Move(d, {"starting"}, "running")
    /\ open' = open \cup {d}
    /\ UNCHANGED <<live, reach, left, closed>>

\* Only what runs is stopped; from here on nobody is let through to it.
Halt(d) ==
    /\ Move(d, {"running"}, "stopping")
    /\ open' = open \ {d}
    /\ UNCHANGED <<live, reach, left, closed>>

\* A service is stopped, or ends by itself.
End(d) ==
    /\ d \in live
    /\ live' = live \ {d}
    /\ reach' = reach \ {d}
    /\ UNCHANGED <<phase, left, open, closed>>

\* It is lost, and reached again.
Lose(d) ==
    /\ reach' = reach \ {d}
    /\ UNCHANGED <<phase, live, left, open, closed>>

Regain(d) ==
    /\ d \in live \ closed
    /\ reach' = reach \cup {d}
    /\ UNCHANGED <<phase, live, left, open, closed>>

\* A directory is over, or its start has failed, when its service is gone or out
\* of reach and not before, but for the end of the session; what goes on is left.
Over(d) ==
    /\ d \in reach => d \in closed
    /\ Move(d, {"starting", "running", "stopping"}, "stopped")
    /\ left' = left \cup (live \cap {d})
    /\ live' = live \ {d}
    /\ reach' = reach \ {d}
    /\ open' = open \ {d}
    /\ UNCHANGED closed

\* What was left ends in its time.
Fade(d) ==
    /\ left' = left \ {d}
    /\ UNCHANGED <<phase, live, reach, open, closed>>

\* The session closes the launcher of some directories.
Close(D) ==
    /\ closed' = closed \cup D
    /\ UNCHANGED <<phase, live, reach, left, open>>

Next ==
    \/ \E d \in Dirs :
          \/ Begin(d) \/ Arrive(d) \/ Open(d) \/ Halt(d) \/ End(d)
          \/ Lose(d) \/ Regain(d) \/ Over(d) \/ Fade(d)
    \/ \E D \in SUBSET Dirs : Close(D)

Spec == Init /\ [][Next]_vars

\* No directory starts or stops for ever.
Settles ==
    \A d \in Dirs :
        /\ phase[d] = "starting" ~> phase[d] # "starting"
        /\ phase[d] = "stopping" ~> phase[d] # "stopping"
=============================================================================
