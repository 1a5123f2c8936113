------------------------------- MODULE Upload -------------------------------
(***************************************************************************)
(* Concurrent uploads to one name (internal/filesystem: SFTP.Upload and    *)
(* Local.Upload): the payload is staged under a name of its own and        *)
(* published at its destination by a hard link, or by a rename if it may   *)
(* replace what is there.                                                  *)
(*                                                                         *)
(* An SFTP operation is a request the server answers.  A caller whose      *)
(* context ends does not wait for the answer (awaitSFTP): the operation    *)
(* stays with the server and takes effect later, next to the clean-up of   *)
(* the caller.  A lost connection fails the operation for the caller, and  *)
(* the server may have it all the same: it takes effect late, or never.    *)
(* Local operations are answered before anything else happens to the       *)
(* caller and are not left behind.  The uploads may come from the sessions *)
(* of one process, so that one name is reached both ways.                  *)
(***************************************************************************)
EXTENDS Naturals, FiniteSets

CONSTANTS
    Uploads,        \* upload calls
    Other           \* whoever else writes the destination

Nobody == "nobody"      \* the author of a destination that does not exist

ASSUME UploadAssumption ==
    /\ Other \notin Uploads
    /\ Nobody \notin Uploads \union {Other}

VARIABLES
    dest,           \* the author of the destination's content
    torn,           \* the destination is only a part of its author's content
    payload,        \* of an upload: its staged file: none, part, all
    stage,          \*   its staging directory exists
    sftp,           \*   its backend: SFTP, otherwise Local
    overwrite,      \*   the caller allowed it to replace
    cancelled,      \*   its context is done
    pc,             \*   where it is; in Ops it is at that operation
    reply,          \*   the state of that operation
    orphan,         \*   the operation the server has and it does not wait for, or "none"
    cleaner,        \*   its clean-up: the operation it is at, or "none"
    outcome,        \*   how it will end, or has ended
    up              \* the SFTP connection works

server == <<dest, torn, payload, stage>>
local == <<sftp, overwrite, pc, reply, cleaner, outcome>>
vars == <<server, local, cancelled, orphan, up>>

Ops == {"open", "write", "close", "link", "rename", "remove", "rmdir"}

Init ==
    /\ dest = Nobody
    /\ torn = FALSE
    /\ payload = [u \in Uploads |-> "none"]
    /\ stage = [u \in Uploads |-> FALSE]
    /\ sftp = [u \in Uploads |-> FALSE]
    /\ overwrite = [u \in Uploads |-> FALSE]
    /\ cancelled = [u \in Uploads |-> FALSE]
    /\ pc = [u \in Uploads |-> "idle"]
    /\ reply = [u \in Uploads |-> "none"]
    /\ orphan = [u \in Uploads |-> "none"]
    /\ cleaner = [u \in Uploads |-> "none"]
    /\ outcome = [u \in Uploads |-> "none"]
    /\ up = TRUE

\* Operations the upload issues now reach the files.
Works(u) == up \/ ~sftp[u]

-----------------------------------------------------------------------------
(***************************************************************************)
(* What an operation does where the files are.  A disabled one is refused. *)
(***************************************************************************)
\* Mkdir and OpenFile; os.OpenFile.
CreatePayload(u) ==
    /\ payload[u] = "none"
    /\ payload' = [payload EXCEPT ![u] = "part"]
    /\ stage' = [stage EXCEPT ![u] = sftp[u]]
    /\ UNCHANGED <<dest, torn>>

WritePayload(u) ==
    /\ payload[u] # "none"
    /\ \E size \in {"part", "all"} : payload' = [payload EXCEPT ![u] = size]
    /\ UNCHANGED <<dest, torn, stage>>

ClosePayload(u) == payload[u] # "none" /\ UNCHANGED server

\* The hardlink extension; os.Link: refused if the name exists.
LinkPayload(u) ==
    /\ payload[u] # "none"
    /\ dest = Nobody
    /\ dest' = u
    /\ torn' = (payload[u] = "part")
    /\ UNCHANGED <<payload, stage>>

\* The posix-rename extension; os.Rename.
RenamePayload(u) ==
    /\ payload[u] # "none"
    /\ dest' = u
    /\ torn' = (payload[u] = "part")
    /\ payload' = [payload EXCEPT ![u] = "none"]
    /\ UNCHANGED stage

RemovePayload(u) ==
    /\ payload[u] # "none"
    /\ payload' = [payload EXCEPT ![u] = "none"]
    /\ UNCHANGED <<dest, torn, stage>>

RemoveStage(u) ==
    /\ stage[u]
    /\ payload[u] = "none"
    /\ stage' = [stage EXCEPT ![u] = FALSE]
    /\ UNCHANGED <<dest, torn, payload>>

Effect(op, u) ==
    \/ op = "open" /\ CreatePayload(u)
    \/ op = "write" /\ WritePayload(u)
    \/ op = "close" /\ ClosePayload(u)
    \/ op = "link" /\ LinkPayload(u)
    \/ op = "rename" /\ RenamePayload(u)
    \/ op = "remove" /\ RemovePayload(u)
    \/ op = "rmdir" /\ RemoveStage(u)

-----------------------------------------------------------------------------
(***************************************************************************)
(* The upload.                                                             *)
(***************************************************************************)
GoTo(u, place) == pc' = [pc EXCEPT ![u] = place] /\ reply' = [reply EXCEPT ![u] = "none"]

\* The deferred clean-up starts: SFTP's runs after a success as well, and
\* beside the return if the upload failed with its context done.
Finish(u, how) ==
    /\ GoTo(u, IF sftp[u] /\ cancelled[u] /\ how # "created" THEN "done" ELSE "leaving")
    /\ outcome' = [outcome EXCEPT ![u] = how]
    /\ cleaner' = [cleaner EXCEPT ![u] = IF how = "created" /\ ~sftp[u] THEN "none" ELSE "remove"]

Start(u, ow, s) ==
    /\ pc[u] = "idle"
    /\ sftp' = [sftp EXCEPT ![u] = s]
    /\ overwrite' = [overwrite EXCEPT ![u] = ow]
    /\ GoTo(u, "check")
    /\ UNCHANGED <<server, cancelled, orphan, cleaner, outcome, up>>

\* Lstat of the destination, before anything is staged.
Check(u) ==
    /\ pc[u] = "check"
    /\ LET answered == Works(u) /\ ~(sftp[u] /\ cancelled[u]) IN
         \/ /\ overwrite[u] \/ (answered /\ dest = Nobody)
            /\ GoTo(u, "open")
            /\ UNCHANGED outcome
         \/ /\ ~overwrite[u] /\ ~(answered /\ dest = Nobody)
            /\ GoTo(u, "done")
            /\ outcome' = [outcome EXCEPT ![u] = IF answered THEN "exists" ELSE "error"]
    /\ UNCHANGED <<server, sftp, overwrite, cancelled, orphan, cleaner, up>>

Issue(u) ==
    /\ pc[u] \in Ops
    /\ reply[u] = "none"
    /\ ~(cancelled[u] /\ (sftp[u] \/ pc[u] = "write"))
    /\ reply' = [reply EXCEPT ![u] = IF Works(u) THEN "sent" ELSE "refused"]
    /\ UNCHANGED <<server, sftp, overwrite, cancelled, pc, orphan, cleaner, outcome, up>>

\* The server takes the operation, or refuses it: it cannot, it does not
\* support it, the disk is full.
Serve(u) ==
    /\ reply[u] = "sent"
    /\ Works(u)
    /\ \/ Effect(pc[u], u) /\ reply' = [reply EXCEPT ![u] = "ok"]
       \/ reply' = [reply EXCEPT ![u] = "refused"] /\ UNCHANGED server
    /\ UNCHANGED <<sftp, overwrite, cancelled, pc, orphan, cleaner, outcome, up>>

\* An operation that was under way when the connection was lost fails with it,
\* and the server has it still.
ConnectionLost(u) ==
    /\ reply[u] = "sent"
    /\ ~Works(u)
    /\ reply' = [reply EXCEPT ![u] = "refused"]
    /\ orphan' = [orphan EXCEPT ![u] = pc[u]]
    /\ UNCHANGED <<server, sftp, overwrite, cancelled, pc, cleaner, outcome, up>>

\* The order of the operations.
\* Mutant: the payload is published before it was closed, after any write.
PublishAfterAnyWrite(u) ==
    CASE pc[u] = "open" -> "write"
      [] pc[u] = "write" -> IF overwrite[u] THEN "rename" ELSE "link"
      [] pc[u] = "link" -> "remove"
      [] OTHER -> IF sftp[u] /\ pc[u] \in {"rename", "remove"} THEN "rmdir" ELSE "end"

NextOp(u) ==
    CASE pc[u] = "open" -> "write"
      [] pc[u] = "write" -> IF payload[u] = "all" THEN "close" ELSE "write"
      [] pc[u] = "close" -> IF overwrite[u] THEN "rename" ELSE "link"
      [] pc[u] = "link" -> "remove"
      [] OTHER -> IF sftp[u] /\ pc[u] \in {"rename", "remove"} THEN "rmdir" ELSE "end"

Proceed(u) ==
    /\ reply[u] = "ok"
    /\ IF NextOp(u) = "end"
         THEN Finish(u, "created")
         ELSE GoTo(u, NextOp(u)) /\ UNCHANGED <<cleaner, outcome>>
    /\ UNCHANGED <<server, sftp, overwrite, cancelled, orphan, up>>

\* Mutant: the clean-up comes before the look at the destination.
RefusedCleansFirst(u) ==
    /\ reply[u] = "refused"
    /\ CASE pc[u] = "open" ->
              /\ GoTo(u, "done")
              /\ outcome' = [outcome EXCEPT ![u] = "error"]
              /\ UNCHANGED cleaner
         [] pc[u] = "link" ->
              /\ GoTo(u, "probe")
              /\ cleaner' = [cleaner EXCEPT ![u] = "remove"]
              /\ UNCHANGED outcome
         [] OTHER -> Finish(u, "error")
    /\ UNCHANGED <<server, sftp, overwrite, cancelled, orphan, up>>

\* A refused open leaves nothing: its own clean-up ran on the way.  A refused
\* link is looked into.
Refused(u) ==
    /\ reply[u] = "refused"
    /\ CASE pc[u] = "open" ->
              /\ GoTo(u, "done")
              /\ outcome' = [outcome EXCEPT ![u] = "error"]
              /\ UNCHANGED cleaner
         [] pc[u] = "link" -> GoTo(u, "probe") /\ UNCHANGED <<cleaner, outcome>>
         [] OTHER -> Finish(u, "error")
    /\ UNCHANGED <<server, sftp, overwrite, cancelled, orphan, up>>

\* The source ends too early, or its reader notices the end of the context.
SourceFails(u) ==
    /\ pc[u] = "write"
    /\ reply[u] = "none"
    /\ Finish(u, "error")
    /\ UNCHANGED <<server, sftp, overwrite, cancelled, orphan, up>>

\* Lstat after a refused link: is the name taken?
Probe(u) ==
    /\ pc[u] = "probe"
    /\ IF dest # Nobody /\ Works(u) /\ ~(sftp[u] /\ cancelled[u])
         THEN Finish(u, "exists") ELSE Finish(u, "error")
    /\ UNCHANGED <<server, sftp, overwrite, cancelled, orphan, up>>

\* awaitSFTP and openUploadFile: the context ends before or while the
\* operation is under way, or before its result is looked at.
\* Mutant: nobody cleans up after a late open.
AbandonLeavesOpen(u) ==
    /\ sftp[u]
    /\ cancelled[u]
    /\ pc[u] \in Ops
    /\ orphan' = [orphan EXCEPT ![u] = IF reply[u] = "sent" THEN pc[u] ELSE @]
    /\ IF pc[u] = "open"
         THEN /\ GoTo(u, "done")
              /\ outcome' = [outcome EXCEPT ![u] = "error"]
              /\ UNCHANGED cleaner
         ELSE Finish(u, "error")
    /\ UNCHANGED <<server, sftp, overwrite, cancelled, up>>

\* Mutant: an operation is also given up when it takes long.
AbandonSlow(u) ==
    /\ sftp[u]
    /\ pc[u] \in Ops
    /\ orphan' = [orphan EXCEPT ![u] = IF reply[u] = "sent" THEN pc[u] ELSE @]
    /\ IF pc[u] = "open" /\ reply[u] # "ok"
         THEN /\ GoTo(u, "done")
              /\ outcome' = [outcome EXCEPT ![u] = "error"]
              /\ UNCHANGED cleaner
         ELSE Finish(u, "error")
    /\ UNCHANGED <<server, sftp, overwrite, cancelled, up>>

Abandon(u) ==
    /\ sftp[u]
    /\ cancelled[u]
    /\ pc[u] \in Ops
    /\ orphan' = [orphan EXCEPT ![u] = IF reply[u] = "sent" THEN pc[u] ELSE @]
    /\ IF pc[u] = "open" /\ reply[u] # "ok"
         THEN /\ GoTo(u, "done")
              /\ outcome' = [outcome EXCEPT ![u] = "error"]
              /\ UNCHANGED cleaner
         ELSE Finish(u, "error")
    /\ UNCHANGED <<server, sftp, overwrite, cancelled, up>>

\* The server comes to an operation nobody waits for, or never does.  A late
\* open is cleaned up when it is answered.
ServeOrphan(u) ==
    /\ orphan[u] # "none"
    /\ Effect(orphan[u], u) \/ UNCHANGED server
    /\ orphan' = [orphan EXCEPT ![u] = "none"]
    /\ cleaner' = IF orphan[u] = "open" /\ payload'[u] # "none" /\ Works(u)
                    THEN [cleaner EXCEPT ![u] = "remove"] ELSE cleaner
    /\ UNCHANGED <<sftp, overwrite, cancelled, pc, reply, outcome, up>>

\* cleanupUploadStage, with its errors ignored; after an operation that was
\* abandoned it runs beside the return, and beside that operation.
CleanRemove(u) ==
    /\ cleaner[u] = "remove"
    /\ IF Works(u) THEN RemovePayload(u) \/ (payload[u] = "none" /\ UNCHANGED server)
             ELSE UNCHANGED server
    /\ cleaner' = [cleaner EXCEPT ![u] = IF sftp[u] THEN "rmdir" ELSE "none"]
    /\ UNCHANGED <<sftp, overwrite, pc, reply, outcome, cancelled, orphan, up>>

CleanStage(u) ==
    /\ cleaner[u] = "rmdir"
    /\ IF Works(u) THEN RemoveStage(u) \/ (~(stage[u] /\ payload[u] = "none") /\ UNCHANGED server)
             ELSE UNCHANGED server
    /\ cleaner' = [cleaner EXCEPT ![u] = "none"]
    /\ UNCHANGED <<sftp, overwrite, pc, reply, outcome, cancelled, orphan, up>>

\* The result reaches the caller after the clean-up.
Return(u) ==
    /\ pc[u] = "leaving"
    /\ cleaner[u] = "none"
    /\ GoTo(u, "done")
    /\ UNCHANGED <<server, sftp, overwrite, cancelled, orphan, cleaner, outcome, up>>

-----------------------------------------------------------------------------
(***************************************************************************)
(* Everybody else.                                                         *)
(***************************************************************************)
\* The client of the upload's request goes away.
Cancel(u) ==
    /\ pc[u] \notin {"idle", "done"}
    /\ ~cancelled[u]
    /\ cancelled' = [cancelled EXCEPT ![u] = TRUE]
    /\ UNCHANGED <<server, local, orphan, up>>

\* The destination is created, or removed, by somebody else.
OtherCreates ==
    /\ dest = Nobody
    /\ dest' = Other
    /\ torn' = FALSE
    /\ UNCHANGED <<payload, stage, local, cancelled, orphan, up>>

OtherRemoves ==
    /\ dest # Nobody
    /\ dest' = Nobody
    /\ torn' = FALSE
    /\ UNCHANGED <<payload, stage, local, cancelled, orphan, up>>

\* The connection is lost.  What was sent before may be with the server.
Disconnect ==
    /\ up
    /\ up' = FALSE
    /\ UNCHANGED <<server, local, cancelled, orphan>>

-----------------------------------------------------------------------------
Step(u) ==
    \/ Check(u) \/ Issue(u) \/ Serve(u) \/ ConnectionLost(u) \/ Proceed(u) \/ Refused(u) \/ Probe(u)
    \/ Abandon(u) \/ Return(u) \/ (cancelled[u] /\ SourceFails(u))

Clean(u) == ServeOrphan(u) \/ CleanRemove(u) \/ CleanStage(u)

Next ==
    \/ \E u \in Uploads : Step(u) \/ SourceFails(u) \/ Clean(u) \/ Cancel(u)
    \/ \E u \in Uploads, ow, s \in BOOLEAN : Start(u, ow, s)
    \/ OtherCreates \/ OtherRemoves \/ Disconnect

\* Goroutines run and the server answers what it was sent; how long a source
\* goes on is up to the client.
Fairness == \A u \in Uploads : WF_vars(Step(u)) /\ WF_vars(Clean(u))

Spec == Init /\ [][Next]_vars
FairSpec == Spec /\ Fairness

-----------------------------------------------------------------------------
(***************************************************************************)
(* Properties.                                                             *)
(***************************************************************************)
Places == Ops \union {"idle", "check", "probe", "leaving", "done"}

TypeOK ==
    /\ dest \in Uploads \union {Other, Nobody}
    /\ torn \in BOOLEAN
    /\ payload \in [Uploads -> {"none", "part", "all"}]
    /\ stage \in [Uploads -> BOOLEAN]
    /\ sftp \in [Uploads -> BOOLEAN]
    /\ overwrite \in [Uploads -> BOOLEAN]
    /\ cancelled \in [Uploads -> BOOLEAN]
    /\ pc \in [Uploads -> Places]
    /\ reply \in [Uploads -> {"none", "sent", "ok", "refused"}]
    /\ orphan \in [Uploads -> Ops \union {"none"}]
    /\ cleaner \in [Uploads -> {"none", "remove", "rmdir"}]
    /\ outcome \in [Uploads -> {"none", "created", "exists", "error"}]
    /\ up \in BOOLEAN
    /\ \A u \in Uploads :
          /\ reply[u] # "none" => pc[u] \in Ops
          /\ cleaner[u] # "none" => pc[u] \in {"leaving", "done"}

\* Nobody ever reads a part of an upload at its destination, whatever was
\* cancelled, refused or left with the server.
NeverTorn == ~torn

\* An upload that was not allowed to replace never does, not even one that
\* checked before another one published, or whose link is served late.
NoClobber ==
    [][\A u \in Uploads : dest' = u /\ dest \notin {u, Nobody} => overwrite[u]]_vars

\* Nothing is published after the caller was told of a failure, unless it had
\* gone away before or was told of a lost connection; and nothing ever again
\* after it was told of a success.
NoLatePublication ==
    [][\A u \in Uploads : dest' = u /\ dest # u =>
          /\ outcome[u] # "created"
          /\ pc[u] \in {"link", "rename"} \/ cancelled[u] \/ ~Works(u)]_vars

\* Both: what appears under the name, and when, is what its caller was told.
PublishesAsTold == NoClobber /\ NoLatePublication

\* An upload that ends with the connection in order leaves nothing staged.
StagingRemoved ==
    \A u \in Uploads : pc[u] = "done" ~> ~Works(u) \/ (payload[u] = "none" /\ ~stage[u])
=============================================================================
