------------------------------ MODULE LivePDF ------------------------------
(***************************************************************************)
(* The live view of a PDF that LaTeX rewrites: the page's controller       *)
(* (internal/web/assets/live-v2.mjs), the handlers that tell it whether    *)
(* the file is complete (livePDF, livePDFStatus, pdfComplete in app.go)    *)
(* and the PDF.js viewer it drives.                                        *)
(*                                                                         *)
(* Every write gives the file a new version (its size and modification     *)
(* time): odd versions are complete, the even ones between them are not.   *)
(* Polls start on a timer and overlap; a load awaits PDF.js several times. *)
(***************************************************************************)
EXTENDS Integers

CONSTANTS
    Polls,          \* model bound: polls under way at a time
    MaxVersion,     \* model bound: the last version of the file
    MaxPages,       \* model bound: pages of a document
    MaxFaults,      \* model bound: requests and installations that fail
    MaxDownloads    \* model bound: uses of the Download button

ASSUME LivePDFAssumption ==
    /\ MaxVersion \in {n \in Nat : n > 1 /\ n % 2 = 1}
    /\ MaxPages \in Nat \ {0}
    /\ MaxFaults \in Nat /\ MaxDownloads \in Nat

VARIABLES
    \* the file
    version, pages,
    \* the requests for its status
    poll,           \* [step, seen, whole]: seen is the version of its first Stat
    \* the controller
    active,         \* activeDocument: None or [content, pages, alive]
    currentPage, displayed, loading, pendingVersion, stable, installing,
    \* its load: the locals of loadVersion
    load,           \* none, fetching, installing, restoring
    current,        \* generation = loadGeneration
    from,           \* the version the file had when the document was asked for
    candidate,      \* documentProxy: None or [content, pages, alive]
    \* PDF.js
    viewer,         \* the document it shows: none, active, candidate
    \* the environment
    faults, downloads

file == <<version, pages>>
doc == <<active, currentPage, displayed, candidate, viewer, installing>>
ctl == <<loading, pendingVersion, stable, load, current, from>>
env == <<faults, downloads>>
vars == <<file, poll, doc, ctl, env>>

None == <<>>
NoPoll == [step |-> "idle", seen |-> 0, whole |-> FALSE]

Whole(v) == v % 2 = 1
Document(v, n) == [content |-> v, pages |-> n, alive |-> TRUE]

\* Mutant: the page is kept as it is.
KeepPage(p, d) == p

\* clampPage.
Clamp(p, d) == IF p > d.pages THEN d.pages ELSE p

\* livePDF tells the page a version if the file is complete when it is made; the
\* file may have changed when the controller starts.
Init ==
    /\ version \in {1, 2}
    /\ pages = 1
    /\ poll = [p \in Polls |-> NoPoll]
    /\ active = None
    /\ currentPage = 1
    /\ displayed = 0
    /\ pendingVersion = 0
    /\ stable = 0
    /\ installing = FALSE
    /\ loading \in {0, 1}
    /\ load = IF loading = 0 THEN "none" ELSE "fetching"
    /\ current = (loading # 0)
    /\ from = version
    /\ candidate = None
    /\ viewer = "none"
    /\ faults = 0
    /\ downloads = 0

-----------------------------------------------------------------------------
(***************************************************************************)
(* The file.                                                               *)
(***************************************************************************)
\* LaTeX truncates it and writes it; the last write completes it.
Compile ==
    /\ version < MaxVersion
    /\ version' = version + 1
    /\ pages' \in 1..MaxPages
    /\ UNCHANGED <<poll, doc, ctl, env>>

(***************************************************************************)
(* GET /live/status: Stat, the tail of the file, Stat again.               *)
(***************************************************************************)
\* The interval timer: a poll does not wait for the one before.
StartPoll(p) ==
    /\ poll[p].step = "idle"
    /\ poll' = [poll EXCEPT ![p].step = "asked"]
    /\ UNCHANGED <<file, doc, ctl, env>>

LivePDFInfo(p) ==
    /\ poll[p].step = "asked"
    /\ poll' = [poll EXCEPT ![p].step = "stated", ![p].seen = version]
    /\ UNCHANGED <<file, doc, ctl, env>>

ReadTail(p) ==
    /\ poll[p].step = "stated"
    /\ poll' = [poll EXCEPT ![p].step = "read", ![p].whole = Whole(version)]
    /\ UNCHANGED <<file, doc, ctl, env>>

PdfComplete(p) ==
    /\ poll[p].step = "read"
    /\ poll' = [poll EXCEPT ![p].step = "answered", ![p].whole = @ /\ version = poll[p].seen]
    /\ UNCHANGED <<file, doc, ctl, env>>

\* The request or one of these operations fails: poll only shows it.
PollFails(p) ==
    /\ poll[p].step # "idle"
    /\ faults < MaxFaults
    /\ faults' = faults + 1
    /\ poll' = [poll EXCEPT ![p] = NoPoll]
    /\ UNCHANGED <<file, doc, ctl, downloads>>

-----------------------------------------------------------------------------
(***************************************************************************)
(* poll, when its answer arrives.                                          *)
(***************************************************************************)
\* loadVersion, up to its first await.
LoadVersion(v) ==
    /\ load' = "fetching"
    /\ loading' = v
    /\ current' = TRUE
    /\ from' = version

\* Nothing to do: the file is not complete, or its version is on the screen or
\* on its way.
ForgetPending(p) ==
    LET v == poll[p].seen
    IN  /\ ~poll[p].whole \/ v = displayed \/ v = loading
        /\ pendingVersion' = 0
        /\ stable' = 0
        /\ UNCHANGED <<load, loading, current, from>>

\* A version is loaded at its second observation in a row, unless another load
\* is under way (then loadVersion returns at once).
ObserveVersion(p) ==
    LET v == poll[p].seen
    IN  /\ poll[p].whole
        /\ v \notin {displayed, loading}
        /\ pendingVersion' = v
        /\ stable' = IF v = pendingVersion THEN 2 ELSE 1
        /\ IF stable' = 2 /\ loading = 0 THEN LoadVersion(v) ELSE UNCHANGED <<load, loading, current, from>>

Answer(p) ==
    /\ poll[p].step = "answered"
    /\ poll' = [poll EXCEPT ![p] = NoPoll]
    /\ ForgetPending(p) \/ ObserveVersion(p)
    /\ UNCHANGED <<file, doc, env>>

-----------------------------------------------------------------------------
(***************************************************************************)
(* loadVersion, from its awaits on.                                        *)
(***************************************************************************)
\* Mutant: loadingVersion stays.
EndLoadHalfway ==
    /\ load' = "none"
    /\ pendingVersion' = 0
    /\ stable' = 0
    /\ UNCHANGED <<loading, current, from>>

\* Its finally block: a load whose generation has passed leaves everything.
EndLoad ==
    /\ load' = "none"
    /\ IF current THEN loading' = 0 /\ pendingVersion' = 0 /\ stable' = 0
                  ELSE UNCHANGED <<loading, pendingVersion, stable>>
    /\ UNCHANGED <<current, from>>

\* The document has arrived with its first page: one version of the file if it
\* was not written meanwhile, else whatever PDF.js could make of the mixture.
Fetched ==
    /\ load = "fetching"
    /\ current
    /\ candidate' = IF version = from THEN Document(version, pages) ELSE Document(0, pages)
    /\ load' = "installing"
    /\ installing' = TRUE
    /\ viewer' = "candidate"
    /\ UNCHANGED <<file, poll, active, currentPage, displayed, loading, pendingVersion, stable, current,
                   from, env>>

\* It could not be read: the page still shows what it had.
FetchFails ==
    /\ load = "fetching"
    /\ \/ ~current \/ version # from \/ ~Whole(from)
       \/ faults < MaxFaults
    /\ faults' = IF ~current \/ version # from \/ ~Whole(from) THEN faults ELSE faults + 1
    /\ EndLoad
    /\ UNCHANGED <<file, poll, doc, downloads>>

\* installViewerDocument has succeeded: commit, and destroy the old document.
Installed ==
    /\ load = "installing"
    /\ current
    /\ currentPage' = Clamp(currentPage, candidate)
    /\ active' = candidate
    /\ displayed' = loading
    /\ installing' = FALSE
    /\ viewer' = "active"
    /\ candidate' = None
    /\ EndLoad
    /\ UNCHANGED <<file, poll, env>>

\* Mutant: the candidate stays in the viewer.
InstallFailsInPlace ==
    /\ load = "installing"
    /\ current
    /\ faults < MaxFaults
    /\ faults' = faults + 1
    /\ candidate' = None
    /\ installing' = FALSE
    /\ EndLoad
    /\ UNCHANGED <<file, poll, active, currentPage, displayed, viewer, downloads>>

\* It has failed: the old document is put back, if there was one.
InstallFails ==
    /\ load = "installing"
    /\ current
    /\ faults < MaxFaults
    /\ faults' = faults + 1
    /\ IF active # None
         THEN /\ viewer' = "active"
              /\ load' = "restoring"
              /\ UNCHANGED <<candidate, installing, loading, pendingVersion, stable, current, from>>
         ELSE /\ viewer' = "none"
              /\ candidate' = None
              /\ installing' = FALSE
              /\ EndLoad
    /\ UNCHANGED <<file, poll, active, currentPage, displayed, downloads>>

\* The old document is back, or could not be initialized again; the candidate
\* is destroyed in either case.
Restored ==
    /\ load = "restoring"
    /\ candidate' = None
    /\ installing' = FALSE
    /\ currentPage' = Clamp(currentPage, active)
    /\ EndLoad
    /\ UNCHANGED <<file, poll, active, displayed, viewer, env>>

\* The installation notices that its generation has passed; installing stays
\* set if PDF.js reports that as an error.
InstallCut ==
    /\ load = "installing"
    /\ ~current
    /\ installing' \in BOOLEAN
    /\ EndLoad
    /\ UNCHANGED <<file, poll, active, currentPage, displayed, candidate, viewer, env>>

-----------------------------------------------------------------------------
(***************************************************************************)
(* The user.                                                               *)
(***************************************************************************)
\* The viewer is scrolled, by showPage or by PDF.js itself: pagechanging.
PageChanging(n) ==
    /\ viewer # "none"
    /\ ~installing
    /\ currentPage' = IF active = None THEN 1 ELSE Clamp(n, active)
    /\ UNCHANGED <<file, poll, active, displayed, candidate, viewer, installing, ctl, env>>

\* The Download button assigns window.location: beforeunload runs although the
\* attachment leaves the page in place.
Download ==
    /\ active # None
    /\ downloads < MaxDownloads
    /\ downloads' = downloads + 1
    /\ current' = FALSE
    /\ active' = IF active = None THEN None ELSE [active EXCEPT !.alive = FALSE]
    /\ candidate' = IF candidate = None THEN None ELSE [candidate EXCEPT !.alive = FALSE]
    /\ UNCHANGED <<file, poll, currentPage, displayed, viewer, installing, loading, pendingVersion, stable,
                   load, from, faults>>

Request(p) == LivePDFInfo(p) \/ ReadTail(p) \/ PdfComplete(p) \/ Answer(p)
Loading == Fetched \/ FetchFails \/ Installed \/ InstallFails \/ Restored \/ InstallCut

Next ==
    \/ Compile \/ Loading \/ Download
    \/ \E p \in Polls : StartPoll(p) \/ Request(p) \/ PollFails(p)
    \/ \E n \in 1..MaxPages : PageChanging(n)

\* LaTeX finishes, the interval timer fires and what was asked for is answered.
Spec == Init /\ [][Next]_vars
FairSpec ==
    /\ Spec
    /\ WF_vars(Compile)
    /\ WF_vars(Loading)
    /\ \A p \in Polls : WF_vars(StartPoll(p)) /\ WF_vars(Request(p))

-----------------------------------------------------------------------------
(***************************************************************************)
(* Properties.                                                             *)
(***************************************************************************)
TypeOK ==
    /\ version \in 1..MaxVersion /\ pages \in 1..MaxPages
    /\ poll \in [Polls -> [step : {"idle", "asked", "stated", "read", "answered"},
                           seen : 0..MaxVersion, whole : BOOLEAN]]
    /\ \A d \in {active, candidate} :
          d = None \/ d \in [content : 0..MaxVersion, pages : 1..MaxPages, alive : BOOLEAN]
    /\ currentPage \in 1..MaxPages
    /\ {displayed, loading, pendingVersion, from} \subseteq 0..MaxVersion
    /\ stable \in 0..2
    /\ installing \in BOOLEAN /\ current \in BOOLEAN
    /\ load \in {"none", "fetching", "installing", "restoring"}
    /\ viewer \in {"none", "active", "candidate"}
    /\ load # "none" => loading # 0
    /\ active # None => currentPage <= active.pages \/ load = "installing"
    /\ faults \in 0..MaxFaults /\ downloads \in 0..MaxDownloads

\* README: the viewer waits for a completed file.  Whatever LaTeX does between
\* the two Stats, a version is reported ready only if it was complete, and only
\* such versions are loaded.
ReadyIsComplete ==
    /\ \A p \in Polls : poll[p].step = "answered" /\ poll[p].whole => Whole(poll[p].seen)
    /\ loading # 0 => Whole(loading)

\* The document in the viewer has not been destroyed, through updates, failed
\* installations and their rollback; and an update never blanks the view.
ShownIsAlive ==
    downloads = 0 =>
        /\ viewer = "active" => active # None /\ active.alive
        /\ viewer = "candidate" => candidate # None /\ candidate.alive
        /\ active # None => viewer # "none"

\* Both: what the page loads is whole, and what it shows is there.
ShowsWholeVersions == ReadyIsComplete /\ ShownIsAlive

\* Once LaTeX is done the page shows the last version, content and name, for
\* good: whatever overlapped, came late or failed before.  (A download that cut
\* a load short leaves loadingVersion set: then it may not.)
Stuck == downloads > 0 /\ loading # 0 /\ load = "none"
Follows == displayed = version /\ active # None /\ active.content = version
FollowsFile == <>[](Follows \/ Stuck)

\* README: follow a compiled PDF.
FollowsAlways == <>[](displayed = version)
=============================================================================
