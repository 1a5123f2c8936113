---------------------------- MODULE LivePage_proofs ----------------------------
(***************************************************************************)
(* Proofs about the live page: LivePDF, for any number of polls, versions, *)
(* pages, faults and downloads, and Viewing, for any documents, zooms,     *)
(* inputs and installations that throw.                                    *)
(*                                                                         *)
(* LivePDF: the types and ShowsWholeVersions.  No poll has seen a version  *)
(* later than the file's, so that two Stats that agree have nothing        *)
(* between them (Polled).  A load that no download has cut short is at a   *)
(* known place: its candidate is there exactly while it is in the viewer   *)
(* or the old document is put back (Placed).                               *)
(*                                                                         *)
(* Viewing: the types, ControlsTrue, PagesBelong and KeepsPlace.  A step   *)
(* is a chain of operators on the viewer's record; each has a lemma of     *)
(* what it keeps and what it brings about, also where the controls do not  *)
(* agree yet (AtRest), and each action one that joins them (Good).         *)
(***************************************************************************)
EXTENDS LivePDF, Viewing, FiniteSetTheorems, WellFoundedInduction, TLAPS


PollRecords ==
    [step : {"idle", "asked", "stated", "read", "answered"}, seen : 0..MaxVersion, whole : BOOLEAN]
Documents == [content : 0..MaxVersion, pages : 1..MaxPages, alive : BOOLEAN]

\* The types in four parts: the polls, the documents, two flags and the rest.
PollTypes == poll \in [Polls -> PollRecords]
DocumentTypes == \A d \in {active, candidate} : d = None \/ d \in Documents
Flags == installing \in BOOLEAN /\ current \in BOOLEAN
Numbers ==
    /\ version \in 1..MaxVersion /\ pages \in 1..MaxPages
    /\ currentPage \in 1..MaxPages
    /\ {displayed, loading, pendingVersion, from} \subseteq 0..MaxVersion
    /\ stable \in 0..2
    /\ load \in {"none", "fetching", "installing", "restoring"}
    /\ viewer \in {"none", "active", "candidate"}
    /\ load # "none" => loading # 0
    /\ faults \in 0..MaxFaults /\ downloads \in 0..MaxDownloads

\* What a poll has seen is not later than the file; what it read between two
\* equal versions is of that version.
Polled ==
    \A p \in Polls :
        /\ poll[p].step \notin {"idle", "asked"} => poll[p].seen <= version
        /\ poll[p].step = "read" /\ poll[p].whole /\ poll[p].seen = version => Whole(version)

\* The page never shows a number the document does not have.
Numbered == active # None => currentPage <= active.pages

\* A load has the document it waits for: its own, or the one it puts back.
Held ==
    /\ load = "installing" => candidate # None
    /\ load = "restoring" => active # None

\* Where a load that nobody cut short is, and which documents there are then.
Placed ==
    downloads = 0 =>
        /\ load # "none" => current
        /\ load = "installing" <=> viewer = "candidate"
        /\ viewer = "active" <=> active # None /\ load # "installing"
        /\ active # None => active.alive
        /\ candidate # None => candidate.alive

Types == PollTypes /\ DocumentTypes /\ Flags /\ Numbers

IInv == Types /\ ReadyIsComplete /\ Polled /\ Numbered /\ Held /\ Placed

-----------------------------------------------------------------------------
(***************************************************************************)
(* Documents.                                                              *)
(***************************************************************************)
\* A document is not the absence of one.
LEMMA DocumentExists ==
    \A v, n : Document(v, n) # None
  BY DEF Document, None

LEMMA DocumentFields ==
    \A v, n : /\ Document(v, n).content = v
              /\ Document(v, n).pages = n
              /\ Document(v, n).alive
  BY DEF Document

\* Destroying a document leaves it one.
LEMMA Destroyed ==
    \A d \in Documents : /\ [d EXCEPT !.alive = FALSE] \in Documents
                         /\ [d EXCEPT !.alive = FALSE].pages = d.pages
                         /\ [d EXCEPT !.alive = FALSE] # None
<1>1. \A d \in Documents : /\ [d EXCEPT !.alive = FALSE] \in Documents
                          /\ [d EXCEPT !.alive = FALSE].pages = d.pages
  BY DEF Documents
<1>2. \A c, n, a : [content |-> c, pages |-> n, alive |-> a] # None
  BY DEF None
<1>3. \A d \in Documents : d = [content |-> d.content, pages |-> d.pages, alive |-> d.alive]
  BY DEF Documents
<1>4. \A d \in Documents : d # None
  <2> SUFFICES ASSUME NEW d \in Documents, d = None PROVE FALSE
    OBVIOUS
  <2>1. [content |-> d.content, pages |-> d.pages, alive |-> d.alive] = None
    BY <1>3
  <2>2. QED
    BY <1>2, <2>1
<1>5. QED
  BY <1>1, <1>4, Zenon

\* Each part of the types is a conjunct or two of TypeOK.
LEMMA TypesGiven == Types /\ Numbered => TypeOK
<1> SUFFICES ASSUME Types, Numbered PROVE TypeOK
  OBVIOUS
<1>1. poll \in [Polls -> [step : {"idle", "asked", "stated", "read", "answered"},
                         seen : 0..MaxVersion, whole : BOOLEAN]]
  BY DEF Types, PollTypes, PollRecords
<1>2. \A d \in {active, candidate} :
         d = None \/ d \in [content : 0..MaxVersion, pages : 1..MaxPages, alive : BOOLEAN]
  BY DEF Types, DocumentTypes, Documents
<1>3. QED
  BY <1>1, <1>2, Zenon DEF TypeOK, Types, Flags, Numbers, Numbered

-----------------------------------------------------------------------------
(***************************************************************************)
(* The invariant.                                                          *)
(***************************************************************************)
LEMMA InitIInv == Init => IInv
<1> SUFFICES ASSUME Init PROVE IInv
  OBVIOUS
<1> USE LivePDFAssumption DEF Init
<1>1. Types
  <2>1. PollTypes
    <3>1. NoPoll \in PollRecords
      BY DEF NoPoll, PollRecords
    <3>2. QED
      BY <3>1, Zenon DEF PollTypes
  <2>2. DocumentTypes
    BY DEF DocumentTypes
  <2>3. Flags
    BY Zenon DEF Flags
  <2>4. Numbers
    <3>1. MaxVersion \in Nat /\ MaxVersion > 1
      OBVIOUS
    <3>2. CASE loading = 0
      BY <3>1, <3>2 DEF Numbers
    <3>3. CASE loading = 1
      BY <3>1, <3>3 DEF Numbers
    <3>4. QED
      BY <3>2, <3>3
  <2>5. QED
    BY <2>1, <2>2, <2>3, <2>4 DEF Types
<1>2. ReadyIsComplete
  BY DEF ReadyIsComplete, NoPoll, Whole
<1>3. Polled
  BY DEF Polled, NoPoll
<1>4. Numbered /\ Held
  BY DEF Numbered, Held
<1>5. Placed
  BY DEF Placed
<1>6. QED
  BY <1>1, <1>2, <1>3, <1>4, <1>5 DEF IInv

\* Every action keeps the types: of the polls,
LEMMA PollTypesStep == IInv /\ [Next]_vars => PollTypes'
<1> SUFFICES ASSUME IInv, [Next]_vars PROVE PollTypes'
  OBVIOUS
<1> USE LivePDFAssumption DEF IInv, Types, PollTypes, Numbers, file, doc, ctl, env
<1>1. CASE Compile
  BY <1>1 DEF Compile
<1>2. CASE Fetched
  BY <1>2 DEF Fetched
<1>3. CASE FetchFails
  BY <1>3 DEF FetchFails, EndLoad
<1>4. CASE Installed
  BY <1>4 DEF Installed, EndLoad, Clamp
<1>5. CASE InstallFails
  BY <1>5 DEF InstallFails, EndLoad
<1>6. CASE Restored
  BY <1>6 DEF Restored, EndLoad, Clamp
<1>7. CASE InstallCut
  BY <1>7 DEF InstallCut, EndLoad
<1>8. CASE Download
  BY <1>8 DEF Download
<1>9. ASSUME NEW p \in Polls, StartPoll(p)
      PROVE  PollTypes'
  <2>1. poll[p] \in PollRecords
    OBVIOUS
  <2>2. [poll[p] EXCEPT !.step = "asked"] \in PollRecords
    BY <2>1 DEF PollRecords, Whole, Numbers
  <2>3. poll' = [poll EXCEPT ![p] = [poll[p] EXCEPT !.step = "asked"]]
    BY <1>9 DEF StartPoll
  <2>4. QED
    BY <2>2, <2>3, Zenon
<1>10. ASSUME NEW p \in Polls, LivePDFInfo(p)
      PROVE  PollTypes'
  <2>1. poll[p] \in PollRecords
    OBVIOUS
  <2>2. [poll[p] EXCEPT !.step = "stated", !.seen = version] \in PollRecords
    <3>1. version \in 0..MaxVersion
      BY DEF Numbers
    <3>2. QED
      BY <2>1, <3>1 DEF PollRecords
  <2>3. poll' = [poll EXCEPT ![p] = [poll[p] EXCEPT !.step = "stated", !.seen = version]]
    BY <1>10 DEF LivePDFInfo
  <2>4. QED
    BY <2>2, <2>3, Zenon
<1>11. ASSUME NEW p \in Polls, ReadTail(p)
      PROVE  PollTypes'
  <2>1. poll[p] \in PollRecords
    OBVIOUS
  <2>2. [poll[p] EXCEPT !.step = "read", !.whole = Whole(version)] \in PollRecords
    BY <2>1 DEF PollRecords, Whole, Numbers
  <2>3. poll' = [poll EXCEPT ![p] = [poll[p] EXCEPT !.step = "read", !.whole = Whole(version)]]
    BY <1>11 DEF ReadTail
  <2>4. QED
    BY <2>2, <2>3, Zenon
<1>12. ASSUME NEW p \in Polls, PdfComplete(p)
      PROVE  PollTypes'
  <2>1. poll[p] \in PollRecords
    OBVIOUS
  <2>2. [poll[p] EXCEPT !.step = "answered", !.whole = (poll[p].whole /\ version = poll[p].seen)]
          \in PollRecords
    BY <2>1 DEF PollRecords, Whole, Numbers
  <2>3. poll' = [poll EXCEPT ![p] =
                   [poll[p] EXCEPT !.step = "answered",
                                   !.whole = (poll[p].whole /\ version = poll[p].seen)]]
    BY <1>12 DEF PdfComplete
  <2>4. QED
    BY <2>2, <2>3, Zenon
<1>13. ASSUME NEW p \in Polls, Answer(p)
      PROVE  PollTypes'
  <2>1. NoPoll \in PollRecords
    BY DEF NoPoll, PollRecords
  <2>2. QED
    BY <1>13, <2>1, Zenon DEF Answer
<1>14. ASSUME NEW p \in Polls, PollFails(p)
      PROVE  PollTypes'
  <2>1. NoPoll \in PollRecords
    BY DEF NoPoll, PollRecords
  <2>2. QED
    BY <1>14, <2>1, Zenon DEF PollFails
<1>15. ASSUME NEW n \in 1..MaxPages, PageChanging(n)
      PROVE  PollTypes'
  BY <1>15 DEF PageChanging, Clamp
<1>16. CASE UNCHANGED vars
  BY <1>16 DEF vars
<1>17. QED
  BY <1>1, <1>2, <1>3, <1>4, <1>5, <1>6, <1>7, <1>8, <1>9, <1>10,
     <1>11, <1>12, <1>13, <1>14, <1>15, <1>16
     DEF Next, Loading, Request

\* of the documents,
LEMMA DocumentTypesStep == IInv /\ [Next]_vars => DocumentTypes'
<1> SUFFICES ASSUME IInv, [Next]_vars PROVE DocumentTypes'
  OBVIOUS
<1> USE LivePDFAssumption DEF IInv, Types, DocumentTypes, Numbers, file, doc, ctl, env
<1>1. CASE Compile
  BY <1>1 DEF Compile
<1>2. CASE Fetched
  <2>1. Document(version, pages) \in Documents /\ Document(0, pages) \in Documents
    BY DEF Document, Documents, Numbers
  <2>2. active' = active /\ candidate' \in {Document(version, pages), Document(0, pages)}
    BY <1>2 DEF Fetched
  <2>3. QED
    BY <2>1, <2>2, Zenon
<1>3. CASE FetchFails
  BY <1>3 DEF FetchFails, EndLoad
<1>4. CASE Installed
  BY <1>4 DEF Installed, EndLoad, Clamp
<1>5. CASE InstallFails
  BY <1>5 DEF InstallFails, EndLoad
<1>6. CASE Restored
  BY <1>6 DEF Restored, EndLoad, Clamp
<1>7. CASE InstallCut
  BY <1>7 DEF InstallCut, EndLoad
<1>8. CASE Download
  <2>1. \A d \in Documents : [d EXCEPT !.alive = FALSE] \in Documents
    BY Destroyed
  <2>2. /\ active = None => active' = None
        /\ active # None => active' = [active EXCEPT !.alive = FALSE]
        /\ candidate = None => candidate' = None
        /\ candidate # None => candidate' = [candidate EXCEPT !.alive = FALSE]
    BY <1>8 DEF Download
  <2>3. (active = None \/ active \in Documents) /\ (candidate = None \/ candidate \in Documents)
    BY DEF DocumentTypes
  <2>4. active' = None \/ active' \in Documents
    BY <2>1, <2>2, <2>3, Zenon
  <2>5. candidate' = None \/ candidate' \in Documents
    BY <2>1, <2>2, <2>3, Zenon
  <2>6. QED
    BY <2>4, <2>5
<1>9. ASSUME NEW p \in Polls, StartPoll(p)
      PROVE  DocumentTypes'
  BY <1>9 DEF StartPoll
<1>10. ASSUME NEW p \in Polls, LivePDFInfo(p)
      PROVE  DocumentTypes'
  BY <1>10 DEF LivePDFInfo
<1>11. ASSUME NEW p \in Polls, ReadTail(p)
      PROVE  DocumentTypes'
  BY <1>11 DEF ReadTail
<1>12. ASSUME NEW p \in Polls, PdfComplete(p)
      PROVE  DocumentTypes'
  BY <1>12 DEF PdfComplete
<1>13. ASSUME NEW p \in Polls, Answer(p)
      PROVE  DocumentTypes'
  BY <1>13 DEF Answer, ForgetPending, ObserveVersion, LoadVersion
<1>14. ASSUME NEW p \in Polls, PollFails(p)
      PROVE  DocumentTypes'
  BY <1>14 DEF PollFails
<1>15. ASSUME NEW n \in 1..MaxPages, PageChanging(n)
      PROVE  DocumentTypes'
  BY <1>15 DEF PageChanging, Clamp
<1>16. CASE UNCHANGED vars
  BY <1>16 DEF vars
<1>17. QED
  BY <1>1, <1>2, <1>3, <1>4, <1>5, <1>6, <1>7, <1>8, <1>9, <1>10,
     <1>11, <1>12, <1>13, <1>14, <1>15, <1>16
     DEF Next, Loading, Request

\* of the flags,
LEMMA FlagsStep == IInv /\ [Next]_vars => Flags'
<1> SUFFICES ASSUME IInv, [Next]_vars PROVE Flags'
  OBVIOUS
<1> USE LivePDFAssumption DEF IInv, Types, Flags, file, doc, ctl, env
<1>1. CASE Compile
  BY <1>1 DEF Compile
<1>2. CASE Fetched
  BY <1>2 DEF Fetched
<1>3. CASE FetchFails
  BY <1>3 DEF FetchFails, EndLoad
<1>4. CASE Installed
  BY <1>4 DEF Installed, EndLoad, Clamp
<1>5. CASE InstallFails
  BY <1>5 DEF InstallFails, EndLoad
<1>6. CASE Restored
  BY <1>6 DEF Restored, EndLoad, Clamp
<1>7. CASE InstallCut
  BY <1>7 DEF InstallCut, EndLoad
<1>8. CASE Download
  BY <1>8 DEF Download
<1>9. ASSUME NEW p \in Polls, StartPoll(p)
      PROVE  Flags'
  BY <1>9 DEF StartPoll
<1>10. ASSUME NEW p \in Polls, LivePDFInfo(p)
      PROVE  Flags'
  BY <1>10 DEF LivePDFInfo
<1>11. ASSUME NEW p \in Polls, ReadTail(p)
      PROVE  Flags'
  BY <1>11 DEF ReadTail
<1>12. ASSUME NEW p \in Polls, PdfComplete(p)
      PROVE  Flags'
  BY <1>12 DEF PdfComplete
<1>13. ASSUME NEW p \in Polls, Answer(p)
      PROVE  Flags'
  BY <1>13 DEF Answer, ForgetPending, ObserveVersion, LoadVersion
<1>14. ASSUME NEW p \in Polls, PollFails(p)
      PROVE  Flags'
  BY <1>14 DEF PollFails
<1>15. ASSUME NEW n \in 1..MaxPages, PageChanging(n)
      PROVE  Flags'
  BY <1>15 DEF PageChanging, Clamp
<1>16. CASE UNCHANGED vars
  BY <1>16 DEF vars
<1>17. QED
  BY <1>1, <1>2, <1>3, <1>4, <1>5, <1>6, <1>7, <1>8, <1>9, <1>10,
     <1>11, <1>12, <1>13, <1>14, <1>15, <1>16
     DEF Next, Loading, Request

\* and of the rest.
LEMMA NumbersStep == IInv /\ [Next]_vars => Numbers'
<1> SUFFICES ASSUME IInv, [Next]_vars PROVE Numbers'
  OBVIOUS
<1> USE LivePDFAssumption DEF IInv, Types, Numbers, Flags, file, doc, ctl, env
<1>1. CASE Compile
  BY <1>1 DEF Compile
<1>2. CASE Fetched
  BY <1>2 DEF Fetched
<1>3. CASE FetchFails
  BY <1>3 DEF FetchFails, EndLoad
<1>4. CASE Installed
  <2>1. candidate \in Documents
    BY <1>4 DEF Installed, Held, DocumentTypes
  <2>2. currentPage' \in 1..MaxPages
    BY <1>4, <2>1 DEF Installed, Clamp, Documents
  <2>3. QED
    BY <1>4, <2>2 DEF Installed, EndLoad
<1>5. CASE InstallFails
  <2>1. CASE active # None
    BY <1>5, <2>1 DEF InstallFails
  <2>2. CASE active = None
    BY <1>5, <2>2 DEF InstallFails, EndLoad
  <2>3. QED
    BY <2>1, <2>2
<1>6. CASE Restored
  <2>1. active \in Documents
    BY <1>6 DEF Restored, Held, DocumentTypes
  <2>2. currentPage' \in 1..MaxPages
    BY <1>6, <2>1 DEF Restored, Clamp, Documents
  <2>3. QED
    BY <1>6, <2>2 DEF Restored, EndLoad
<1>7. CASE InstallCut
  BY <1>7 DEF InstallCut, EndLoad
<1>8. CASE Download
  BY <1>8 DEF Download
<1>9. ASSUME NEW p \in Polls, StartPoll(p)
      PROVE  Numbers'
  BY <1>9 DEF StartPoll
<1>10. ASSUME NEW p \in Polls, LivePDFInfo(p)
      PROVE  Numbers'
  BY <1>10 DEF LivePDFInfo
<1>11. ASSUME NEW p \in Polls, ReadTail(p)
      PROVE  Numbers'
  BY <1>11 DEF ReadTail
<1>12. ASSUME NEW p \in Polls, PdfComplete(p)
      PROVE  Numbers'
  BY <1>12 DEF PdfComplete
<1>13. ASSUME NEW p \in Polls, Answer(p)
      PROVE  Numbers'
  <2>1. CASE ForgetPending(p)
    BY <1>13, <2>1 DEF Answer, ForgetPending
  <2>2. CASE ObserveVersion(p)
    <3>1. poll[p].seen \in 0..MaxVersion
      BY DEF PollTypes, PollRecords
    <3>2. CASE stable' = 2 /\ loading = 0
      BY <1>13, <2>2, <3>1, <3>2 DEF Answer, ObserveVersion, LoadVersion
    <3>3. CASE ~(stable' = 2 /\ loading = 0)
      BY <1>13, <2>2, <3>1, <3>3 DEF Answer, ObserveVersion
    <3>4. QED
      BY <3>2, <3>3
  <2>3. QED
    BY <1>13, <2>1, <2>2 DEF Answer
<1>14. ASSUME NEW p \in Polls, PollFails(p)
      PROVE  Numbers'
  BY <1>14 DEF PollFails
<1>15. ASSUME NEW n \in 1..MaxPages, PageChanging(n)
      PROVE  Numbers'
  <2>1. active = None \/ active \in Documents
    BY DEF DocumentTypes
  <2>2. currentPage' \in 1..MaxPages
    BY <1>15, <2>1 DEF PageChanging, Clamp, Documents
  <2>3. QED
    BY <1>15, <2>2 DEF PageChanging
<1>16. CASE UNCHANGED vars
  BY <1>16 DEF vars
<1>17. QED
  BY <1>1, <1>2, <1>3, <1>4, <1>5, <1>6, <1>7, <1>8, <1>9, <1>10,
     <1>11, <1>12, <1>13, <1>14, <1>15, <1>16
     DEF Next, Loading, Request

\* A version is told to be ready, and is loaded, only if it was whole.
LEMMA ReadyStep == IInv /\ [Next]_vars => ReadyIsComplete'
<1> SUFFICES ASSUME IInv, [Next]_vars PROVE ReadyIsComplete'
  OBVIOUS
<1> USE LivePDFAssumption
        DEF IInv, Types, PollTypes, PollRecords, Numbers, ReadyIsComplete, Polled, NoPoll, file,
            doc, ctl, env
<1>1. CASE Compile
  BY <1>1 DEF Compile
<1>2. CASE Fetched
  BY <1>2 DEF Fetched
<1>3. CASE FetchFails
  BY <1>3 DEF FetchFails, EndLoad
<1>4. CASE Installed
  BY <1>4 DEF Installed, EndLoad, Clamp
<1>5. CASE InstallFails
  BY <1>5 DEF InstallFails, EndLoad
<1>6. CASE Restored
  BY <1>6 DEF Restored, EndLoad, Clamp
<1>7. CASE InstallCut
  BY <1>7 DEF InstallCut, EndLoad
<1>8. CASE Download
  BY <1>8 DEF Download
<1>9. ASSUME NEW p \in Polls, StartPoll(p)
      PROVE  ReadyIsComplete'
  BY <1>9 DEF StartPoll
<1>10. ASSUME NEW p \in Polls, LivePDFInfo(p)
      PROVE  ReadyIsComplete'
  BY <1>10 DEF LivePDFInfo
<1>11. ASSUME NEW p \in Polls, ReadTail(p)
      PROVE  ReadyIsComplete'
  BY <1>11 DEF ReadTail
<1>12. ASSUME NEW p \in Polls, PdfComplete(p)
      PROVE  ReadyIsComplete'
  BY <1>12 DEF PdfComplete
<1>13. ASSUME NEW p \in Polls, Answer(p)
      PROVE  ReadyIsComplete'
  BY <1>13 DEF Answer, ForgetPending, ObserveVersion, LoadVersion
<1>14. ASSUME NEW p \in Polls, PollFails(p)
      PROVE  ReadyIsComplete'
  BY <1>14 DEF PollFails
<1>15. ASSUME NEW n \in 1..MaxPages, PageChanging(n)
      PROVE  ReadyIsComplete'
  BY <1>15 DEF PageChanging, Clamp
<1>16. CASE UNCHANGED vars
  BY <1>16 DEF vars
<1>17. QED
  BY <1>1, <1>2, <1>3, <1>4, <1>5, <1>6, <1>7, <1>8, <1>9, <1>10,
     <1>11, <1>12, <1>13, <1>14, <1>15, <1>16
     DEF Next, Loading, Request

\* What the two Stats enclose is of one version.
LEMMA PolledStep == IInv /\ [Next]_vars => Polled'
<1> SUFFICES ASSUME IInv, [Next]_vars PROVE Polled'
  OBVIOUS
<1> USE LivePDFAssumption
        DEF IInv, Types, PollTypes, PollRecords, Numbers, Polled, NoPoll, file, doc, ctl, env
<1>1. CASE Compile
  BY <1>1 DEF Compile
<1>2. CASE Fetched
  BY <1>2 DEF Fetched
<1>3. CASE FetchFails
  BY <1>3 DEF FetchFails, EndLoad
<1>4. CASE Installed
  BY <1>4 DEF Installed, EndLoad, Clamp
<1>5. CASE InstallFails
  BY <1>5 DEF InstallFails, EndLoad
<1>6. CASE Restored
  BY <1>6 DEF Restored, EndLoad, Clamp
<1>7. CASE InstallCut
  BY <1>7 DEF InstallCut, EndLoad
<1>8. CASE Download
  BY <1>8 DEF Download
<1>9. ASSUME NEW p \in Polls, StartPoll(p)
      PROVE  Polled'
  BY <1>9 DEF StartPoll
<1>10. ASSUME NEW p \in Polls, LivePDFInfo(p)
      PROVE  Polled'
  BY <1>10 DEF LivePDFInfo
<1>11. ASSUME NEW p \in Polls, ReadTail(p)
      PROVE  Polled'
  BY <1>11 DEF ReadTail
<1>12. ASSUME NEW p \in Polls, PdfComplete(p)
      PROVE  Polled'
  BY <1>12 DEF PdfComplete
<1>13. ASSUME NEW p \in Polls, Answer(p)
      PROVE  Polled'
  BY <1>13 DEF Answer, ForgetPending, ObserveVersion, LoadVersion
<1>14. ASSUME NEW p \in Polls, PollFails(p)
      PROVE  Polled'
  BY <1>14 DEF PollFails
<1>15. ASSUME NEW n \in 1..MaxPages, PageChanging(n)
      PROVE  Polled'
  BY <1>15 DEF PageChanging, Clamp
<1>16. CASE UNCHANGED vars
  BY <1>16 DEF vars
<1>17. QED
  BY <1>1, <1>2, <1>3, <1>4, <1>5, <1>6, <1>7, <1>8, <1>9, <1>10,
     <1>11, <1>12, <1>13, <1>14, <1>15, <1>16
     DEF Next, Loading, Request

\* The page number is clamped whenever the document changes.
LEMMA NumberedStep == IInv /\ [Next]_vars => Numbered'
<1> SUFFICES ASSUME IInv, [Next]_vars PROVE Numbered'
  OBVIOUS
<1> USE LivePDFAssumption
        DEF IInv, Types, DocumentTypes, Documents, Numbers, Numbered, Held, file, doc, ctl, env
<1>1. CASE Compile
  BY <1>1 DEF Compile
<1>2. CASE Fetched
  BY <1>2 DEF Fetched
<1>3. CASE FetchFails
  BY <1>3 DEF FetchFails, EndLoad
<1>4. CASE Installed
  BY <1>4 DEF Installed, EndLoad, Clamp
<1>5. CASE InstallFails
  BY <1>5 DEF InstallFails, EndLoad
<1>6. CASE Restored
  BY <1>6 DEF Restored, EndLoad, Clamp
<1>7. CASE InstallCut
  BY <1>7 DEF InstallCut, EndLoad
<1>8. CASE Download
  BY <1>8 DEF Download
<1>9. ASSUME NEW p \in Polls, StartPoll(p)
      PROVE  Numbered'
  BY <1>9 DEF StartPoll
<1>10. ASSUME NEW p \in Polls, LivePDFInfo(p)
      PROVE  Numbered'
  BY <1>10 DEF LivePDFInfo
<1>11. ASSUME NEW p \in Polls, ReadTail(p)
      PROVE  Numbered'
  BY <1>11 DEF ReadTail
<1>12. ASSUME NEW p \in Polls, PdfComplete(p)
      PROVE  Numbered'
  BY <1>12 DEF PdfComplete
<1>13. ASSUME NEW p \in Polls, Answer(p)
      PROVE  Numbered'
  BY <1>13 DEF Answer, ForgetPending, ObserveVersion, LoadVersion
<1>14. ASSUME NEW p \in Polls, PollFails(p)
      PROVE  Numbered'
  BY <1>14 DEF PollFails
<1>15. ASSUME NEW n \in 1..MaxPages, PageChanging(n)
      PROVE  Numbered'
  BY <1>15 DEF PageChanging, Clamp
<1>16. CASE UNCHANGED vars
  BY <1>16 DEF vars
<1>17. QED
  BY <1>1, <1>2, <1>3, <1>4, <1>5, <1>6, <1>7, <1>8, <1>9, <1>10,
     <1>11, <1>12, <1>13, <1>14, <1>15, <1>16
     DEF Next, Loading, Request

\* A load keeps its documents.
LEMMA HeldStep == IInv /\ [Next]_vars => Held'
<1> SUFFICES ASSUME IInv, [Next]_vars PROVE Held'
  OBVIOUS
<1> USE LivePDFAssumption DEF IInv, Types, DocumentTypes, Numbers, Held, file, doc, ctl, env
<1>1. CASE Compile
  BY <1>1 DEF Compile
<1>2. CASE Fetched
  BY <1>2, DocumentExists, DocumentFields DEF Fetched
<1>3. CASE FetchFails
  BY <1>3 DEF FetchFails, EndLoad
<1>4. CASE Installed
  BY <1>4 DEF Installed, EndLoad, Clamp
<1>5. CASE InstallFails
  BY <1>5 DEF InstallFails, EndLoad
<1>6. CASE Restored
  BY <1>6 DEF Restored, EndLoad, Clamp
<1>7. CASE InstallCut
  BY <1>7 DEF InstallCut, EndLoad
<1>8. CASE Download
  <2>1. (active = None \/ active \in Documents) /\ (candidate = None \/ candidate \in Documents)
    BY DEF DocumentTypes
  <2>2. active # None => active' # None
    BY <1>8, <2>1, Destroyed DEF Download
  <2>3. candidate # None => candidate' # None
    BY <1>8, <2>1, Destroyed DEF Download
  <2>4. QED
    BY <1>8, <2>2, <2>3 DEF Download
<1>9. ASSUME NEW p \in Polls, StartPoll(p)
      PROVE  Held'
  BY <1>9 DEF StartPoll
<1>10. ASSUME NEW p \in Polls, LivePDFInfo(p)
      PROVE  Held'
  BY <1>10 DEF LivePDFInfo
<1>11. ASSUME NEW p \in Polls, ReadTail(p)
      PROVE  Held'
  BY <1>11 DEF ReadTail
<1>12. ASSUME NEW p \in Polls, PdfComplete(p)
      PROVE  Held'
  BY <1>12 DEF PdfComplete
<1>13. ASSUME NEW p \in Polls, Answer(p)
      PROVE  Held'
  BY <1>13 DEF Answer, ForgetPending, ObserveVersion, LoadVersion
<1>14. ASSUME NEW p \in Polls, PollFails(p)
      PROVE  Held'
  BY <1>14 DEF PollFails
<1>15. ASSUME NEW n \in 1..MaxPages, PageChanging(n)
      PROVE  Held'
  BY <1>15 DEF PageChanging, Clamp
<1>16. CASE UNCHANGED vars
  BY <1>16 DEF vars
<1>17. QED
  BY <1>1, <1>2, <1>3, <1>4, <1>5, <1>6, <1>7, <1>8, <1>9, <1>10,
     <1>11, <1>12, <1>13, <1>14, <1>15, <1>16
     DEF Next, Loading, Request

\* An update that nobody cuts short moves from one live document to another.
LEMMA PlacedStep == IInv /\ [Next]_vars => Placed'
<1> SUFFICES ASSUME IInv, [Next]_vars PROVE Placed'
  OBVIOUS
<1> USE LivePDFAssumption DEF IInv, Types, Numbers, Flags, Held, Placed, file, doc, ctl, env
<1>1. CASE Compile
  BY <1>1 DEF Compile
<1>2. CASE Fetched
  BY <1>2, DocumentExists, DocumentFields DEF Fetched
<1>3. CASE FetchFails
  BY <1>3 DEF FetchFails, EndLoad
<1>4. CASE Installed
  BY <1>4 DEF Installed, EndLoad, Clamp
<1>5. CASE InstallFails
  BY <1>5 DEF InstallFails, EndLoad
<1>6. CASE Restored
  BY <1>6 DEF Restored, EndLoad, Clamp
<1>7. CASE InstallCut
  BY <1>7 DEF InstallCut, EndLoad
<1>8. CASE Download
  BY <1>8 DEF Download
<1>9. ASSUME NEW p \in Polls, StartPoll(p)
      PROVE  Placed'
  BY <1>9 DEF StartPoll
<1>10. ASSUME NEW p \in Polls, LivePDFInfo(p)
      PROVE  Placed'
  BY <1>10 DEF LivePDFInfo
<1>11. ASSUME NEW p \in Polls, ReadTail(p)
      PROVE  Placed'
  BY <1>11 DEF ReadTail
<1>12. ASSUME NEW p \in Polls, PdfComplete(p)
      PROVE  Placed'
  BY <1>12 DEF PdfComplete
<1>13. ASSUME NEW p \in Polls, Answer(p)
      PROVE  Placed'
  BY <1>13 DEF Answer, ForgetPending, ObserveVersion, LoadVersion
<1>14. ASSUME NEW p \in Polls, PollFails(p)
      PROVE  Placed'
  BY <1>14 DEF PollFails
<1>15. ASSUME NEW n \in 1..MaxPages, PageChanging(n)
      PROVE  Placed'
  BY <1>15 DEF PageChanging, Clamp
<1>16. CASE UNCHANGED vars
  BY <1>16 DEF vars
<1>17. QED
  BY <1>1, <1>2, <1>3, <1>4, <1>5, <1>6, <1>7, <1>8, <1>9, <1>10,
     <1>11, <1>12, <1>13, <1>14, <1>15, <1>16
     DEF Next, Loading, Request

LEMMA IInvStep == IInv /\ [Next]_vars => IInv'
  BY PollTypesStep, DocumentTypesStep, FlagsStep, NumbersStep,
     ReadyStep, PolledStep, NumberedStep, HeldStep, PlacedStep
     DEF IInv, Types

\* The invariant holds in every behaviour.
LEMMA Invariance == Spec => []IInv
<1>1. IInv /\ [Next]_vars => IInv'
  BY IInvStep
<1>2. QED
  BY InitIInv, <1>1, PTL DEF Spec

-----------------------------------------------------------------------------
(***************************************************************************)
(* The theorems.                                                           *)
(***************************************************************************)
\* Every variable keeps its type, and the page number is one of the document.
THEOREM TypeCorrect == Spec => []TypeOK
<1>1. IInv => TypeOK
  BY TypesGiven DEF IInv
<1>2. QED
  BY Invariance, <1>1, PTL

\* Whatever LaTeX writes between the two Stats and however many polls overlap,
\* only complete versions are loaded; and through updates, failed installations
\* and their rollback the viewer shows a document that has not been destroyed.
THEOREM WholeVersionsShown == Spec => []ShowsWholeVersions
<1>1. IInv => ShowsWholeVersions
  <2> SUFFICES ASSUME IInv PROVE ShowsWholeVersions
    OBVIOUS
  <2>1. downloads = 0 =>
          /\ viewer = "active" => active # None /\ active.alive
          /\ viewer = "candidate" => candidate # None /\ candidate.alive
    BY Zenon DEF IInv, Placed, Held
  <2>2. downloads = 0 => (active # None => viewer # "none")
    BY DEF IInv, Placed
  <2>3. QED
    BY <2>1, <2>2, Zenon DEF IInv, ShowsWholeVersions, ShownIsAlive
<1>2. QED
  BY Invariance, <1>1, PTL

-----------------------------------------------------------------------------
(***************************************************************************)
(* Viewing: numbers.                                                       *)
(***************************************************************************)

\* A set of numbers has a least one: the order of the numbers is well-founded.
LEMMA WellOrdered ==
    ASSUME NEW T \in SUBSET Nat, T # {}
    PROVE  /\ Least(T) \in T
           /\ \A n \in T : Least(T) <= n
<1>1. \E x \in T : \A y \in T : ~(<<y, x>> \in OpToRel(<, Nat))
  BY WFMin, NatLessThanWellFounded, Zenon
<1>2. PICK x \in T : \A y \in T : ~(<<y, x>> \in OpToRel(<, Nat))
  BY <1>1
<1>3. \A y \in T : ~(y < x)
  BY <1>2 DEF OpToRel
<1>4. \A y \in T : x <= y
  BY <1>3
<1> QED
  BY <1>4 DEF Least

\* The larger and the smaller of two numbers.
LEMMA MaxOfTwo ==
    ASSUME NEW a \in Int, NEW b \in Int
    PROVE  Max({a, b}) = IF a >= b THEN a ELSE b
<1> DEFINE m == IF a >= b THEN a ELSE b
<1>1. m \in {a, b} /\ \A y \in {a, b} : m >= y
  OBVIOUS
<1>2. \A x \in {a, b} : (\A y \in {a, b} : x >= y) => x = m
  OBVIOUS
<1> HIDE DEF m
<1>3. Max({a, b}) = m
  BY <1>1, <1>2 DEF Max
<1> QED
  BY <1>3 DEF m

LEMMA MinOfTwo ==
    ASSUME NEW a \in Int, NEW b \in Int
    PROVE  Min({a, b}) = IF a <= b THEN a ELSE b
<1> DEFINE m == IF a <= b THEN a ELSE b
<1>1. m \in {a, b} /\ \A y \in {a, b} : m <= y
  OBVIOUS
<1>2. \A x \in {a, b} : (\A y \in {a, b} : x <= y) => x = m
  OBVIOUS
<1> HIDE DEF m
<1>3. Min({a, b}) = m
  BY <1>1, <1>2 DEF Min
<1> QED
  BY <1>3 DEF m

\* Products grow with their factors.
LEMMA Products ==
    ASSUME NEW a \in Nat, NEW b \in Nat, NEW k \in Nat \ {0}
    PROVE  /\ a * k \in Nat
           /\ (a + 1) * k = a * k + k
           /\ a <= b => a * k <= b * k
           /\ a * k < b * k => a < b
  OBVIOUS

\* Division, for a position on a page.
LEMMA Quotients ==
    ASSUME NEW t \in Nat, NEW k \in Nat \ {0}
    PROVE  /\ t \div k \in Nat
           /\ (t \div k) * k <= t
           /\ t < (t \div k) * k + k
  OBVIOUS

-----------------------------------------------------------------------------
(***************************************************************************)
(* The viewer's record, and what holds of it also within a step.           *)
(***************************************************************************)
Known == 0 .. Len(Docs)
Locations == [page : Nat, top : Int]
Marks == [option : {v.name : v \in Options} \cup {NoOption}, scale : Nat]
Controls == [page : Nat, pages : Nat, zoom : Marks]
ViewRecords ==
    [doc : Known, pages : Seq(Known), cur : Nat, scale : Nat, value : Values \cup {Empty},
     loc : Locations \cup {Empty}, mode : {"vertical", "page"}, shown : SUBSET Nat, top : Nat,
     moved : BOOLEAN, active : Known, page : Nat, zoom : Values, installing : BOOLEAN,
     shows : Controls]

\* There are pages, and they are those of the document.
Open(w) == w.pages # Empty

\* The numbers of pages exist.
PagesExist(w) ==
    /\ w.cur \in 1 .. PagesCount(w)
    /\ w.loc # Empty => w.loc.page \in 1 .. PagesCount(w)

Loose(w) ==
    /\ w \in ViewRecords
    /\ Open(w) => w.doc # 0 /\ PagesCount(w) = Docs[w.doc] /\ PagesExist(w)
    /\ ~Open(w) => w.cur = 1 /\ w.loc = Empty /\ w.shown = {}
    /\ w.page \in 1 .. ActivePages(w)

Paged(w) == Open(w) /\ w.mode = "page" => w.shown = {w.cur}
Within(w) == Open(w) => w.top <= MaxTop(w)
InView(w) == w.cur \in Visible(w)
Exact(w) ==
    w.loc = [page |-> Least(Visible(w)), top |-> PagePoint(w, w.top - Top(w, Least(Visible(w))))]
\* The current page can be seen, or it ends where the view begins.
NearView(w) == InView(w) \/ EndsAbove(w, w.cur)

\* Documents have pages.
LEMMA Counts ==
    ASSUME NEW w, w \in ViewRecords
    PROVE  /\ Len(Docs) \in Nat
           /\ \A d \in Known \ {0} : Docs[d] \in Nat \ {0}
           /\ ActivePages(w) \in Nat \ {0}
           /\ PagesCount(w) \in Nat
           /\ Open(w) <=> PagesCount(w) # 0
<1>1. Docs \in Seq(Nat \ {0})
  BY ViewingAssumption
<1>2. w.active \in Known /\ w.pages \in Seq(Known)
  BY DEF ViewRecords
<1>3. PagesCount(w) \in Nat /\ (Open(w) <=> PagesCount(w) # 0)
  BY <1>2 DEF PagesCount, Open, Empty
<1>4. \A d \in Known \ {0} : Docs[d] \in Nat \ {0}
  BY <1>1 DEF Known
<1> QED
  BY <1>1, <1>2, <1>3, <1>4 DEF ActivePages, Known

\* A page has a height.
LEMMA Heights ==
    ASSUME NEW w, w \in ViewRecords
    PROVE  Scale(w) \in Nat \ {0} /\ Height \in Nat \ {0}
<1>1. w.scale \in Nat
  BY DEF ViewRecords
<1> QED
  BY <1>1, ViewingAssumption DEF Scale

\* A place in a page, in points and back: half a point of the page that is
\* below it is not lost.
LEMMA Places ==
    ASSUME NEW w, w \in ViewRecords, NEW f \in 0 .. (Scale(w) - 1)
    PROVE  /\ PagePoint(w, f) \in 0 .. Points
           /\ 2 * Points * (Scale(w) - f) >= Scale(w) => PagePoint(w, f) # 0
<1> DEFINE h == Scale(w)
           g == h - f
           P == Points
           m == P * g
           k == 2 * h
           q == (2 * P * g + h) \div k
<1>1. h \in Nat \ {0} /\ P \in Nat \ {0}
  BY Heights, ViewingAssumption
<1>2. f \in 0 .. (h - 1)
  OBVIOUS
<1>3. PagePoint(w, f) = q
  BY DEF PagePoint
<1> HIDE DEF h, P
<1>4. g \in 1 .. h /\ g \in Nat /\ k \in Nat \ {0}
  BY <1>1, <1>2
<1> HIDE DEF g
<1>5. m \in Nat /\ m <= P * h /\ P * h \in Nat /\ 2 * P * g = 2 * m
  BY <1>1, <1>4
<1> HIDE DEF m
<1>6. (2 * m + h) \in Nat /\ q = (2 * m + h) \div k
  BY <1>1, <1>5
<1> HIDE DEF k
<1>7. q \in Nat /\ q * k <= 2 * m + h /\ 2 * m + h < q * k + k
  BY <1>4, <1>6, Quotients
<1> HIDE DEF q
<1>8. P * k = 2 * (P * h) /\ (P + 1) * k = P * k + k /\ q * k \in Nat
  BY <1>1, <1>4, <1>7, Products DEF k
<1>9. q * k < (P + 1) * k
  BY <1>1, <1>5, <1>7, <1>8 DEF k
<1>10. q < P + 1
  BY <1>1, <1>4, <1>7, <1>9, Products
<1>11. ASSUME 2 * m >= h
       PROVE  q # 0
  <2> SUFFICES ASSUME q = 0
               PROVE  FALSE
    OBVIOUS
  <2>1. q * k = 0
    BY <1>4
  <2> QED
    BY <2>1, <1>1, <1>5, <1>7, <1>11 DEF k
<1> QED
  BY <1>1, <1>3, <1>5, <1>7, <1>10, <1>11 DEF h, g, P

LEMMA PlacesBack ==
    ASSUME NEW w, w \in ViewRecords, NEW y \in 0 .. Points
    PROVE  /\ ViewportPoint(w, y) \in 0 .. Scale(w)
           /\ y # 0 => ViewportPoint(w, y) \in 0 .. (Scale(w) - 1)
<1> DEFINE h == Scale(w)
           P == Points
           a == P - y
           n == a * h
           q == n \div P
<1>1. h \in Nat \ {0} /\ P \in Nat \ {0}
  BY Heights, ViewingAssumption
<1>2. ViewportPoint(w, y) = q
  BY DEF ViewportPoint
<1>3. y \in 0 .. P
  OBVIOUS
<1> HIDE DEF h, P
<1>4. a \in Nat /\ a <= P /\ (y # 0 => a < P)
  BY <1>1, <1>3
<1> HIDE DEF a
<1>5. n \in Nat /\ n <= h * P /\ (y # 0 => n < h * P)
  BY <1>1, <1>4
<1> HIDE DEF n
<1>6. q \in Nat /\ q * P <= n
  BY <1>1, <1>5, Quotients
<1> HIDE DEF q
<1>7. q * P \in Nat /\ h * P \in Nat /\ (h + 1) * P = h * P + P
  BY <1>1, <1>6, Products
<1>8. q * P < (h + 1) * P /\ (y # 0 => q * P < h * P)
  BY <1>1, <1>5, <1>6, <1>7
<1>9. q < h + 1 /\ (y # 0 => q < h)
  BY <1>1, <1>6, <1>8, Products
<1> QED
  BY <1>1, <1>2, <1>6, <1>9 DEF h

\* How far the pages reach.
LEMMA Extent ==
    ASSUME NEW w, Loose(w), Paged(w), Open(w)
    PROVE  /\ Shown(w) \subseteq 1 .. PagesCount(w)
           /\ w.cur \in Shown(w)
           /\ \A p \in Shown(w) : Top(w, p) \in Nat
           /\ MaxTop(w) \in Nat
           /\ \A p \in Shown(w) : Top(w, p) + Scale(w) <= MaxTop(w) + Height
           /\ MaxTop(w) # 0 =>
                 \E p \in Shown(w) : Top(w, p) + Scale(w) = MaxTop(w) + Height
<1> DEFINE k == Scale(w)
           c == PagesCount(w)
           H == Height
           m == Cardinality(Shown(w)) * k - H
<1>1. k \in Nat \ {0} /\ H \in Nat \ {0}
  BY Heights DEF Loose
<1>2. c \in Nat \ {0} /\ w.cur \in 1 .. c
  BY Counts DEF Loose, PagesExist, Open
<1>3. w.mode \in {"vertical", "page"}
  BY DEF Loose, ViewRecords
<1>4. /\ m \in Int
      /\ MaxTop(w) = IF 0 >= m THEN 0 ELSE m
      /\ \A p \in Shown(w) : Top(w, p) \in Nat /\ Top(w, p) + k <= m + H
      /\ \E p \in Shown(w) : Top(w, p) + k = m + H
      /\ Shown(w) \subseteq 1 .. c
      /\ w.cur \in Shown(w)
  <2>1. CASE w.mode = "page"
    <3>1. Shown(w) = {w.cur} /\ \A p : Top(w, p) = 0
      BY <2>1 DEF Paged, Shown, Top
    <3>2. Cardinality(Shown(w)) = 1
      BY <3>1, FS_Singleton
    <3>3. m = k - H
      BY <3>2, <1>1
    <3>4. m \in Int /\ m + H = k
      BY <3>3, <1>1
    <3>5. MaxTop(w) = IF 0 >= m THEN 0 ELSE m
      BY <3>4, MaxOfTwo DEF MaxTop
    <3> QED
      BY <3>1, <3>4, <3>5, <1>1, <1>2
  <2>2. CASE w.mode = "vertical"
    <3>1. Shown(w) = 1 .. c /\ \A p : Top(w, p) = (p - 1) * k
      BY <2>2 DEF Shown, Top
    <3>2. Cardinality(Shown(w)) = c
      BY <3>1, <1>2, FS_Interval
    <3>3. c * k \in Nat /\ m = c * k - H
      BY <3>2, <1>1, <1>2, Products
    <3>4. m \in Int /\ m + H = c * k
      BY <3>3, <1>1
    <3>5. MaxTop(w) = IF 0 >= m THEN 0 ELSE m
      BY <3>4, MaxOfTwo DEF MaxTop
    <3>6. \A p \in 1 .. c : (p - 1) * k \in Nat /\ (p - 1) * k + k <= c * k
      <4> TAKE p \in 1 .. c
      <4>1. p - 1 \in Nat /\ (p - 1) + 1 = p /\ p \in Nat /\ p <= c
        BY <1>2
      <4>2. (p - 1) * k \in Nat /\ p * k = (p - 1) * k + k
        BY <4>1, <1>1, Products
      <4>3. p * k <= c * k
        BY <4>1, <1>1, <1>2, Products
      <4> QED
        BY <4>2, <4>3
    <3>7. (c - 1) * k + k = c * k
      <4>1. c - 1 \in Nat /\ (c - 1) + 1 = c
        BY <1>2
      <4> QED
        BY <4>1, <1>1, Products
    <3>8. c \in Shown(w) /\ Top(w, c) + k = m + H
      BY <3>1, <3>4, <3>7, <1>2
    <3> QED
      BY <3>1, <3>4, <3>5, <3>6, <3>8, <1>2
  <2> QED
    BY <2>1, <2>2, <1>3
<1> HIDE DEF k, c, m
<1> QED
  BY <1>1, <1>4 DEF k, c

\* Some page can be seen, and the first that can begins above the view.
LEMMA FirstVisible ==
    ASSUME NEW w, Loose(w), Paged(w), Open(w), w.top <= MaxTop(w)
    PROVE  /\ Least(Visible(w)) \in Visible(w)
           /\ \A p \in Visible(w) : Least(Visible(w)) <= p
           /\ w.top - Top(w, Least(Visible(w))) \in 0 .. (Scale(w) - 1)
<1> DEFINE k == Scale(w)
           c == PagesCount(w)
           H == Height
           t == w.top
<1>1. k \in Nat \ {0} /\ H \in Nat \ {0}
  BY Heights DEF Loose
<1>2. c \in Nat \ {0} /\ w.cur \in 1 .. c
  BY Counts DEF Loose, PagesExist, Open
<1>3. w.mode \in {"vertical", "page"} /\ t \in Nat
  BY DEF Loose, ViewRecords
<1>4. \A p \in Visible(w) : p \in Shown(w) /\ Top(w, p) + k > t /\ Top(w, p) < t + H
  BY DEF Visible
<1>5. \A p \in Shown(w) : Top(w, p) + k > t /\ Top(w, p) < t + H => p \in Visible(w)
  BY DEF Visible
<1>6. /\ Shown(w) \subseteq 1 .. c /\ MaxTop(w) \in Nat
      /\ \A p \in Shown(w) : Top(w, p) \in Nat
      /\ MaxTop(w) # 0 => \E p \in Shown(w) : Top(w, p) + k = MaxTop(w) + H
  BY Extent
<1>7. \E q \in Visible(w) : Top(w, q) <= t /\ \A p \in Visible(w) : p <= q => Top(w, p) <= Top(w, q)
  <2>1. CASE w.mode = "page"
    <3>1. Shown(w) = {w.cur} /\ \A p : Top(w, p) = 0
      BY <2>1 DEF Paged, Shown, Top
    <3>2. t < k
      BY <3>1, <1>6, <1>1, <1>3
    <3> QED
      BY <3>1, <3>2, <1>1, <1>3, <1>4, <1>5
  <2>2. CASE w.mode = "vertical"
    <3>1. Shown(w) = 1 .. c /\ \A p : Top(w, p) = (p - 1) * k
      BY <2>2 DEF Shown, Top
    <3> DEFINE d == t \div k
    <3>2. d \in Nat /\ d * k <= t /\ t < d * k + k
      BY <1>1, <1>3, Quotients
    <3> HIDE DEF d
    <3>3. d < c
      <4>1. CASE MaxTop(w) = 0
        <5>1. t = 0 /\ d \in Nat /\ d * k <= t
          BY <4>1, <3>2, <1>3
        <5>2. d * k < 1 * k
          BY <5>1, <1>1
        <5>3. d < 1
          BY <5>2, <5>1, <1>1, Products
        <5>4. d = 0
          BY <5>1, <5>3
        <5> QED
          BY <5>4, <1>2
      <4>2. CASE MaxTop(w) # 0
        <5>1. PICK p \in 1 .. c : (p - 1) * k + k = MaxTop(w) + H
          BY <4>2, <1>6, <3>1
        <5>2. p - 1 \in Nat /\ (p - 1) + 1 = p /\ p \in Nat
          BY <1>2
        <5>3. p * k = (p - 1) * k + k
          BY <5>2, <1>1, Products
        <5>4. d * k < p * k
          BY <5>1, <5>3, <3>2, <1>1, <1>3, <1>6, Products, <5>2
        <5>5. d < p
          BY <5>4, <5>2, <3>2, <1>1, Products
        <5> QED
          BY <5>5, <5>2, <3>2, <1>2
      <4> QED
        BY <4>1, <4>2
    <3> DEFINE q == d + 1
    <3>4. q \in Shown(w) /\ Top(w, q) = d * k
      BY <3>1, <3>2, <3>3, <1>2
    <3>5. q \in Visible(w)
      BY <3>4, <3>2, <1>1, <1>3, <1>5, Products
    <3>6. \A p \in Visible(w) : p <= q => Top(w, p) <= Top(w, q)
      <4> SUFFICES ASSUME NEW p \in Visible(w), p <= q
                   PROVE  Top(w, p) <= Top(w, q)
        OBVIOUS
      <4>1. p - 1 \in Nat /\ p - 1 <= d
        BY <1>4, <3>1, <3>2, <1>2
      <4>2. (p - 1) * k <= d * k
        BY <4>1, <3>2, <1>1, Products
      <4> QED
        BY <4>2, <3>1, <3>4
    <3> QED
      BY <3>4, <3>5, <3>6, <3>2
  <2> QED
    BY <2>1, <2>2, <1>3
<1> DEFINE l == Least(Visible(w))
<1>8. l \in Visible(w) /\ \A p \in Visible(w) : l <= p
  <2>1. Visible(w) \in SUBSET Nat /\ Visible(w) # {}
    BY <1>4, <1>6, <1>7
  <2> QED
    BY <2>1, WellOrdered
<1> HIDE DEF l
<1>9. Top(w, l) <= t /\ Top(w, l) \in Nat /\ Top(w, l) + k > t
  <2>1. PICK q \in Visible(w) :
          Top(w, q) <= t /\ \A p \in Visible(w) : p <= q => Top(w, p) <= Top(w, q)
    BY <1>7
  <2>2. Top(w, l) <= Top(w, q) /\ Top(w, l) \in Nat /\ Top(w, q) \in Nat
    BY <2>1, <1>8, <1>4, <1>6
  <2> QED
    BY <2>1, <2>2, <1>8, <1>4, <1>3
<1>10. t - Top(w, l) \in 0 .. (k - 1)
  BY <1>9, <1>1, <1>3
<1> QED
  BY <1>8, <1>10 DEF l

\* A page is seen where the view is put at a spot of it.
LEMMA SeenAt ==
    ASSUME NEW w, Loose(w), Paged(w), Open(w),
           NEW p \in Shown(w), NEW spot \in 0 .. (Scale(w) - 1),
           w.top = Max({0, Min({Top(w, p) + spot, MaxTop(w)})})
    PROVE  p \in Visible(w)
<1> DEFINE k == Scale(w)
           y == Top(w, p)
           M == MaxTop(w)
           H == Height
<1>1. k \in Nat \ {0} /\ H \in Nat \ {0}
  BY Heights DEF Loose
<1>2. y \in Nat /\ M \in Nat /\ y + k <= M + H
  BY Extent
<1>3. p \in Visible(w) <=> y + k > w.top /\ y < w.top + H
  BY DEF Visible
<1> HIDE DEF k, y, M
<1>4. Min({y + spot, M}) = IF y + spot <= M THEN y + spot ELSE M
  BY <1>1, <1>2, MinOfTwo DEF k
<1>5. w.top = IF y + spot <= M THEN y + spot ELSE M
  <2>1. w.top = Max({0, IF y + spot <= M THEN y + spot ELSE M})
    BY <1>4 DEF y, M
  <2>2. \A x \in Nat : Max({0, x}) = x
    BY MaxOfTwo
  <2>3. (IF y + spot <= M THEN y + spot ELSE M) \in Nat
    BY <1>1, <1>2 DEF k
  <2> QED
    BY <2>1, <2>2, <2>3
<1>6. spot \in 0 .. (k - 1)
  BY DEF k
<1> QED
  BY <1>1, <1>2, <1>3, <1>5, <1>6

\* The lower edge of a page is the upper one of the view, or the page is seen.
LEMMA SeenOrAbove ==
    ASSUME NEW w, Loose(w), Paged(w), Open(w),
           NEW p \in Shown(w), NEW spot \in 0 .. Scale(w),
           w.top = Max({0, Min({Top(w, p) + spot, MaxTop(w)})})
    PROVE  p \in Visible(w) \/ EndsAbove(w, p)
<1> DEFINE k == Scale(w)
           y == Top(w, p)
           M == MaxTop(w)
           H == Height
<1>1. k \in Nat \ {0} /\ H \in Nat \ {0}
  BY Heights DEF Loose
<1>2. y \in Nat /\ M \in Nat /\ y + k <= M + H
  BY Extent
<1>3. /\ p \in Visible(w) <=> y + k > w.top /\ y < w.top + H
      /\ EndsAbove(w, p) <=> y + k = w.top
  BY DEF Visible, EndsAbove
<1>4. spot \in 0 .. k
  OBVIOUS
<1> HIDE DEF k, y, M
<1>5. y + spot \in Nat
  BY <1>1, <1>2, <1>4
<1>6. w.top = IF y + spot <= M THEN y + spot ELSE M
  <2>1. Min({y + spot, M}) = IF y + spot <= M THEN y + spot ELSE M
    BY <1>2, <1>5, MinOfTwo
  <2>2. w.top = Max({0, IF y + spot <= M THEN y + spot ELSE M})
    BY <2>1 DEF y, M
  <2>3. \A x \in Nat : Max({0, x}) = x
    BY MaxOfTwo
  <2> QED
    BY <2>2, <2>3, <1>2, <1>5
<1> QED
  BY <1>1, <1>2, <1>3, <1>4, <1>6

\* Scrolling goes to a place the view can have.
LEMMA Clipped ==
    ASSUME NEW y \in Int, NEW M \in Nat
    PROVE  Max({0, Min({y, M})}) \in 0 .. M
<1>1. Min({y, M}) \in Int /\ Min({y, M}) <= M
  BY MinOfTwo
<1> DEFINE n == Min({y, M})
<1> HIDE DEF n
<1>2. n \in Int /\ n <= M
  BY <1>1 DEF n
<1>3. Max({0, n}) \in 0 .. M
  BY <1>2, MaxOfTwo
<1> QED
  BY <1>3 DEF n

\* The page that is most visible is one that can be seen.
LEMMA MostVisibleSeen ==
    ASSUME NEW w, Loose(w), Paged(w), Open(w), Visible(w) # {}
    PROVE  MostVisible(w) \in Visible(w)
<1> DEFINE H == Height
           V == Visible(w)
           Short(p) == H - Seen(w, p)
<1>1. H \in Nat \ {0} /\ Scale(w) \in Nat \ {0} /\ w.top \in Nat
  BY Heights DEF Loose, ViewRecords
<1>2. \A p \in V : p \in Nat /\ Top(w, p) \in Nat
  BY Extent, Counts DEF Loose, Visible
<1>3. \A p \in V : Seen(w, p) \in Int /\ Short(p) \in Nat
  <2> SUFFICES ASSUME NEW p \in V
               PROVE  Seen(w, p) \in Int /\ Seen(w, p) <= H
    BY <1>1
  <2>1. /\ Min({Top(w, p) + Scale(w), w.top + H}) \in Int
        /\ Min({Top(w, p) + Scale(w), w.top + H}) <= w.top + H
    BY <1>1, <1>2, MinOfTwo
  <2>2. Max({Top(w, p), w.top}) \in Int /\ Max({Top(w, p), w.top}) >= w.top
    BY <1>1, <1>2, MaxOfTwo
  <2> QED
    BY <2>1, <2>2, <1>1 DEF Seen
<1> DEFINE A == {Short(p) : p \in V}
           B == {p \in V : \A o \in V : Seen(w, o) <= Seen(w, p)}
<1>4. PICK n \in A : \A a \in A : n <= a
  <2>1. A \in SUBSET Nat /\ A # {}
    BY <1>3
  <2> HIDE DEF A
  <2> QED
    BY <2>1, WellOrdered
<1>5. PICK p \in V : n = Short(p)
  BY <1>4
<1>6. \A o \in V : Short(p) <= Short(o)
  BY <1>4, <1>5
<1>7. \A o \in V : Seen(w, o) <= Seen(w, p)
  BY <1>6, <1>3, <1>1
<1>8. B \in SUBSET Nat /\ B # {}
  BY <1>7, <1>2
<1>9. Least(B) \in B
  BY <1>8, WellOrdered
<1> QED
  BY <1>9 DEF MostVisible

-----------------------------------------------------------------------------
(***************************************************************************)
(* The page.                                                               *)
(***************************************************************************)
DocKept(w, u) ==
    /\ u.doc = w.doc /\ u.pages = w.pages /\ u.mode = w.mode
    /\ u.active = w.active /\ (u.installing <=> w.installing)
ZoomKept(w, u) ==
    u.scale = w.scale /\ u.value = w.value /\ u.zoom = w.zoom /\ u.shows.zoom = w.shows.zoom
SpotKept(w, u) == u.top = w.top /\ (u.moved <=> w.moved)

\* The controls of the page follow it.
PageInStep(w) ==
    Open(w) => /\ w.active = w.doc /\ w.page = w.cur
               /\ w.shows.page = w.cur /\ w.shows.pages = Docs[w.doc]

LEMMA Clamps ==
    ASSUME NEW n \in Int, NEW c \in Nat \ {0}
    PROVE  /\ ClampPage(n, c) \in 1 .. c
           /\ n \in 1 .. c => ClampPage(n, c) = n
<1>1. Min({n, c}) = IF n <= c THEN n ELSE c
  BY MinOfTwo
<1> DEFINE m == Min({n, c})
<1> HIDE DEF m
<1>2. m = IF n <= c THEN n ELSE c
  BY <1>1 DEF m
<1>3. Max({1, m}) = IF 1 >= m THEN 1 ELSE m
  BY <1>2, MaxOfTwo
<1> QED
  BY <1>2, <1>3 DEF ClampPage, m

LEMMA PageControls ==
    ASSUME NEW w, w \in ViewRecords
    PROVE  LET u == UpdatePageControls(w)
           IN  /\ u \in ViewRecords
               /\ DocKept(w, u) /\ ZoomKept(w, u) /\ SpotKept(w, u)
               /\ u.cur = w.cur /\ u.loc = w.loc /\ u.shown = w.shown /\ u.page = w.page
               /\ u.shows.page = w.page /\ u.shows.pages = ActivePages(w)
<1> DEFINE c == ActivePages(w)
<1>1. c \in Nat \ {0}
  BY Counts
<1> HIDE DEF c
<1> DEFINE v == [w.shows EXCEPT !.page = w.page, !.pages = c]
           u == [w EXCEPT !.shows = v]
<1>2. w.shows \in Controls /\ w.page \in Nat
  BY DEF ViewRecords
<1>3. v \in Controls /\ v.page = w.page /\ v.pages = c /\ v.zoom = w.shows.zoom
  BY <1>1, <1>2 DEF Controls
<1>4. UpdatePageControls(w) = u
  BY DEF UpdatePageControls, c
<1> HIDE DEF v
<1>5. /\ u \in ViewRecords /\ u.shows = v
      /\ DocKept(w, u) /\ SpotKept(w, u)
      /\ u.cur = w.cur /\ u.loc = w.loc /\ u.shown = w.shown /\ u.page = w.page
      /\ u.scale = w.scale /\ u.value = w.value /\ u.zoom = w.zoom
  BY <1>3 DEF ViewRecords, DocKept, SpotKept
<1> HIDE DEF u
<1> QED
  BY <1>3, <1>4, <1>5 DEF ZoomKept, c

LEMMA PageChanged ==
    ASSUME NEW w, Loose(w), NEW n \in Int
    PROVE  LET u == ChangePage(w, n)
           IN  /\ Loose(u) /\ DocKept(w, u) /\ ZoomKept(w, u) /\ SpotKept(w, u)
               /\ u.loc = w.loc /\ u.shown = w.shown
               /\ u.cur = IF n \in 1 .. PagesCount(w) THEN n ELSE w.cur
               /\ ~w.installing /\ PageInStep(w) => PageInStep(u)
               /\ u.cur = w.cur => u = w
               /\ n \in 1 .. PagesCount(w) /\ ~w.installing /\ w.active = w.doc /\ w.page = n
                    => u.page = n
<1>1. CASE n = w.cur \/ n \notin 1 .. PagesCount(w)
  <2>1. ChangePage(w, n) = w
    BY <1>1 DEF ChangePage
  <2> QED
    BY <2>1, <1>1 DEF DocKept, ZoomKept, SpotKept
<1>2. CASE n # w.cur /\ n \in 1 .. PagesCount(w)
  <2> DEFINE x == [w EXCEPT !.cur = n]
  <2>1. w \in ViewRecords /\ n \in Nat /\ Open(w)
    BY <1>2, Counts DEF Loose
  <2>2. /\ x \in ViewRecords /\ x.cur = n
        /\ DocKept(w, x) /\ ZoomKept(w, x) /\ SpotKept(w, x)
        /\ x.loc = w.loc /\ x.shown = w.shown /\ x.page = w.page /\ x.shows = w.shows
    BY <2>1 DEF ViewRecords, DocKept, ZoomKept, SpotKept
  <2>3. ChangePage(w, n) = OnPageChanging(x, n)
    BY <1>2 DEF ChangePage
  <2> HIDE DEF x
  <2>4. ActivePages(x) = ActivePages(w) /\ PagesCount(x) = PagesCount(w)
    BY <2>2 DEF ActivePages, PagesCount, DocKept
  <2>5. Loose(x)
    BY <2>1, <2>2, <2>4, <1>2 DEF Loose, PagesExist, Open, DocKept
  <2>6. CASE w.installing
    <3>1. OnPageChanging(x, n) = x
      BY <2>6, <2>2 DEF OnPageChanging, DocKept
    <3> QED
      BY <3>1, <2>2, <2>3, <2>5, <2>6, <1>2
  <2>7. CASE ~w.installing
    <3> DEFINE c == ActivePages(x)
               m == ClampPage(n, c)
               y == [x EXCEPT !.page = m]
    <3>1. c \in Nat \ {0}
      BY <2>2, Counts
    <3>2. m \in 1 .. c /\ (n \in 1 .. c => m = n)
      BY <3>1, Clamps
    <3>3. OnPageChanging(x, n) = UpdatePageControls(y)
      BY <2>7, <2>2 DEF OnPageChanging, DocKept
    <3> HIDE DEF m
    <3>4. /\ y \in ViewRecords /\ y.page = m /\ y.cur = n
          /\ DocKept(x, y) /\ ZoomKept(x, y) /\ SpotKept(x, y)
          /\ y.loc = x.loc /\ y.shown = x.shown
      BY <2>2, <3>1, <3>2 DEF ViewRecords, DocKept, ZoomKept, SpotKept
    <3> HIDE DEF y, c
    <3> DEFINE u == UpdatePageControls(y)
    <3>5. /\ u \in ViewRecords
          /\ DocKept(y, u) /\ ZoomKept(y, u) /\ SpotKept(y, u)
          /\ u.cur = y.cur /\ u.loc = y.loc /\ u.shown = y.shown /\ u.page = y.page
          /\ u.shows.page = y.page /\ u.shows.pages = ActivePages(y)
      BY <3>4, PageControls
    <3> HIDE DEF u
    <3>6. DocKept(w, u) /\ ZoomKept(w, u) /\ SpotKept(w, u)
      BY <2>2, <3>4, <3>5 DEF DocKept, ZoomKept, SpotKept
    <3>7. /\ u.loc = w.loc /\ u.shown = w.shown /\ u.cur = n
          /\ ActivePages(y) = c /\ ActivePages(u) = c /\ PagesCount(u) = PagesCount(w)
      BY <2>2, <2>4, <3>4, <3>5, <3>6 DEF ActivePages, PagesCount, DocKept, c
    <3>8. Loose(u)
      BY <2>1, <3>2, <3>4, <3>5, <3>6, <3>7, <1>2 DEF Loose, PagesExist, Open, DocKept
    <3>9. ASSUME PageInStep(w)
          PROVE  PageInStep(u)
      <4>1. w.active = w.doc /\ w.doc # 0 /\ PagesCount(w) = Docs[w.doc]
        BY <3>9, <2>1 DEF PageInStep, Loose
      <4>2. c = Docs[w.doc]
        BY <4>1, <2>4 DEF ActivePages, c
      <4>3. m = n
        BY <3>2, <4>1, <4>2, <1>2
      <4> QED
        BY <4>1, <4>2, <4>3, <3>4, <3>5, <3>6, <3>7 DEF PageInStep, DocKept
    <3>10. ASSUME w.active = w.doc
           PROVE  u.page = n
      <4>1. w.doc # 0 /\ PagesCount(w) = Docs[w.doc]
        BY <2>1 DEF Loose
      <4>2. c = Docs[w.doc]
        BY <4>1, <3>10, <2>4 DEF ActivePages, c
      <4>3. m = n
        BY <3>2, <4>1, <4>2, <1>2
      <4> QED
        BY <4>3, <3>4, <3>5
    <3> QED
      BY <3>3, <3>6, <3>7, <3>8, <3>9, <3>10, <2>3, <1>2 DEF u
  <2> QED
    BY <2>6, <2>7
<1> QED
  BY <1>1, <1>2

-----------------------------------------------------------------------------
(***************************************************************************)
(* The place in the document.                                              *)
(***************************************************************************)
LEMMA SameLayout ==
    ASSUME NEW w, NEW u,
           u.pages = w.pages, u.mode = w.mode, u.scale = w.scale, u.shown = w.shown
    PROVE  /\ Scale(u) = Scale(w) /\ Shown(u) = Shown(w) /\ PagesCount(u) = PagesCount(w)
           /\ \A p : Top(u, p) = Top(w, p)
           /\ MaxTop(u) = MaxTop(w)
           /\ u.top = w.top => Visible(u) = Visible(w)
<1>1. Scale(u) = Scale(w) /\ PagesCount(u) = PagesCount(w)
  BY DEF Scale, PagesCount
<1>2. Shown(u) = Shown(w)
  BY <1>1 DEF Shown
<1>3. \A p : Top(u, p) = Top(w, p)
  BY <1>1 DEF Top
<1>4. MaxTop(u) = MaxTop(w)
  BY <1>1, <1>2 DEF MaxTop
<1>5. ASSUME u.top = w.top
      PROVE  Visible(u) = Visible(w)
  BY <1>1, <1>2, <1>3, <1>5 DEF Visible
<1> QED
  BY <1>1, <1>2, <1>3, <1>4, <1>5

LEMMA Scrolled ==
    ASSUME NEW w, Loose(w), Paged(w), Open(w), NEW y \in Int
    PROVE  LET u == ScrollTo(w, y)
           IN  /\ Loose(u) /\ Paged(u) /\ Within(u) /\ DocKept(w, u) /\ ZoomKept(w, u)
               /\ u.cur = w.cur /\ u.loc = w.loc /\ u.shown = w.shown /\ u.page = w.page
               /\ u.top = Max({0, Min({y, MaxTop(w)})})
               /\ u.moved <=> w.moved \/ u.top # w.top
               /\ PageInStep(w) => PageInStep(u)
<1> DEFINE t == Max({0, Min({y, MaxTop(w)})})
           x == [w EXCEPT !.top = t]
           b == w.moved \/ t # w.top
           u == [x EXCEPT !.moved = b]
<1>1. MaxTop(w) \in Nat
  BY Extent
<1>2. t \in 0 .. MaxTop(w)
  BY <1>1, Clipped
<1>3. ScrollTo(w, y) = [w EXCEPT !.top = t, !.moved = w.moved \/ t # w.top]
  BY DEF ScrollTo, With
<1>4. w \in ViewRecords
  BY DEF Loose
<1> HIDE DEF t, b
<1>5. b \in BOOLEAN /\ (b <=> w.moved \/ t # w.top)
  BY DEF b
<1>6. ScrollTo(w, y) = u
  BY <1>3 DEF b
<1>7. /\ u \in ViewRecords /\ u.top = t /\ (u.moved <=> b)
      /\ DocKept(w, u) /\ ZoomKept(w, u)
      /\ u.cur = w.cur /\ u.loc = w.loc /\ u.shown = w.shown
      /\ u.page = w.page /\ u.shows = w.shows
  <2>1. t \in Nat
    BY <1>1, <1>2
  <2>2. /\ x \in ViewRecords /\ x.top = t
        /\ DocKept(w, x) /\ ZoomKept(w, x)
        /\ x.cur = w.cur /\ x.loc = w.loc /\ x.shown = w.shown
        /\ x.page = w.page /\ x.shows = w.shows
    BY <2>1, <1>4 DEF ViewRecords, DocKept, ZoomKept
  <2> HIDE DEF x
  <2> QED
    BY <2>2, <1>5 DEF ViewRecords, DocKept, ZoomKept
<1> HIDE DEF u
<1>8. MaxTop(u) = MaxTop(w) /\ PagesCount(u) = PagesCount(w) /\ ActivePages(u) = ActivePages(w)
  BY <1>7, SameLayout DEF DocKept, ZoomKept, ActivePages
<1>9. Loose(u)
  BY <1>7, <1>8 DEF Loose, PagesExist, Open, DocKept
<1>10. Paged(u) /\ Within(u)
  BY <1>1, <1>2, <1>7, <1>8 DEF Paged, Within, Open, DocKept
<1>11. PageInStep(w) => PageInStep(u)
  BY <1>7 DEF PageInStep, Open, DocKept
<1> QED
  BY <1>5, <1>6, <1>7, <1>9, <1>10, <1>11 DEF t

LEMMA LocationUpdated ==
    ASSUME NEW w, Loose(w), Paged(w), Open(w), Visible(w) # {}
    PROVE  LET u == UpdateLocation(w)
           IN  /\ Loose(u) /\ Paged(u) /\ DocKept(w, u) /\ ZoomKept(w, u) /\ SpotKept(w, u)
               /\ u.cur = w.cur /\ u.shown = w.shown /\ Visible(u) = Visible(w)
               /\ u.page = w.page /\ Exact(u)
               /\ PageInStep(w) => PageInStep(u)
<1> DEFINE p == Least(Visible(w))
           t == PagePoint(w, w.top - Top(w, p))
           r == [page |-> p, top |-> t]
           u == [w EXCEPT !.loc = r]
<1>1. w \in ViewRecords /\ w.top \in Nat /\ Scale(w) \in Nat \ {0}
  BY Heights DEF Loose, ViewRecords
<1>2. /\ \A o \in Visible(w) : o \in 1 .. PagesCount(w) /\ Top(w, o) \in Nat
      /\ PagesCount(w) \in Nat
  BY Extent, Counts, <1>1 DEF Visible
<1>3. p \in Visible(w)
  <2>1. Visible(w) \in SUBSET Nat
    BY <1>2
  <2> QED
    BY <2>1, WellOrdered
<1>4. UpdateLocation(w) = u
  BY DEF UpdateLocation, With
<1> HIDE DEF p
<1>5. r \in Locations /\ r.page = p
  <2> DEFINE f == w.top - Top(w, p)
             h == Scale(w)
  <2>1. f \in Int /\ h \in Nat \ {0} /\ Points \in Nat \ {0}
    BY <1>1, <1>2, <1>3, ViewingAssumption
  <2>2. t = (2 * Points * (h - f) + h) \div (2 * h)
    BY DEF PagePoint
  <2> HIDE DEF f, h, t
  <2>3. (2 * Points * (h - f) + h) \in Int /\ 2 * h \in Nat \ {0}
    BY <2>1
  <2>4. t \in Int
    BY <2>2, <2>3
  <2> QED
    BY <2>4, <1>2, <1>3 DEF Locations
<1>6. r = [page |-> p, top |-> PagePoint(w, w.top - Top(w, p))]
  OBVIOUS
<1> HIDE DEF r
<1>7. /\ u \in ViewRecords /\ u.loc = r
      /\ DocKept(w, u) /\ ZoomKept(w, u) /\ SpotKept(w, u)
      /\ u.cur = w.cur /\ u.shown = w.shown /\ u.page = w.page /\ u.shows = w.shows
  BY <1>1, <1>5 DEF ViewRecords, DocKept, ZoomKept, SpotKept
<1> HIDE DEF u
<1>8. /\ Visible(u) = Visible(w) /\ PagesCount(u) = PagesCount(w) /\ Scale(u) = Scale(w)
      /\ Top(u, p) = Top(w, p) /\ ActivePages(u) = ActivePages(w)
      /\ \A f : PagePoint(u, f) = PagePoint(w, f)
  BY <1>7, SameLayout DEF DocKept, ZoomKept, SpotKept, ActivePages, PagePoint
<1>9. Loose(u)
  BY <1>2, <1>3, <1>5, <1>7, <1>8 DEF Loose, PagesExist, Open, DocKept
<1>10. Paged(u)
  BY <1>7 DEF Paged, Open, DocKept
<1>11. Exact(u)
  BY <1>6, <1>7, <1>8 DEF Exact, p, SpotKept
<1>12. PageInStep(w) => PageInStep(u)
  BY <1>7 DEF PageInStep, Open, DocKept
<1> QED
  BY <1>4, <1>7, <1>8, <1>9, <1>10, <1>11, <1>12

LEMMA NothingSeen ==
    ASSUME NEW w, Loose(w), ~Open(w)
    PROVE  Visible(w) = {} /\ Update(w) = w
<1>1. w.shown = {} /\ PagesCount(w) = 0
  BY Counts DEF Loose
<1>2. Shown(w) = {}
  BY <1>1 DEF Shown
<1> QED
  BY <1>2 DEF Visible, Update

LEMMA Updated ==
    ASSUME NEW w, Loose(w), Paged(w), Open(w)
    PROVE  LET u == Update(w)
           IN  /\ Loose(u) /\ Paged(u) /\ DocKept(w, u) /\ ZoomKept(w, u) /\ SpotKept(w, u)
               /\ u.shown = w.shown /\ Visible(u) = Visible(w)
               /\ Visible(w) = {} => u = w
               /\ Visible(w) # {} => InView(u) /\ Exact(u)
               /\ w.mode = "page" => u.cur = w.cur /\ u.page = w.page
               /\ ~w.installing /\ PageInStep(w) => PageInStep(u)
<1>1. CASE Visible(w) = {}
  <2>1. Update(w) = w
    BY <1>1 DEF Update
  <2> QED
    BY <2>1, <1>1 DEF DocKept, ZoomKept, SpotKept
<1>2. CASE Visible(w) # {}
  <2> DEFINE n == IF w.cur \in Visible(w) /\ Entire(w, w.cur) THEN w.cur ELSE MostVisible(w)
             x == ChangePage(w, n)
             u == UpdateLocation(x)
  <2>1. n \in Visible(w)
    BY <1>2, MostVisibleSeen
  <2>2. n \in Shown(w) /\ n \in 1 .. PagesCount(w) /\ n \in Int
    BY <2>1, Extent, Counts DEF Visible, Loose
  <2>3. Update(w) = u
    BY <1>2 DEF Update
  <2> HIDE DEF n
  <2>4. /\ Loose(x) /\ DocKept(w, x) /\ ZoomKept(w, x) /\ SpotKept(w, x)
        /\ x.shown = w.shown /\ x.cur = n
        /\ ~w.installing /\ PageInStep(w) => PageInStep(x)
        /\ x.cur = w.cur => x = w
    BY <2>2, PageChanged
  <2> HIDE DEF x
  <2>5. w.mode = "page" => n = w.cur
    BY <2>2 DEF Shown, Paged
  <2>6. Paged(x) /\ Open(x)
    BY <2>4, <2>5 DEF Paged, Open, DocKept
  <2>7. Visible(x) = Visible(w)
    BY <2>4, SameLayout DEF DocKept, ZoomKept, SpotKept
  <2>8. /\ Loose(u) /\ Paged(u) /\ DocKept(x, u) /\ ZoomKept(x, u) /\ SpotKept(x, u)
        /\ u.cur = x.cur /\ u.shown = x.shown /\ Visible(u) = Visible(x)
        /\ u.page = x.page /\ Exact(u)
        /\ PageInStep(x) => PageInStep(u)
    BY <2>4, <2>6, <2>7, <1>2, LocationUpdated
  <2> HIDE DEF u
  <2>9. DocKept(w, u) /\ ZoomKept(w, u) /\ SpotKept(w, u)
    BY <2>4, <2>8 DEF DocKept, ZoomKept, SpotKept
  <2>10. InView(u)
    BY <2>1, <2>4, <2>7, <2>8 DEF InView
  <2> QED
    BY <1>2, <2>3, <2>4, <2>5, <2>7, <2>8, <2>9, <2>10
<1> QED
  BY <1>1, <1>2

\* The location is that of what can be seen, unless a scroll is to be seen to.
Located(w) == Open(w) /\ ~w.moved => Exact(w)

\* Where the same pages are at the same place.
PlaceKept(w, u) ==
    /\ DocKept(w, u) /\ SpotKept(w, u)
    /\ u.scale = w.scale /\ u.cur = w.cur /\ u.loc = w.loc /\ u.shown = w.shown

LEMMA SamePlace ==
    ASSUME NEW w, NEW u, PlaceKept(w, u)
    PROVE  /\ Visible(u) = Visible(w) /\ PagesCount(u) = PagesCount(w) /\ (Open(u) <=> Open(w))
           /\ Paged(w) => Paged(u)
           /\ Within(w) => Within(u)
           /\ InView(w) => InView(u)
           /\ NearView(w) => NearView(u)
           /\ \A p : HalfAPoint(w, p) <=> HalfAPoint(u, p)
           /\ Exact(w) => Exact(u)
           /\ Located(w) => Located(u)
<1>1. /\ u.pages = w.pages /\ u.mode = w.mode /\ u.scale = w.scale /\ u.shown = w.shown
      /\ u.top = w.top /\ (u.moved <=> w.moved) /\ u.cur = w.cur /\ u.loc = w.loc
  BY DEF PlaceKept, DocKept, SpotKept
<1>2. /\ Visible(u) = Visible(w) /\ MaxTop(u) = MaxTop(w) /\ Scale(u) = Scale(w)
      /\ PagesCount(u) = PagesCount(w) /\ \A p : Top(u, p) = Top(w, p)
  BY <1>1, SameLayout
<1>3. Open(u) <=> Open(w)
  BY <1>1 DEF Open
<1>4. Exact(w) => Exact(u)
  BY <1>1, <1>2 DEF Exact, PagePoint
<1>5. NearView(w) => NearView(u)
  BY <1>1, <1>2 DEF NearView, InView, EndsAbove
<1>6. \A p : HalfAPoint(w, p) <=> HalfAPoint(u, p)
  BY <1>1, <1>2 DEF HalfAPoint
<1> QED
  BY <1>1, <1>2, <1>3, <1>4, <1>5, <1>6 DEF Paged, Within, InView, Located

LEMMA IntoView ==
    ASSUME NEW w, Loose(w), Open(w), NEW p \in 1 .. PagesCount(w), NEW spot \in Int
    PROVE  LET u == ScrollIntoView(w, p, spot)
           IN  /\ Loose(u) /\ Paged(u) /\ Within(u) /\ DocKept(w, u) /\ ZoomKept(w, u)
               /\ u.cur = p
               /\ ~w.installing /\ PageInStep(w) => PageInStep(u)
               /\ spot \in 0 .. (Scale(w) - 1) => InView(u)
               /\ spot \in 0 .. Scale(w) => NearView(u)
               /\ w.value # Empty /\ Located(w) => Located(u)
               /\ w.cur = p => u.page = w.page
<1> DEFINE x == ChangePage(w, p)
           e == EnsurePageViewVisible(x)
           y == IF x.mode = "page" THEN Update(e) ELSE x
           z == ScrollTo(y, Top(y, p) + spot)
           u == IF z.value = Empty THEN [z EXCEPT !.loc = Empty] ELSE z
<1>1. ScrollIntoView(w, p, spot) = u
  BY DEF ScrollIntoView, With
<1>2. PagesCount(w) \in Nat /\ p \in Nat
  BY Counts DEF Loose
<1>3. /\ Loose(x) /\ DocKept(w, x) /\ ZoomKept(w, x) /\ SpotKept(w, x)
      /\ x.loc = w.loc /\ x.shown = w.shown /\ x.cur = p
      /\ ~w.installing /\ PageInStep(w) => PageInStep(x)
      /\ x.cur = w.cur => x = w
  BY <1>2, PageChanged
<1> HIDE DEF x
<1>4. Open(x) /\ x.mode \in {"vertical", "page"} /\ (x.mode = w.mode)
  BY <1>3 DEF Open, DocKept, Loose, ViewRecords
<1>5. /\ Loose(y) /\ Paged(y) /\ Open(y) /\ DocKept(w, y) /\ ZoomKept(w, y) /\ SpotKept(w, y)
      /\ y.cur = p
      /\ ~w.installing /\ PageInStep(w) => PageInStep(y)
      /\ w.mode = "page" /\ Visible(y) # {} => Exact(y)
      /\ w.mode # "page" => y.shown = w.shown /\ y.loc = w.loc
      /\ y.page = x.page
  <2>1. CASE w.mode = "page"
    <3>1. /\ e \in ViewRecords /\ e.shown = {x.cur}
          /\ DocKept(x, e) /\ ZoomKept(x, e) /\ SpotKept(x, e) /\ e.cur = x.cur /\ e.loc = x.loc
          /\ e.page = x.page /\ e.shows = x.shows
      <4>1. x \in ViewRecords /\ {x.cur} \in SUBSET Nat
        BY <1>3 DEF Loose, ViewRecords
      <4> DEFINE S == {x.cur}
      <4>2. EnsurePageViewVisible(x) = [x EXCEPT !.shown = S]
        BY DEF EnsurePageViewVisible
      <4>3. S \in SUBSET Nat
        BY <4>1
      <4> HIDE DEF S
      <4> QED
        BY <4>1, <4>2, <4>3 DEF ViewRecords, DocKept, ZoomKept, SpotKept, S
    <3> HIDE DEF e
    <3>2. Loose(e) /\ Paged(e) /\ Open(e) /\ (PageInStep(x) => PageInStep(e))
      <4>1. PagesCount(e) = PagesCount(x) /\ ActivePages(e) = ActivePages(x)
        BY <3>1 DEF PagesCount, ActivePages, DocKept
      <4>2. Open(e)
        BY <3>1, <1>4 DEF Open, DocKept
      <4>3. Loose(e)
        BY <3>1, <4>1, <4>2, <1>3, <1>4 DEF Loose, PagesExist, DocKept
      <4> QED
        BY <3>1, <4>2, <4>3, <1>4 DEF Paged, PageInStep, DocKept
    <3> DEFINE f == Update(e)
    <3>3. /\ Loose(f) /\ Paged(f) /\ DocKept(e, f) /\ ZoomKept(e, f) /\ SpotKept(e, f)
          /\ f.shown = e.shown /\ Visible(f) = Visible(e)
          /\ Visible(e) # {} => Exact(f)
          /\ e.mode = "page" => f.cur = e.cur /\ f.page = e.page
          /\ ~e.installing /\ PageInStep(e) => PageInStep(f)
      BY <3>2, Updated
    <3>4. y = f
      BY <2>1, <1>4
    <3> HIDE DEF f
    <3>5. DocKept(w, f) /\ ZoomKept(w, f) /\ SpotKept(w, f) /\ (e.installing <=> w.installing)
      BY <3>1, <3>3, <1>3 DEF DocKept, ZoomKept, SpotKept
    <3>6. f.cur = p /\ Open(f) /\ f.page = x.page
      BY <3>1, <3>2, <3>3, <1>3, <1>4, <2>1 DEF DocKept, Open
    <3> HIDE DEF y
    <3> QED
      BY <3>2, <3>3, <3>4, <3>5, <3>6, <2>1, <1>3
  <2>2. CASE w.mode # "page"
    <3>1. y = x /\ Paged(x)
      BY <2>2, <1>4 DEF Paged
    <3> HIDE DEF y
    <3> QED
      BY <3>1, <1>3, <1>4, <2>2
  <2> QED
    BY <2>1, <2>2
<1> HIDE DEF y
<1>6. Top(y, p) \in Nat /\ p \in Shown(y)
  BY <1>5, Extent
<1>7. /\ Loose(z) /\ Paged(z) /\ Within(z) /\ DocKept(y, z) /\ ZoomKept(y, z)
      /\ z.cur = y.cur /\ z.loc = y.loc /\ z.shown = y.shown /\ z.page = y.page
      /\ z.top = Max({0, Min({Top(y, p) + spot, MaxTop(y)})})
      /\ z.moved <=> y.moved \/ z.top # y.top
      /\ PageInStep(y) => PageInStep(z)
  <2> DEFINE k == Top(y, p) + spot
  <2>1. k \in Int
    BY <1>6
  <2> HIDE DEF k
  <2>2. ScrollTo(y, k) = z
    BY DEF k
  <2> HIDE DEF z
  <2>3. z.top = Max({0, Min({k, MaxTop(y)})})
    BY ONLY <2>1, <2>2, <1>5, Scrolled
  <2> QED
    BY <2>1, <2>2, <2>3, <1>5, Scrolled DEF k
<1> HIDE DEF z
<1>8. /\ Open(z) /\ DocKept(w, z) /\ ZoomKept(w, z)
      /\ Scale(z) = Scale(w) /\ Scale(z) = Scale(y) /\ Shown(z) = Shown(y)
      /\ Top(z, p) = Top(y, p) /\ MaxTop(z) = MaxTop(y)
  BY <1>5, <1>7, SameLayout DEF Open, DocKept, ZoomKept, Scale
<1>9. ASSUME spot \in 0 .. (Scale(w) - 1)
      PROVE  InView(z)
  <2>1. p \in Visible(z)
    BY <1>6, <1>7, <1>8, <1>9, SeenAt
  <2> QED
    BY <2>1, <1>5, <1>7 DEF InView
<1>14. ASSUME spot \in 0 .. Scale(w)
       PROVE  NearView(z)
  <2>1. p \in Visible(z) \/ EndsAbove(z, p)
    BY <1>6, <1>7, <1>8, <1>14, SeenOrAbove
  <2> QED
    BY <2>1, <1>5, <1>7 DEF NearView, InView
<1>10. ASSUME Located(w)
       PROVE  Located(z)
  <2> SUFFICES ASSUME ~z.moved
               PROVE  Exact(z)
    BY DEF Located
  <2>1. ~y.moved /\ ~w.moved /\ z.top = y.top /\ z.top = w.top
    BY <1>5, <1>7 DEF SpotKept
  <2>2. PlaceKept(y, z)
    BY <2>1, <1>7 DEF PlaceKept, SpotKept, ZoomKept
  <2>3. CASE w.mode = "page"
    <3>1. y.top <= MaxTop(y)
      BY <1>7, <1>8, <2>1 DEF Within
    <3>2. Visible(y) # {}
      BY <3>1, <1>5, FirstVisible
    <3>3. Exact(y)
      BY <3>2, <1>5, <2>3
    <3> QED
      BY <3>3, <2>2, SamePlace
  <2>4. CASE w.mode # "page"
    <3>1. Exact(w)
      BY <1>10, <2>1 DEF Located
    <3>2. /\ y.pages = w.pages /\ y.mode = w.mode /\ y.scale = w.scale /\ y.shown = w.shown
          /\ y.top = w.top /\ y.loc = w.loc
      BY <1>5, <2>4 DEF DocKept, ZoomKept, SpotKept
    <3>3. Scale(y) = Scale(w) /\ Visible(y) = Visible(w) /\ \A o : Top(y, o) = Top(w, o)
      BY <3>2, SameLayout
    <3>4. Exact(y)
      BY <3>1, <3>2, <3>3 DEF Exact, PagePoint
    <3> QED
      BY <3>4, <2>2, SamePlace
  <2> QED
    BY <2>3, <2>4
<1>11. /\ ~w.installing /\ PageInStep(w) => PageInStep(z)
       /\ w.cur = p => z.page = w.page
  BY <1>3, <1>5, <1>7
<1>12. CASE z.value # Empty
  <2>1. u = z
    BY <1>12
  <2> HIDE DEF u
  <2> QED
    BY <2>1, <1>1, <1>5, <1>7, <1>8, <1>9, <1>10, <1>11, <1>14
<1>13. CASE z.value = Empty
  <2>1. u = [z EXCEPT !.loc = Empty] /\ z \in ViewRecords
    BY <1>13, <1>7 DEF Loose
  <2> HIDE DEF u
  <2>2. /\ u \in ViewRecords /\ DocKept(z, u) /\ ZoomKept(z, u) /\ SpotKept(z, u)
        /\ u.cur = z.cur /\ u.loc = Empty /\ u.shown = z.shown
        /\ u.page = z.page /\ u.shows = z.shows
    BY <2>1 DEF ViewRecords, DocKept, ZoomKept, SpotKept
  <2>3. /\ Visible(u) = Visible(z) /\ MaxTop(u) = MaxTop(z) /\ PagesCount(u) = PagesCount(z)
        /\ ActivePages(u) = ActivePages(z)
    BY <2>2, SameLayout DEF DocKept, ZoomKept, SpotKept, ActivePages
  <2>4. Loose(u) /\ Paged(u) /\ Within(u)
    BY <2>2, <2>3, <1>7, <1>8 DEF Loose, Paged, Within, PagesExist, Open, DocKept, SpotKept
  <2>5. DocKept(w, u) /\ ZoomKept(w, u)
    BY <2>2, <1>8 DEF DocKept, ZoomKept
  <2>6. (InView(z) => InView(u)) /\ (NearView(z) => NearView(u))
    <3>1. Scale(u) = Scale(z) /\ \A o : Top(u, o) = Top(z, o)
      BY <2>2, SameLayout DEF DocKept, ZoomKept
    <3> QED
      BY <3>1, <2>2, <2>3 DEF InView, NearView, EndsAbove, SpotKept
  <2>7. PageInStep(z) => PageInStep(u)
    BY <2>2 DEF PageInStep, Open, DocKept
  <2>8. w.value = Empty
    BY <1>8, <1>13 DEF ZoomKept
  <2> QED
    BY <2>2, <2>4, <2>5, <2>6, <2>7, <2>8, <1>1, <1>5, <1>7, <1>9, <1>11, <1>14
<1> QED
  BY <1>12, <1>13

\* What the setters of the page do: the page is where the view is.
AtRest(w) == Loose(w) /\ Paged(w) /\ Within(w)

LEMMA NumberSet ==
    ASSUME NEW w, AtRest(w), NEW n \in Int
    PROVE  LET u == SetCurrentPageNumber(w, n)
           IN  /\ AtRest(u) /\ DocKept(w, u) /\ ZoomKept(w, u)
               /\ ~w.installing /\ PageInStep(w) => PageInStep(u)
               /\ n \notin 1 .. PagesCount(w) => u = w
               /\ n \in 1 .. PagesCount(w) => u.cur = n /\ InView(u)
               /\ w.value # Empty /\ Located(w) => Located(u)
               /\ n \in 1 .. PagesCount(w) /\ ~w.installing /\ w.active = w.doc /\ w.page = n
                    => u.page = n
<1>1. CASE n \notin 1 .. PagesCount(w)
  <2>1. SetCurrentPageNumber(w, n) = w
    BY <1>1 DEF SetCurrentPageNumber
  <2> QED
    BY <2>1, <1>1 DEF DocKept, ZoomKept
<1>2. CASE n \in 1 .. PagesCount(w)
  <2> DEFINE x == ChangePage(w, n)
             u == ScrollIntoView(x, x.cur, 0)
  <2>1. SetCurrentPageNumber(w, n) = u
    BY <1>2 DEF SetCurrentPageNumber, With, ResetCurrentPageView
  <2>2. Loose(w) /\ Open(w)
    BY <1>2, Counts DEF AtRest, Loose
  <2>3. /\ Loose(x) /\ DocKept(w, x) /\ ZoomKept(w, x) /\ SpotKept(w, x)
        /\ x.loc = w.loc /\ x.shown = w.shown /\ x.cur = n
        /\ ~w.installing /\ PageInStep(w) => PageInStep(x)
        /\ n \in 1 .. PagesCount(w) /\ ~w.installing /\ w.active = w.doc /\ w.page = n
             => x.page = n
    BY <1>2, <2>2, PageChanged
  <2> HIDE DEF x
  <2>4. /\ Open(x) /\ Scale(x) = Scale(w) /\ PagesCount(x) = PagesCount(w)
        /\ Visible(x) = Visible(w) /\ \A o : Top(x, o) = Top(w, o)
    BY <2>2, <2>3, SameLayout DEF DocKept, ZoomKept, SpotKept, Open
  <2>5. Located(w) => Located(x)
    BY <2>2, <2>3, <2>4 DEF Located, Exact, PagePoint, SpotKept
  <2>6. Scale(x) \in Nat \ {0}
    BY <2>3, Heights DEF Loose
  <2>7. 0 \in Int /\ 0 \in 0 .. (Scale(x) - 1) /\ x.cur \in 1 .. PagesCount(x)
    BY <2>3, <2>4, <2>6, <1>2
  <2>8. /\ Loose(u) /\ Paged(u) /\ Within(u) /\ DocKept(x, u) /\ ZoomKept(x, u)
        /\ u.cur = x.cur
        /\ ~x.installing /\ PageInStep(x) => PageInStep(u)
        /\ InView(u)
        /\ x.cur = x.cur => u.page = x.page
        /\ x.value # Empty /\ Located(x) => Located(u)
    BY <2>3, <2>4, <2>7, IntoView
  <2> HIDE DEF u
  <2> QED
    BY <1>2, <2>1, <2>3, <2>5, <2>8 DEF AtRest, DocKept, ZoomKept
<1> QED
  BY <1>1, <1>2

-----------------------------------------------------------------------------
(***************************************************************************)
(* The scale.                                                              *)
(***************************************************************************)
\* All but the zoom and its control.
ButZoom(w, u) ==
    /\ PlaceKept(w, u) /\ u.value = w.value /\ u.page = w.page
    /\ u.shows.page = w.shows.page /\ u.shows.pages = w.shows.pages

LEMMA ZoomControl ==
    ASSUME NEW w, w \in ViewRecords
    PROVE  LET u == UpdateZoomControl(w)
           IN  /\ u \in ViewRecords /\ ButZoom(w, u)
               /\ u.zoom = w.zoom /\ u.shows.zoom = MatchingZoom(u, w.zoom)
<1> DEFINE z == MatchingZoom(w, w.zoom)
<1>1. w.shows \in Controls /\ w.zoom \in Values
  BY DEF ViewRecords
<1>2. Scale(w) \in Nat
  BY Heights
<1>3. z \in Marks
  <2>1. CASE w.zoom \in Options
    <3>1. z = [option |-> w.zoom.name, scale |-> 0]
      BY <2>1 DEF MatchingZoom
    <3> HIDE DEF z
    <3> QED
      BY <3>1, <2>1 DEF Marks
  <2>2. CASE w.zoom \notin Options
    <3>1. z = [option |-> NoOption, scale |-> Scale(w)]
      BY <2>2 DEF MatchingZoom
    <3> HIDE DEF z
    <3> QED
      BY <3>1, <1>2 DEF Marks
  <2> QED
    BY <2>1, <2>2
<1> HIDE DEF z
<1> DEFINE c == [w.shows EXCEPT !.zoom = z]
           u == [w EXCEPT !.shows = c]
<1>4. c \in Controls /\ c.zoom = z /\ c.page = w.shows.page /\ c.pages = w.shows.pages
  BY <1>1, <1>3 DEF Controls
<1>5. UpdateZoomControl(w) = u
  BY DEF UpdateZoomControl, z
<1> HIDE DEF c
<1>6. /\ u \in ViewRecords /\ u.shows = c /\ u.zoom = w.zoom /\ u.value = w.value
      /\ u.page = w.page
      /\ DocKept(w, u) /\ SpotKept(w, u)
      /\ u.scale = w.scale /\ u.cur = w.cur /\ u.loc = w.loc /\ u.shown = w.shown
  BY <1>4 DEF ViewRecords, DocKept, SpotKept
<1> HIDE DEF u
<1>7. MatchingZoom(u, w.zoom) = z
  BY <1>6 DEF MatchingZoom, Scale, z
<1> QED
  BY <1>4, <1>5, <1>6, <1>7 DEF ButZoom, PlaceKept

LEMMA SameButZoom ==
    ASSUME NEW w, NEW u, u \in ViewRecords, ButZoom(w, u)
    PROVE  /\ Loose(w) => Loose(u)
           /\ AtRest(w) => AtRest(u)
           /\ PageInStep(w) => PageInStep(u)
           /\ InView(w) => InView(u)
           /\ NearView(w) => NearView(u)
           /\ \A p : HalfAPoint(w, p) <=> HalfAPoint(u, p)
           /\ Exact(w) => Exact(u)
           /\ Located(w) => Located(u)
           /\ Visible(u) = Visible(w) /\ (Open(u) <=> Open(w))
<1>1. /\ DocKept(w, u) /\ u.cur = w.cur /\ u.loc = w.loc /\ u.shown = w.shown /\ u.page = w.page
      /\ u.shows.page = w.shows.page /\ u.shows.pages = w.shows.pages /\ PlaceKept(w, u)
  BY DEF ButZoom, PlaceKept
<1>2. /\ PagesCount(u) = PagesCount(w) /\ ActivePages(u) = ActivePages(w)
      /\ (Open(u) <=> Open(w)) /\ u.doc = w.doc /\ u.active = w.active
  BY <1>1 DEF DocKept, PagesCount, ActivePages, Open
<1>3. Loose(w) => Loose(u)
  BY <1>1, <1>2 DEF Loose, PagesExist
<1>4. PageInStep(w) => PageInStep(u)
  BY <1>1, <1>2 DEF PageInStep
<1> QED
  BY <1>1, <1>2, <1>3, <1>4, SamePlace DEF AtRest

\* "scalechanging".
LEMMA ScaleAnnounced ==
    ASSUME NEW w, w \in ViewRecords, NEW v \in Values
    PROVE  LET u == OnScaleChanging(w, v)
           IN  /\ u \in ViewRecords /\ ButZoom(w, u)
               /\ w.installing => u.zoom = w.zoom
               /\ ~w.installing => u.zoom = v /\ u.shows.zoom = MatchingZoom(u, v)
<1>1. CASE w.installing
  <2>1. OnScaleChanging(w, v) = w
    BY <1>1 DEF OnScaleChanging
  <2> QED
    BY <2>1, <1>1 DEF ButZoom, PlaceKept, DocKept, SpotKept
<1>2. CASE ~w.installing
  <2> DEFINE x == [w EXCEPT !.zoom = v]
             u == UpdateZoomControl(x)
  <2>1. OnScaleChanging(w, v) = u
    BY <1>2 DEF OnScaleChanging
  <2>2. /\ x \in ViewRecords /\ x.zoom = v
        /\ ButZoom(w, x)
    BY DEF ViewRecords, ButZoom, PlaceKept, DocKept, SpotKept
  <2> HIDE DEF x
  <2>3. /\ u \in ViewRecords /\ ButZoom(x, u)
        /\ u.zoom = x.zoom /\ u.shows.zoom = MatchingZoom(u, x.zoom)
    BY <2>2, ZoomControl
  <2> HIDE DEF u
  <2>4. ButZoom(w, u)
    BY <2>2, <2>3 DEF ButZoom, PlaceKept, DocKept, SpotKept
  <2> QED
    BY <1>2, <2>1, <2>2, <2>3, <2>4
<1> QED
  BY <1>1, <1>2

\* The page that is current can be seen, or ends where the view begins,
\* unless a scroll is to be seen to.
Still(w) == Open(w) /\ ~w.moved => NearView(w)

LEMMA ScaleUpdated ==
    ASSUME NEW w, AtRest(w), NEW v \in Values
    PROVE  LET u == SetScaleUpdatePages(w, v)
           IN  /\ AtRest(u) /\ DocKept(w, u) /\ u.value = v /\ u.scale = v.scale
               /\ ~w.installing /\ PageInStep(w) => PageInStep(u)
               /\ ~w.installing /\ (v.preset \/ w.scale # v.scale)
                    => u.zoom = v /\ u.shows.zoom = MatchingZoom(u, v)
               /\ u.zoom \in {w.zoom, v} /\ (w.installing => u.zoom = w.zoom)
               /\ w.scale = v.scale => PlaceKept(w, u)
               /\ Open(w) /\ w.scale # v.scale => InView(u) /\ Exact(u)
               /\ Open(w) /\ w.scale # v.scale /\ Exact(w) /\ HalfAPoint(w, Least(Visible(w)))
                    => Least(Visible(w)) \in Visible(u)
<1>0. w \in ViewRecords /\ v.scale \in Nat \ {0} /\ Loose(w)
  BY ViewingAssumption DEF AtRest, Loose
<1>1. CASE w.scale = v.scale
  <2> DEFINE x == [w EXCEPT !.value = v]
             u == IF v.preset THEN OnScaleChanging(x, v) ELSE x
  <2>1. SetScaleUpdatePages(w, v) = u
    BY <1>1 DEF SetScaleUpdatePages
  <2>2. /\ x \in ViewRecords /\ x.value = v /\ PlaceKept(w, x) /\ x.page = w.page
        /\ x.shows = w.shows /\ x.zoom = w.zoom
    BY <1>0 DEF ViewRecords, PlaceKept, DocKept, SpotKept
  <2> HIDE DEF x
  <2>3. /\ u \in ViewRecords /\ ButZoom(x, u)
        /\ w.installing \/ ~v.preset => u.zoom = x.zoom
        /\ ~w.installing /\ v.preset => u.zoom = v /\ u.shows.zoom = MatchingZoom(u, v)
    <3>1. x.installing <=> w.installing
      BY <2>2 DEF PlaceKept, DocKept
    <3>2. CASE v.preset
      BY <3>1, <3>2, <2>2, ScaleAnnounced
    <3>3. CASE ~v.preset
      BY <3>3, <2>2 DEF ButZoom, PlaceKept, DocKept, SpotKept
    <3> QED
      BY <3>2, <3>3
  <2> HIDE DEF u
  <2>4. /\ PlaceKept(w, u) /\ u.value = v /\ u.page = w.page
        /\ u.shows.page = w.shows.page /\ u.shows.pages = w.shows.pages /\ u.scale = w.scale
        /\ u.cur = w.cur /\ u.loc = w.loc /\ u.shown = w.shown /\ DocKept(w, u)
    BY <2>2, <2>3 DEF ButZoom, PlaceKept, DocKept, SpotKept
  <2>5. /\ PagesCount(u) = PagesCount(w) /\ ActivePages(u) = ActivePages(w)
        /\ (Open(u) <=> Open(w)) /\ u.doc = w.doc /\ u.active = w.active
    BY <2>4 DEF DocKept, PagesCount, ActivePages, Open
  <2>6. Loose(u)
    BY <2>3, <2>4, <2>5, <1>0 DEF Loose, PagesExist
  <2>7. AtRest(u)
    BY <2>4, <2>6, SamePlace DEF AtRest
  <2>8. PageInStep(w) => PageInStep(u)
    BY <2>4, <2>5 DEF PageInStep
  <2> QED
    BY <1>1, <2>1, <2>2, <2>3, <2>4, <2>7, <2>8
<1>2. CASE w.scale # v.scale
  <2> DEFINE k == v.scale
             n == [[w EXCEPT !.value = v] EXCEPT !.scale = k]
             j == ViewportPoint(n, n.loc.top)
             y == IF n.pages = Empty THEN n
                  ELSE IF n.loc = Empty THEN SetCurrentPageNumber(n, n.cur)
                  ELSE ScrollIntoView(n, n.loc.page, j)
             a == OnScaleChanging(y, v)
             u == Update(a)
  <2>1. SetScaleUpdatePages(w, v) = u
    <3> DEFINE m == [w EXCEPT !.value = v, !.scale = v.scale]
               B(q) == IF q.pages = Empty THEN q
                       ELSE IF q.loc = Empty THEN SetCurrentPageNumber(q, q.cur)
                       ELSE ScrollIntoView(q, q.loc.page, ViewportPoint(q, q.loc.top))
    <3>1. m = n /\ y = B(n)
      OBVIOUS
    <3>2. SetScaleUpdatePages(w, v) =
            With(With(m, LAMBDA q : B(q)), LAMBDA q : With(OnScaleChanging(q, v), Update))
      BY <1>2 DEF SetScaleUpdatePages
    <3> HIDE DEF m, n, B, y
    <3>3. With(m, LAMBDA q : B(q)) = y
      BY <3>1 DEF With
    <3>4. With(y, LAMBDA q : With(OnScaleChanging(q, v), Update)) = With(a, Update)
      BY DEF With
    <3>5. With(a, Update) = u
      BY DEF With
    <3> QED
      BY <3>2, <3>3, <3>4, <3>5
  <2>2. k \in Nat \ {0} /\ k = v.scale
    BY <1>0
  <2> HIDE DEF k
  <2>3. /\ n \in ViewRecords /\ n.value = v /\ n.scale = k /\ DocKept(w, n) /\ SpotKept(w, n)
        /\ n.cur = w.cur /\ n.loc = w.loc /\ n.shown = w.shown
        /\ n.page = w.page /\ n.shows = w.shows /\ n.zoom = w.zoom
    BY <1>0, <2>2 DEF ViewRecords, DocKept, SpotKept
  <2> HIDE DEF n
  <2>4. /\ PagesCount(n) = PagesCount(w) /\ ActivePages(n) = ActivePages(w)
        /\ (Open(n) <=> Open(w)) /\ n.doc = w.doc /\ n.active = w.active /\ Scale(n) = k
    BY <2>2, <2>3 DEF DocKept, PagesCount, ActivePages, Open, Scale
  <2>5. Loose(n) /\ (PageInStep(w) => PageInStep(n))
    BY <2>3, <2>4, <1>0 DEF Loose, PagesExist, PageInStep
  <2>6. CASE ~Open(w)
    <3>1. y = n
      BY <2>6, <2>4 DEF Open
    <3> HIDE DEF y
    <3>2. /\ a \in ViewRecords /\ ButZoom(n, a)
          /\ n.installing => a.zoom = n.zoom
          /\ ~n.installing => a.zoom = v /\ a.shows.zoom = MatchingZoom(a, v)
      BY <3>1, <2>3, ScaleAnnounced
    <3> HIDE DEF a
    <3>3. Loose(a) /\ ~Open(a) /\ a.scale = k /\ a.value = v /\ DocKept(w, a)
      BY <3>2, <2>3, <2>4, <2>5, <2>6, SameButZoom DEF ButZoom, PlaceKept, DocKept
    <3>4. u = a
      BY <3>3, NothingSeen
    <3> HIDE DEF u
    <3>5. AtRest(a) /\ PageInStep(a)
      BY <3>3 DEF AtRest, Paged, Within, PageInStep
    <3> QED
      BY <1>2, <2>1, <2>2, <2>3, <2>6, <3>2, <3>3, <3>4, <3>5 DEF DocKept
  <2>7. CASE Open(w)
    <3>1. n.cur \in 1 .. PagesCount(n) /\ n.cur \in Int
      BY <2>4, <2>5, <2>7, Counts DEF Loose, PagesExist
    <3>2. /\ Loose(y) /\ Paged(y) /\ Within(y) /\ DocKept(n, y) /\ ZoomKept(n, y)
          /\ ~n.installing /\ PageInStep(n) => PageInStep(y)
          /\ Exact(w) /\ HalfAPoint(w, Least(Visible(w))) => Least(Visible(w)) \in Visible(y)
      <4>1. CASE n.loc = Empty
        <5> DEFINE z == ScrollIntoView(n, n.cur, 0)
        <5>1. ChangePage(n, n.cur) = n
          BY DEF ChangePage
        <5>2. y = z
          BY <4>1, <3>1, <5>1, <2>4, <2>7 DEF SetCurrentPageNumber, With, ResetCurrentPageView, Open
        <5> HIDE DEF y
        <5>3. 0 \in Int
          OBVIOUS
        <5>4. /\ Loose(z) /\ Paged(z) /\ Within(z) /\ DocKept(n, z) /\ ZoomKept(n, z)
              /\ ~n.installing /\ PageInStep(n) => PageInStep(z)
          BY <5>3, <3>1, <2>4, <2>5, <2>7, IntoView
        <5> HIDE DEF z
        <5>5. ~Exact(w)
          <6> SUFFICES ASSUME Exact(w)
                       PROVE  FALSE
            OBVIOUS
          <6> DEFINE p == Least(Visible(w))
                     t == PagePoint(w, w.top - Top(w, p))
          <6>1. w.loc = [page |-> p, top |-> t]
            BY DEF Exact
          <6> HIDE DEF p, t
          <6>2. w.loc = <<>>
            BY <4>1, <2>3 DEF Empty
          <6>3. [page |-> p, top |-> t] # <<>>
            <7>1. DOMAIN [page |-> p, top |-> t] = {"page", "top"}
              OBVIOUS
            <7>2. DOMAIN <<>> = {}
              OBVIOUS
            <7> QED
              BY <7>1, <7>2
          <6> QED
            BY <6>1, <6>2, <6>3
        <5> QED
          BY <5>2, <5>4, <5>5
      <4>2. CASE n.loc # Empty
        <5>1. n.loc \in Locations /\ n.loc.page \in 1 .. PagesCount(n)
          BY <4>2, <2>3, <2>4, <2>5, <2>7 DEF Loose, ViewRecords, PagesExist
        <5>2. j \in Int
          <6> DEFINE scaled == (Points - n.loc.top) * Scale(n)
          <6>1. Points \in Nat \ {0} /\ n.loc.top \in Int /\ Scale(n) \in Nat
            BY <5>1, <2>2, <2>4, ViewingAssumption DEF Locations
          <6>2. scaled \in Int
            BY <6>1
          <6>3. j = scaled \div Points
            BY DEF ViewportPoint
          <6> HIDE DEF scaled, j
          <6> QED
            BY <6>1, <6>2, <6>3
        <5> DEFINE z == ScrollIntoView(n, n.loc.page, j)
        <5>3. y = z
          BY <4>2, <2>4, <2>7 DEF Open
        <5> HIDE DEF y
        <5>4. Exact(w) /\ HalfAPoint(w, Least(Visible(w)))
                => j \in 0 .. (k - 1) /\ n.loc.page = Least(Visible(w))
          <6> SUFFICES ASSUME Exact(w), HalfAPoint(w, Least(Visible(w)))
                       PROVE  j \in 0 .. (k - 1) /\ n.loc.page = Least(Visible(w))
            OBVIOUS
          <6> DEFINE p == Least(Visible(w))
                     f == w.top - Top(w, p)
          <6>1. n.loc = [page |-> p, top |-> PagePoint(w, f)]
            BY <2>3 DEF Exact
          <6>2. f \in 0 .. (Scale(w) - 1)
            <7>1. w.top <= MaxTop(w) /\ Paged(w)
              BY <2>7 DEF AtRest, Within
            <7> QED
              BY <7>1, <1>0, <2>7, FirstVisible
          <6>3. 2 * Points * (Scale(w) - f) >= Scale(w)
            <7>1. 2 * Points * (Top(w, p) + Scale(w) - w.top) >= Scale(w)
              BY DEF HalfAPoint
            <7>2. p \in Shown(w) /\ Paged(w)
              BY <1>0, <2>7, FirstVisible DEF AtRest, Within, Visible
            <7>3. Top(w, p) \in Nat /\ w.top \in Nat /\ Scale(w) \in Nat
              BY <7>2, <1>0, <2>7, Extent, Heights DEF ViewRecords
            <7>4. Top(w, p) + Scale(w) - w.top = Scale(w) - f
              BY <7>3
            <7> QED
              BY <7>1, <7>4
          <6> HIDE DEF p, f
          <6>4. n.loc.page = p /\ n.loc.top = PagePoint(w, f)
            BY <6>1
          <6>5. n.loc.top \in 0 .. Points /\ n.loc.top # 0
            BY <6>2, <6>3, <6>4, <1>0, Places
          <6>6. j \in 0 .. (Scale(n) - 1)
            BY <6>5, <2>3, PlacesBack
          <6> HIDE DEF j
          <6> QED
            BY <6>4, <6>6, <2>4 DEF p
        <5> HIDE DEF j
        <5>5. /\ Loose(z) /\ Paged(z) /\ Within(z) /\ DocKept(n, z) /\ ZoomKept(n, z)
              /\ z.cur = n.loc.page
              /\ ~n.installing /\ PageInStep(n) => PageInStep(z)
              /\ j \in 0 .. (Scale(n) - 1) => InView(z)
          BY <5>1, <5>2, <2>4, <2>5, <2>7, IntoView
        <5> HIDE DEF z
        <5> QED
          BY <5>3, <5>4, <5>5, <2>4 DEF InView
      <4> QED
        BY <4>1, <4>2
    <3> HIDE DEF y
    <3>3. y \in ViewRecords /\ Open(y) /\ AtRest(y) /\ (y.installing <=> w.installing)
          /\ y.zoom = w.zoom /\ y.scale = k /\ y.value = v /\ DocKept(w, y)
      BY <3>2, <2>3, <2>4, <2>7 DEF Loose, AtRest, Open, DocKept, ZoomKept
    <3>4. /\ a \in ViewRecords /\ ButZoom(y, a)
          /\ y.installing => a.zoom = y.zoom
          /\ ~y.installing => a.zoom = v /\ a.shows.zoom = MatchingZoom(a, v)
      BY <3>3, ScaleAnnounced
    <3> HIDE DEF a
    <3>5. /\ AtRest(a) /\ Open(a) /\ Visible(a) = Visible(y) /\ (PageInStep(y) => PageInStep(a))
          /\ DocKept(w, a) /\ a.scale = k /\ a.value = v
      <4>1. AtRest(a) /\ Open(a) /\ Visible(a) = Visible(y) /\ (PageInStep(y) => PageInStep(a))
        BY <3>3, <3>4, SameButZoom
      <4> QED
        BY <4>1, <3>3, <3>4 DEF ButZoom, PlaceKept, DocKept
    <3>6. Visible(a) # {}
      <4>1. Loose(a) /\ Paged(a) /\ a.top <= MaxTop(a)
        BY <3>5 DEF AtRest, Within
      <4> QED
        BY <4>1, <3>5, FirstVisible
    <3>7. /\ Loose(u) /\ Paged(u) /\ DocKept(a, u) /\ ZoomKept(a, u) /\ SpotKept(a, u)
          /\ u.shown = a.shown /\ Visible(u) = Visible(a)
          /\ InView(u) /\ Exact(u)
          /\ ~a.installing /\ PageInStep(a) => PageInStep(u)
      BY <3>5, <3>6, Updated DEF AtRest
    <3> HIDE DEF u
    <3>8. MaxTop(u) = MaxTop(a)
      BY <3>7, SameLayout DEF DocKept, ZoomKept
    <3>9. AtRest(u)
      BY <3>5, <3>7, <3>8 DEF AtRest, Within, SpotKept, Open, DocKept
    <3>10. DocKept(w, u) /\ u.value = v /\ u.scale = k /\ u.zoom = a.zoom
           /\ u.shows.zoom = a.shows.zoom /\ Scale(u) = Scale(a)
      BY <3>5, <3>7 DEF DocKept, ZoomKept, Scale
    <3>11. MatchingZoom(u, v) = MatchingZoom(a, v)
      BY <3>10 DEF MatchingZoom
    <3>12. ~w.installing /\ PageInStep(w) => PageInStep(u)
      BY <3>2, <3>3, <3>5, <3>7, <2>3, <2>5 DEF DocKept
    <3> QED
      BY <1>2, <2>1, <2>2, <3>2, <3>3, <3>4, <3>5, <3>7, <3>9, <3>10, <3>11, <3>12
  <2> QED
    BY <2>6, <2>7
<1> QED
  BY <1>1, <1>2

\* The controls of the zoom follow it.
ZoomInStep(w) == Open(w) => w.zoom = w.value /\ w.shows.zoom = MatchingZoom(w, w.value)

Belongs(w) == \A p \in DOMAIN w.pages : w.pages[p] \in {0, w.doc}

\* What holds of the record between two steps.
Good(w) ==
    /\ AtRest(w) /\ ~w.installing /\ w.doc = w.active
    /\ PageInStep(w) /\ ZoomInStep(w) /\ Still(w) /\ Located(w) /\ Belongs(w)

LEMMA SameZoom ==
    ASSUME NEW w, NEW u, DocKept(w, u), ZoomKept(w, u)
    PROVE  /\ ZoomInStep(w) => ZoomInStep(u)
           /\ Belongs(w) => Belongs(u)
           /\ Open(u) <=> Open(w)
           /\ PagesCount(u) = PagesCount(w)
<1>1. u.pages = w.pages /\ u.doc = w.doc /\ ZoomKept(w, u)
  BY DEF DocKept
<1>2. MatchingZoom(u, u.value) = MatchingZoom(w, w.value)
  BY <1>1 DEF ZoomKept, MatchingZoom, Scale
<1> QED
  BY <1>1, <1>2 DEF ZoomInStep, Belongs, Open, ZoomKept, PagesCount

\* A value is none of the things it is not.
LEMMA ValuesExist ==
    ASSUME NEW v \in Values
    PROVE  v # Empty
<1>1. v \in [name : STRING, scale : Nat \ {0}, preset : BOOLEAN]
  BY ViewingAssumption
<1>2. DOMAIN v = {"name", "scale", "preset"}
  BY <1>1
<1>3. DOMAIN <<>> = {}
  OBVIOUS
<1> QED
  BY <1>2, <1>3 DEF Empty

LEMMA Valued ==
    ASSUME NEW w, Good(w), Open(w)
    PROVE  w.value # Empty
<1>1. w.value = w.zoom /\ w.zoom \in Values
  BY DEF Good, ZoomInStep, AtRest, Loose, ViewRecords
<1> QED
  BY <1>1, ValuesExist

\* The setters of the page, and what calls them.
LEMMA GoodNumber ==
    ASSUME NEW w, Good(w), NEW n \in Int
    PROVE  LET u == SetCurrentPageNumber(w, n)
           IN  Good(u) /\ DocKept(w, u) /\ ZoomKept(w, u)
<1> DEFINE u == SetCurrentPageNumber(w, n)
<1>1. CASE n \notin 1 .. PagesCount(w)
  <2>1. u = w
    BY <1>1 DEF SetCurrentPageNumber
  <2> HIDE DEF u
  <2> QED
    BY <2>1 DEF u, DocKept, ZoomKept
<1>2. CASE n \in 1 .. PagesCount(w)
  <2>1. AtRest(w) /\ ~w.installing /\ PageInStep(w) /\ ZoomInStep(w) /\ Located(w) /\ Belongs(w)
        /\ w.doc = w.active /\ Open(w)
    BY <1>2, Counts DEF Good, AtRest, Loose
  <2>2. w.value # Empty
    BY <2>1, Valued
  <2>3. /\ AtRest(u) /\ DocKept(w, u) /\ ZoomKept(w, u) /\ PageInStep(u) /\ InView(u) /\ Located(u)
    BY <1>2, <2>1, <2>2, NumberSet
  <2> HIDE DEF u
  <2>4. ZoomInStep(u) /\ Belongs(u)
    BY <2>1, <2>3, SameZoom
  <2>5. Good(u)
    BY <2>1, <2>3, <2>4 DEF Good, Still, NearView, DocKept
  <2> QED
    BY <2>3, <2>5 DEF u
<1> QED
  BY <1>1, <1>2

LEMMA GoodPages ==
    ASSUME NEW w, Good(w), NEW n \in Int
    PROVE  /\ Good(NextPage(w)) /\ DocKept(w, NextPage(w)) /\ ZoomKept(w, NextPage(w))
           /\ Good(PreviousPage(w)) /\ DocKept(w, PreviousPage(w)) /\ ZoomKept(w, PreviousPage(w))
           /\ Good(LinkServicePage(w, n)) /\ DocKept(w, LinkServicePage(w, n)) /\ ZoomKept(w, LinkServicePage(w, n))
<1>1. w.cur + 1 \in Int /\ w.cur - 1 \in Int
  BY DEF Good, AtRest, Loose, ViewRecords
<1>2. DocKept(w, w) /\ ZoomKept(w, w)
  BY DEF DocKept, ZoomKept
<1>3. Good(NextPage(w)) /\ DocKept(w, NextPage(w)) /\ ZoomKept(w, NextPage(w))
  <2> DEFINE k == w.cur + 1
  <2>1. k \in Int /\ (NextPage(w) = w \/ NextPage(w) = SetCurrentPageNumber(w, k))
    BY <1>1 DEF NextPage
  <2> HIDE DEF k
  <2> QED
    BY <2>1, <1>2, GoodNumber
<1>4. Good(PreviousPage(w)) /\ DocKept(w, PreviousPage(w)) /\ ZoomKept(w, PreviousPage(w))
  <2> DEFINE k == w.cur - 1
  <2>1. k \in Int /\ (PreviousPage(w) = w \/ PreviousPage(w) = SetCurrentPageNumber(w, k))
    BY <1>1 DEF PreviousPage
  <2> HIDE DEF k
  <2> QED
    BY <2>1, <1>2, GoodNumber
<1>5. Good(LinkServicePage(w, n)) /\ DocKept(w, LinkServicePage(w, n)) /\ ZoomKept(w, LinkServicePage(w, n))
  <2>1. LinkServicePage(w, n) = w \/ LinkServicePage(w, n) = SetCurrentPageNumber(w, n)
    BY DEF LinkServicePage
  <2> QED
    BY <2>1, <1>2, GoodNumber
<1> QED
  BY <1>3, <1>4, <1>5

LEMMA GoodUpdate ==
    ASSUME NEW w, AtRest(w), ~w.installing, w.doc = w.active,
           PageInStep(w), ZoomInStep(w), Belongs(w)
    PROVE  Good(Update(w)) /\ DocKept(w, Update(w)) /\ ZoomKept(w, Update(w))
<1> DEFINE u == Update(w)
<1>0. Loose(w) /\ Paged(w) /\ Within(w)
  BY DEF AtRest
<1>1. CASE ~Open(w)
  <2>1. u = w
    BY <1>0, <1>1, NothingSeen
  <2> HIDE DEF u
  <2> QED
    BY <2>1, <1>1 DEF Good, Still, Located, DocKept, ZoomKept, u
<1>2. CASE Open(w)
  <2>1. Visible(w) # {}
    BY <1>0, <1>2, FirstVisible DEF Within
  <2>2. /\ Loose(u) /\ Paged(u) /\ DocKept(w, u) /\ ZoomKept(w, u) /\ SpotKept(w, u)
        /\ u.shown = w.shown /\ InView(u) /\ Exact(u) /\ PageInStep(u)
    BY <1>0, <1>2, <2>1, Updated
  <2> HIDE DEF u
  <2>3. MaxTop(u) = MaxTop(w)
    BY <2>2, SameLayout DEF DocKept, ZoomKept
  <2>4. AtRest(u)
    BY <1>0, <2>2, <2>3 DEF AtRest, Within, SpotKept, Open, DocKept
  <2>5. ZoomInStep(u) /\ Belongs(u)
    BY <2>2, SameZoom
  <2> QED
    BY <2>2, <2>4, <2>5 DEF Good, Still, NearView, Located, DocKept, u
<1> QED
  BY <1>1, <1>2

\* A scale that is set is announced, or it is the one that was there.
LEMMA ScaleSet ==
    ASSUME NEW w, AtRest(w), NEW v \in Values
    PROVE  LET u == SetScale(w, v)
           IN  /\ AtRest(u) /\ DocKept(w, u)
               /\ Open(w) => u = SetScaleUpdatePages(w, v)
               /\ ~w.installing /\ PageInStep(w) => PageInStep(u)
               /\ u = w \/ u = SetScaleUpdatePages(w, v)
<1>1. CASE SetScale(w, v) = w
  BY <1>1 DEF SetScale, DocKept, AtRest, Loose, PagesExist
<1>2. CASE SetScale(w, v) # w
  <2>1. SetScale(w, v) = SetScaleUpdatePages(w, v)
    BY <1>2 DEF SetScale
  <2> QED
    BY <2>1, ScaleUpdated
<1> QED
  BY <1>1, <1>2

\* What a zoom leaves behind where there are pages.
LEMMA GoodScale ==
    ASSUME NEW w, AtRest(w), NEW v \in Values, Open(w), ~w.installing, w.doc = w.active,
           PageInStep(w), Still(w), Located(w), Belongs(w), v.preset \/ w.scale # v.scale
    PROVE  Good(SetScale(w, v)) /\ DocKept(w, SetScale(w, v))
<1> DEFINE u == SetScale(w, v)
<1>1. u = SetScaleUpdatePages(w, v)
  BY ScaleSet
<1>2. /\ AtRest(u) /\ DocKept(w, u) /\ u.value = v /\ u.scale = v.scale
      /\ PageInStep(u)
      /\ u.zoom = v /\ u.shows.zoom = MatchingZoom(u, v)
      /\ w.scale = v.scale => PlaceKept(w, u)
      /\ Open(w) /\ w.scale # v.scale => InView(u) /\ Exact(u)
  BY <1>1, ScaleUpdated
<1> HIDE DEF u
<1>3. Still(u) /\ Located(u)
  <2>1. CASE w.scale = v.scale
    <3>1. PlaceKept(w, u) /\ (u.moved <=> w.moved)
      BY <2>1, <1>2 DEF PlaceKept, SpotKept
    <3> QED
      BY <3>1, SamePlace DEF Still
  <2>2. CASE w.scale # v.scale
    BY <2>2, <1>2 DEF Still, NearView, Located
  <2> QED
    BY <2>1, <2>2
<1>4. ZoomInStep(u) /\ Belongs(u)
  BY <1>2 DEF ZoomInStep, Belongs, DocKept
<1> QED
  BY <1>2, <1>3, <1>4 DEF Good, DocKept, u

\* setZoom.
LEMMA GoodZoom ==
    ASSUME NEW w, Good(w), NEW v \in Values, NEW y, y = [w EXCEPT !.zoom = v]
    PROVE  LET x == SetScale(y, v)
               u == UpdateZoomControl(x)
           IN  /\ Good(u) /\ DocKept(w, u) /\ u.scale = x.scale
               /\ Open(w) /\ ~w.moved /\ x.scale # w.scale /\ HalfAPoint(w, Least(Visible(w)))
                    => Least(Visible(w)) \in Visible(u)
<1> DEFINE x == SetScale(y, v)
           u == UpdateZoomControl(x)
<1>1. w \in ViewRecords
  BY DEF Good, AtRest, Loose
<1>2. /\ y \in ViewRecords /\ ButZoom(w, y) /\ y.zoom = v
  BY <1>1 DEF ViewRecords, ButZoom, PlaceKept, DocKept, SpotKept
<1>3. /\ AtRest(y) /\ PageInStep(y) /\ Still(y) /\ Located(y) /\ (Open(y) <=> Open(w))
      /\ ~y.installing /\ y.doc = y.active /\ Belongs(y) /\ DocKept(w, y)
      /\ Visible(y) = Visible(w) /\ y.scale = w.scale /\ (y.moved <=> w.moved)
      /\ \A p : HalfAPoint(w, p) <=> HalfAPoint(y, p)
  BY <1>2, SameButZoom DEF Good, Still, Belongs, ButZoom, PlaceKept, DocKept, SpotKept
<1>4. /\ AtRest(x) /\ DocKept(y, x) /\ PageInStep(x)
      /\ Open(y) => x = SetScaleUpdatePages(y, v)
  BY <1>3, ScaleSet
<1>5. ASSUME Open(y)
      PROVE  /\ x.value = v /\ x.zoom = v /\ x.scale = v.scale
             /\ Still(x) /\ Located(x)
             /\ ~y.moved /\ x.scale # y.scale /\ HalfAPoint(y, Least(Visible(y)))
                  => Least(Visible(y)) \in Visible(x)
  <2>1. x = SetScaleUpdatePages(y, v)
    BY <1>4, <1>5
  <2>2. /\ x.value = v /\ x.scale = v.scale /\ x.zoom \in {y.zoom, v}
        /\ y.scale = v.scale => PlaceKept(y, x)
        /\ Open(y) /\ y.scale # v.scale => InView(x) /\ Exact(x)
        /\ Open(y) /\ y.scale # v.scale /\ Exact(y) /\ HalfAPoint(y, Least(Visible(y)))
             => Least(Visible(y)) \in Visible(x)
    BY ONLY <2>1, <1>3, v \in Values, ScaleUpdated
  <2> HIDE DEF x
  <2>3. Still(x) /\ Located(x)
    <3>1. CASE y.scale = v.scale
      <4>1. PlaceKept(y, x) /\ (x.moved <=> y.moved)
        BY <3>1, <2>2 DEF PlaceKept, SpotKept
      <4> QED
        BY <4>1, <1>3, SamePlace DEF Still
    <3>2. CASE y.scale # v.scale
      BY <3>2, <2>2, <1>5 DEF Still, NearView, Located
    <3> QED
      BY <3>1, <3>2
  <2> QED
    BY <2>2, <2>3, <1>2, <1>3, <1>5 DEF Located
<1> HIDE DEF x
<1>6. x \in ViewRecords /\ (Open(x) <=> Open(y))
  BY <1>4 DEF AtRest, Loose, Open, DocKept
<1>7. /\ u \in ViewRecords /\ ButZoom(x, u)
      /\ u.zoom = x.zoom /\ u.shows.zoom = MatchingZoom(u, x.zoom)
  BY <1>6, ZoomControl
<1> HIDE DEF u
<1>8. /\ AtRest(u) /\ PageInStep(u) /\ (NearView(x) => NearView(u)) /\ (Located(x) => Located(u))
      /\ Visible(u) = Visible(x) /\ (Open(u) <=> Open(x)) /\ u.value = x.value
      /\ (u.moved <=> x.moved) /\ DocKept(x, u) /\ u.scale = x.scale
  BY <1>4, <1>7, SameButZoom DEF ButZoom, PlaceKept, SpotKept
<1>9. DocKept(w, u)
  BY <1>3, <1>4, <1>8 DEF DocKept
<1>10. ZoomInStep(u) /\ Still(u) /\ Located(u)
  <2>1. CASE ~Open(y)
    BY <2>1, <1>6, <1>8 DEF ZoomInStep, Still, Located
  <2>2. CASE Open(y)
    BY <2>2, <1>5, <1>6, <1>7, <1>8 DEF ZoomInStep, Still
  <2> QED
    BY <2>1, <2>2
<1>11. Good(u)
  BY <1>3, <1>8, <1>9, <1>10 DEF Good, DocKept, Belongs
<1> QED
  BY <1>3, <1>5, <1>8, <1>9, <1>11 DEF x, u

\* A destination.
LEMMA GoodDestination ==
    ASSUME NEW w, Good(w), NEW p \in Int, NEW v \in Values \cup {Empty}, NEW y \in 0 .. Points
    PROVE  LET u == ScrollPageIntoView(w, p, v, y)
           IN  Good(u) /\ DocKept(w, u)
<1> DEFINE x == IF v # Empty /\ (v.preset \/ v.scale # w.scale) THEN SetScale(w, v) ELSE w
           u == IF p \notin 1 .. PagesCount(w) THEN w ELSE ScrollIntoView(x, p, ViewportPoint(x, y))
<1>1. ScrollPageIntoView(w, p, v, y) = u
  BY DEF ScrollPageIntoView, With
<1>2. CASE p \notin 1 .. PagesCount(w)
  <2>1. u = w
    BY <1>2
  <2> HIDE DEF u
  <2> QED
    BY <2>1, <1>1 DEF DocKept
<1>3. CASE p \in 1 .. PagesCount(w)
  <2>1. Open(w) /\ w \in ViewRecords
    BY <1>3, Counts DEF Good, AtRest, Loose
  <2>2. Good(x) /\ DocKept(w, x)
    <3>1. CASE v # Empty /\ (v.preset \/ v.scale # w.scale)
      BY <3>1, <2>1, GoodScale DEF Good
    <3>2. CASE ~(v # Empty /\ (v.preset \/ v.scale # w.scale))
      BY <3>2 DEF DocKept
    <3> QED
      BY <3>1, <3>2
  <2> HIDE DEF x
  <2>3. /\ Loose(x) /\ Open(x) /\ PagesCount(x) = PagesCount(w) /\ x.value # Empty
        /\ Scale(x) \in Nat \ {0} /\ ~x.installing /\ PageInStep(x) /\ Located(x)
        /\ ZoomInStep(x) /\ Belongs(x) /\ x.doc = x.active
    <3>1. Open(x) /\ PagesCount(x) = PagesCount(w)
      BY <2>1, <2>2 DEF Open, DocKept, PagesCount
    <3>2. Loose(x)
      BY <2>2 DEF Good, AtRest
    <3> QED
      BY <3>1, <3>2, <2>2, Valued, Heights DEF Good, Loose
  <2> DEFINE spot == ViewportPoint(x, y)
             z == ScrollIntoView(x, p, spot)
  <2>4. u = z
    BY <1>3
  <2>5. spot \in Int /\ spot \in 0 .. Scale(x)
    BY <2>3, PlacesBack DEF Loose
  <2> HIDE DEF spot
  <2>6. /\ Loose(z) /\ Paged(z) /\ Within(z) /\ DocKept(x, z) /\ ZoomKept(x, z)
        /\ PageInStep(z) /\ NearView(z) /\ Located(z)
    BY <1>3, <2>3, <2>5, IntoView
  <2> HIDE DEF z, u
  <2>7. ZoomInStep(z) /\ Belongs(z)
    BY <2>3, <2>6, SameZoom
  <2>8. Good(z)
    BY <2>3, <2>6, <2>7 DEF Good, AtRest, Still, DocKept
  <2> QED
    BY <1>1, <2>2, <2>4, <2>6, <2>8 DEF DocKept
<1> QED
  BY <1>2, <1>3

-----------------------------------------------------------------------------
(***************************************************************************)
(* The document.                                                           *)
(***************************************************************************)
\* The viewer is empty, but for the number of its document.
Blank(w) == w.scale = 0 /\ w.value = Empty /\ ~Open(w) /\ Loose(w)

LEMMA DocumentSet ==
    ASSUME NEW w, w \in ViewRecords, w.page \in 1 .. ActivePages(w), NEW d \in Known
    PROVE  LET u == SetDocument(w, d)
           IN  /\ Blank(u) /\ u.doc = d /\ u.active = w.active /\ u.page = w.page
               /\ u.zoom = w.zoom /\ (u.installing <=> w.installing)
               /\ u.shows = w.shows /\ u.moved = w.moved
<1> DEFINE m == IF d # 0 /\ Docs[d] > PageModeAbove THEN "page" ELSE "vertical"
           x == ResetView(w)
           u == [x EXCEPT !.doc = d, !.mode = m]
<1>1. SetDocument(w, d) = u
  BY DEF SetDocument
<1>2. m \in {"vertical", "page"}
  OBVIOUS
<1>3. /\ x \in ViewRecords /\ x.pages = <<>> /\ x.cur = 1 /\ x.scale = 0 /\ x.value = Empty
      /\ x.loc = Empty /\ x.shown = {} /\ x.active = w.active /\ x.page = w.page
      /\ x.zoom = w.zoom /\ (x.installing <=> w.installing)
      /\ x.shows = w.shows /\ x.moved = w.moved
  <2>1. <<>> \in Seq(Known) /\ Empty = <<>>
    BY DEF Empty
  <2>2. w \in ViewRecords
    OBVIOUS
  <2> DEFINE E == Empty
  <2>3. E \in Seq(Known) /\ E \in Locations \cup {Empty} /\ E \in Values \cup {Empty}
    BY <2>1
  <2>4. x = [w EXCEPT !.pages = E, !.cur = 1, !.scale = 0, !.value = E, !.loc = E,
                      !.mode = "vertical", !.shown = {}]
    BY <2>1 DEF ResetView
  <2> HIDE DEF E, x
  <2>5. /\ x \in ViewRecords /\ x.pages = E /\ x.cur = 1 /\ x.scale = 0 /\ x.value = E
        /\ x.loc = E /\ x.shown = {} /\ x.active = w.active /\ x.page = w.page
        /\ x.zoom = w.zoom /\ (x.installing <=> w.installing)
        /\ x.shows = w.shows /\ x.moved = w.moved
    BY <2>3, <2>4, <2>2 DEF ViewRecords
  <2> QED
    BY <2>1, <2>5 DEF E
<1> HIDE DEF m, x
<1>4. /\ u \in ViewRecords /\ u.pages = <<>> /\ u.cur = 1 /\ u.scale = 0 /\ u.value = Empty
      /\ u.loc = Empty /\ u.shown = {} /\ u.active = x.active /\ u.page = x.page
      /\ u.zoom = x.zoom /\ (u.installing <=> x.installing) /\ u.doc = d
      /\ u.shows = x.shows /\ u.moved = x.moved
  BY <1>2, <1>3 DEF ViewRecords
<1> HIDE DEF u
<1>5. ActivePages(u) = ActivePages(w) /\ ~Open(u)
  BY <1>3, <1>4 DEF ActivePages, Open, Empty
<1> QED
  BY <1>1, <1>3, <1>4, <1>5 DEF Blank, Loose

LEMMA FirstPaged ==
    ASSUME NEW w, Blank(w), w.doc # 0, w.installing
    PROVE  LET u == FirstPage(w)
           IN  /\ AtRest(u) /\ Open(u) /\ Belongs(u) /\ u.scale = 0
               /\ u.doc = w.doc /\ u.active = w.active /\ u.zoom = w.zoom /\ u.installing
<1> DEFINE c == Docs[w.doc]
           V == [p \in 1 .. c |-> IF p = 1 THEN w.doc ELSE 0]
           x == [w EXCEPT !.pages = V]
           y == IF x.mode = "page" THEN EnsurePageViewVisible(x) ELSE x
           z == ScrollTo(y, y.top)
           u == Update(z)
<1>1. FirstPage(w) = u
  <2> DEFINE B(q) == IF q.mode = "page" THEN EnsurePageViewVisible(q) ELSE q
  <2>1. FirstPage(w) = With(With(With(x, LAMBDA q : B(q)), LAMBDA q : ScrollTo(q, q.top)), Update)
    BY DEF FirstPage
  <2>2. y = B(x)
    OBVIOUS
  <2> HIDE DEF B, x, y
  <2>3. With(x, LAMBDA q : B(q)) = y
    BY <2>2 DEF With
  <2>4. With(y, LAMBDA q : ScrollTo(q, q.top)) = z
    BY DEF With
  <2>5. With(z, Update) = u
    BY DEF With
  <2> QED
    BY <2>1, <2>3, <2>4, <2>5
<1>2. w \in ViewRecords /\ Loose(w) /\ w.doc \in Known \ {0}
  BY DEF Blank, Loose, ViewRecords
<1>3. c \in Nat \ {0}
  BY <1>2, Counts
<1>4. /\ V \in Seq(Known) /\ Len(V) = c /\ V # Empty
      /\ \A p \in DOMAIN V : V[p] \in {0, w.doc}
  <2>1. \A p \in 1 .. c : V[p] \in {0, w.doc} /\ V[p] \in Known
    BY <1>2, Counts DEF Known
  <2>2. V \in [1 .. c -> Known]
    BY <2>1
  <2> HIDE DEF V
  <2>3. V \in Seq(Known) /\ Len(V) = c
    BY <2>2, <1>3
  <2> QED
    BY <2>1, <2>2, <2>3, <1>3 DEF Empty
<1> HIDE DEF c, V
<1>5. /\ x \in ViewRecords /\ x.pages = V /\ x.doc = w.doc /\ x.mode = w.mode /\ x.cur = w.cur
      /\ x.loc = w.loc /\ x.scale = w.scale /\ x.active = w.active /\ x.zoom = w.zoom
      /\ x.page = w.page /\ x.shown = w.shown /\ (x.installing <=> w.installing)
      /\ x.value = w.value
  BY <1>2, <1>4 DEF ViewRecords
<1> HIDE DEF x
<1>6. /\ Loose(x) /\ Open(x) /\ Belongs(x) /\ x.cur = 1 /\ x.scale = 0
      /\ x.mode \in {"vertical", "page"} /\ x.installing
  <2>1. w.cur = 1 /\ w.loc = Empty /\ w.scale = 0
    BY DEF Blank, Loose
  <2>2. PagesCount(x) = c /\ ActivePages(x) = ActivePages(w)
    BY <1>4, <1>5 DEF PagesCount, ActivePages
  <2>3. Open(x) /\ Belongs(x)
    BY <1>4, <1>5 DEF Open, Belongs
  <2>4. PagesExist(x)
    BY <2>1, <2>2, <1>3, <1>5 DEF PagesExist
  <2>5. Loose(x)
    BY <2>1, <2>2, <2>3, <2>4, <1>2, <1>5 DEF Loose, c
  <2>6. x.mode \in {"vertical", "page"}
    BY <1>5 DEF ViewRecords
  <2> QED
    BY <2>1, <2>3, <2>5, <2>6, <1>5
<1>7. /\ Loose(y) /\ Paged(y) /\ Open(y) /\ DocKept(x, y) /\ ZoomKept(x, y) /\ y.top \in Int
  <2>1. CASE x.mode = "page"
    <3> DEFINE S == {x.cur}
               e == [x EXCEPT !.shown = S]
    <3>1. y = e
      BY <2>1 DEF EnsurePageViewVisible
    <3>2. S \in SUBSET Nat /\ S = {x.cur}
      BY <1>6
    <3> HIDE DEF S, y
    <3>3. /\ e \in ViewRecords /\ e.shown = S /\ DocKept(x, e) /\ ZoomKept(x, e)
          /\ e.cur = x.cur /\ e.loc = x.loc /\ e.page = x.page
      BY <1>5, <3>2 DEF ViewRecords, DocKept, ZoomKept
    <3> HIDE DEF e
    <3>4. PagesCount(e) = PagesCount(x) /\ ActivePages(e) = ActivePages(x) /\ Open(e)
      BY <3>3, <1>6 DEF PagesCount, ActivePages, DocKept, Open
    <3>5. Loose(e)
      BY <3>3, <3>4, <1>6 DEF Loose, PagesExist, DocKept
    <3>6. Paged(e) /\ e.top \in Int
      BY <3>2, <3>3 DEF Paged, ViewRecords
    <3> QED
      BY <3>1, <3>3, <3>4, <3>5, <3>6
  <2>2. CASE x.mode # "page"
    <3>1. y = x
      BY <2>2
    <3> HIDE DEF y
    <3> QED
      BY <3>1, <2>2, <1>5, <1>6 DEF Paged, DocKept, ZoomKept, ViewRecords
  <2> QED
    BY <2>1, <2>2
<1> HIDE DEF y
<1>8. /\ Loose(z) /\ Paged(z) /\ Within(z) /\ DocKept(y, z) /\ ZoomKept(y, z)
  BY <1>7, Scrolled
<1> HIDE DEF z
<1>9. Open(z)
  BY <1>7, <1>8 DEF Open, DocKept
<1>10. /\ Loose(u) /\ Paged(u) /\ DocKept(z, u) /\ ZoomKept(z, u) /\ SpotKept(z, u)
       /\ u.shown = z.shown
  BY <1>8, <1>9, Updated
<1> HIDE DEF u
<1>11. DocKept(x, u) /\ ZoomKept(x, u)
  BY <1>7, <1>8, <1>10 DEF DocKept, ZoomKept
<1>12. MaxTop(u) = MaxTop(z) /\ Open(u)
  BY <1>9, <1>10, SameLayout DEF DocKept, ZoomKept, Open
<1>13. AtRest(u)
  BY <1>8, <1>9, <1>10, <1>12 DEF AtRest, Within, SpotKept
<1>14. Belongs(u)
  BY <1>6, <1>11, SameZoom
<1> QED
  BY <1>1, <1>5, <1>6, <1>11, <1>12, <1>13, <1>14 DEF DocKept, ZoomKept

\* What an installation restores.
LEMMA PlaceRestored ==
    ASSUME NEW w, AtRest(w), Open(w), w.scale = 0, w.installing, Belongs(w),
           NEW v \in Values, NEW n \in 1 .. PagesCount(w)
    PROVE  LET u == Restore(w, n, v)
           IN  /\ AtRest(u) /\ DocKept(w, u) /\ u.value = v /\ u.zoom = w.zoom /\ u.cur = n
               /\ InView(u) /\ Located(u) /\ Belongs(u) /\ Open(u) /\ PagesCount(u) = PagesCount(w)
<1> DEFINE x == SetScale(w, v)
           u == SetCurrentPageNumber(x, n)
<1>1. Restore(w, n, v) = u
  BY DEF Restore, With
<1>2. x = SetScaleUpdatePages(w, v) /\ v.scale # 0 /\ v # Empty
  BY ScaleSet, ValuesExist, ViewingAssumption
<1>3. /\ AtRest(x) /\ DocKept(w, x) /\ x.value = v /\ x.zoom = w.zoom /\ Exact(x)
  BY <1>2, ScaleUpdated
<1> HIDE DEF x
<1>4. PagesCount(x) = PagesCount(w) /\ Open(x) /\ Located(x) /\ Belongs(x) /\ n \in Int
  <2>1. PagesCount(x) = PagesCount(w) /\ Open(x) /\ Belongs(x)
    BY <1>3 DEF DocKept, PagesCount, Open, Belongs
  <2>2. PagesCount(w) \in Nat
    BY Counts DEF AtRest, Loose
  <2> QED
    BY <2>1, <2>2, <1>3 DEF Located
<1>5. /\ AtRest(u) /\ DocKept(x, u) /\ ZoomKept(x, u) /\ u.cur = n /\ InView(u) /\ Located(u)
  BY <1>2, <1>3, <1>4, NumberSet
<1> HIDE DEF u
<1>6. Belongs(u) /\ Open(u) /\ PagesCount(u) = PagesCount(w)
  BY <1>4, <1>5, SameZoom
<1> QED
  BY <1>1, <1>3, <1>5, <1>6 DEF DocKept, ZoomKept

LEMMA TakenOver ==
    ASSUME NEW w, AtRest(w), Open(w), InView(w), Located(w), Belongs(w), w.value = w.zoom,
           w.doc # 0
    PROVE  LET u == TakeOver(w, w.doc, w.cur)
           IN  /\ Good(u) /\ Open(u) /\ u.doc = w.doc /\ u.cur = w.cur /\ u.value = w.value
<1> DEFINE d == w.doc
           n == w.cur
           x == [[[w EXCEPT !.page = n] EXCEPT !.active = d] EXCEPT !.installing = FALSE]
           y == UpdatePageControls(x)
           u == UpdateZoomControl(y)
<1>1. TakeOver(w, w.doc, w.cur) = u
  BY DEF TakeOver, With
<1>2. w \in ViewRecords /\ Loose(w) /\ d \in Known \ {0} /\ n \in Nat /\ n \in 1 .. PagesCount(w)
      /\ PagesCount(w) = Docs[d] /\ d = w.doc /\ n = w.cur
  BY DEF AtRest, Loose, ViewRecords, PagesExist
<1> HIDE DEF d, n
<1>3. /\ x \in ViewRecords
      /\ x.page = n /\ x.active = d /\ ~x.installing
      /\ x.doc = w.doc /\ x.pages = w.pages /\ x.mode = w.mode /\ SpotKept(w, x)
      /\ x.scale = w.scale /\ x.cur = w.cur /\ x.loc = w.loc /\ x.shown = w.shown
      /\ x.value = w.value /\ x.zoom = w.zoom
  BY <1>2 DEF ViewRecords, PlaceKept, DocKept, SpotKept
<1> HIDE DEF x
<1>4. /\ y \in ViewRecords
      /\ DocKept(x, y) /\ ZoomKept(x, y) /\ SpotKept(x, y)
      /\ y.cur = x.cur /\ y.loc = x.loc /\ y.shown = x.shown /\ y.page = x.page
      /\ y.shows.page = x.page /\ y.shows.pages = ActivePages(x)
  BY <1>3, PageControls
<1> HIDE DEF y
<1>5. /\ u \in ViewRecords /\ ButZoom(y, u)
      /\ u.zoom = y.zoom /\ u.shows.zoom = MatchingZoom(u, y.zoom)
  BY <1>4, ZoomControl
<1> HIDE DEF u
<1>6. /\ u.doc = d /\ u.pages = w.pages /\ u.mode = w.mode /\ SpotKept(w, u)
      /\ u.scale = w.scale /\ u.cur = n /\ u.loc = w.loc /\ u.shown = w.shown
      /\ u.value = w.value /\ u.zoom = w.zoom /\ u.page = n /\ u.active = d /\ ~u.installing
      /\ u.shows.page = n /\ u.shows.pages = ActivePages(x)
  BY <1>2, <1>3, <1>4, <1>5 DEF ButZoom, PlaceKept, DocKept, ZoomKept, SpotKept
<1>7. ActivePages(x) = Docs[d] /\ ActivePages(u) = Docs[d] /\ Open(u)
      /\ PagesCount(u) = PagesCount(w)
  BY <1>2, <1>3, <1>6 DEF ActivePages, Open, PagesCount
<1>8. Visible(u) = Visible(w) /\ MaxTop(u) = MaxTop(w) /\ Scale(u) = Scale(w)
      /\ \A p : Top(u, p) = Top(w, p)
  BY <1>6, SameLayout DEF SpotKept
<1>9. Loose(u)
  BY <1>2, <1>5, <1>6, <1>7 DEF Loose, PagesExist
<1>10. Paged(u) /\ Within(u)
  BY <1>2, <1>6, <1>7, <1>8 DEF AtRest, Paged, Within, SpotKept
<1>11. PageInStep(u) /\ Belongs(u)
  BY <1>2, <1>6, <1>7 DEF PageInStep, Belongs
<1>12. ZoomInStep(u)
  BY <1>4, <1>5, <1>6 DEF ZoomInStep, ButZoom, ZoomKept
<1>13. Still(u) /\ Located(u)
  BY <1>2, <1>6, <1>7, <1>8 DEF Still, NearView, Located, InView, Exact, PagePoint, SpotKept
<1>14. Good(u)
  BY <1>6, <1>9, <1>10, <1>11, <1>12, <1>13 DEF Good, AtRest
<1> QED
  BY <1>1, <1>2, <1>6, <1>7, <1>14

\* An installation, from whatever the viewer shows.
LEMMA GoodInstallation ==
    ASSUME NEW w, w \in ViewRecords, w.page \in 1 .. ActivePages(w), w.installing,
           NEW d \in Known \ {0}, NEW n \in 1 .. Docs[d]
    PROVE  LET u == TakeOver(Restore(Install(w, d), n, w.zoom), d, n)
           IN  Good(u) /\ Open(u) /\ u.doc = d /\ u.cur = n /\ u.value = w.zoom
<1> DEFINE x == SetDocument(w, d)
           i == FirstPage(x)
           r == Restore(i, n, w.zoom)
<1>1. /\ Blank(x) /\ x.doc = d /\ x.zoom = w.zoom /\ x.installing
  BY DocumentSet
<1>2. Install(w, d) = i
  BY DEF Install
<1> HIDE DEF x
<1>3. /\ AtRest(i) /\ Open(i) /\ Belongs(i) /\ i.scale = 0
      /\ i.doc = d /\ i.zoom = w.zoom /\ i.installing
  BY <1>1, FirstPaged
<1> HIDE DEF i
<1>4. PagesCount(i) = Docs[d] /\ w.zoom \in Values
  BY <1>3 DEF AtRest, Loose, ViewRecords
<1>5. /\ AtRest(r) /\ DocKept(i, r) /\ r.value = w.zoom /\ r.zoom = i.zoom /\ r.cur = n
      /\ InView(r) /\ Located(r) /\ Belongs(r) /\ Open(r)
  BY <1>3, <1>4, PlaceRestored
<1> HIDE DEF r
<1>6. r.doc = d /\ r.value = r.zoom
  BY <1>3, <1>5 DEF DocKept
<1>7. /\ Good(TakeOver(r, d, n)) /\ Open(TakeOver(r, d, n)) /\ TakeOver(r, d, n).doc = d
      /\ TakeOver(r, d, n).cur = n /\ TakeOver(r, d, n).value = w.zoom
  BY <1>5, <1>6, TakenOver
<1> QED
  BY <1>2, <1>7 DEF r

-----------------------------------------------------------------------------
(***************************************************************************)
(* The invariant of the steps.                                             *)
(***************************************************************************)
EagerRecords == [doc : Known \ {0}, next : Nat, asked : SUBSET Nat]
LinkRecords ==
    [doc : Known, stage : {"destination", "page"}, page : Nat, value : Values \cup {Empty},
     place : 0 .. Points]
CopyRecords ==
    [began : Known \ {0}, count : Nat, page : Nat \ {0}, doc : Known, read : SUBSET Known,
     interrupted : BOOLEAN]

\* Pages are asked for in an installation that has begun to.
Asking ==
    /\ eager \in Seq(EagerRecords)
    /\ \A k \in 1 .. Len(eager) :
        0 \notin eager[k].asked /\ (eager[k].asked # {} => eager[k].next # 0)

\* A copy asks one document after the other, never one before those it has
\* read from, and no later one than that which is shown.
Copying ==
    copy # Empty =>
        /\ copy \in CopyRecords
        /\ copy.began <= copy.doc /\ copy.doc <= s.doc
        /\ \A d \in copy.read : copy.began <= d /\ d <= copy.doc
        /\ copy.page > 1 => Docs[Max(copy.read)] >= copy.page - 1

Loads == loaded \in Known /\ s.doc <= loaded

ViewIInv == Good(s) /\ Asking /\ links \subseteq LinkRecords /\ Copying /\ Loads

LEMMA ViewInitIInv ==
    ViewInit => ViewIInv
<1> SUFFICES ASSUME ViewInit
             PROVE  ViewIInv
  OBVIOUS
<1> DEFINE z == [option |-> Initial.name, scale |-> 0]
           c == [page |-> 1, pages |-> 1, zoom |-> z]
           E == Empty
<1>1. Initial \in Options /\ Initial \in Values /\ Len(Docs) \in Nat
  BY ViewingAssumption
<1>2. z \in Marks
  BY <1>1 DEF Marks
<1> HIDE DEF z
<1>3. c \in Controls
  BY <1>2 DEF Controls
<1>4. s = [doc |-> 0, pages |-> E, cur |-> 1, scale |-> 0, value |-> E, loc |-> E,
           mode |-> "vertical", shown |-> {}, top |-> 0, moved |-> FALSE,
           active |-> 0, page |-> 1, zoom |-> Initial, installing |-> FALSE, shows |-> c]
  BY DEF ViewInit, z, Empty
<1> HIDE DEF c
<1>5. E \in Seq(Known) /\ E = Empty /\ DOMAIN E = {}
  BY DEF Empty
<1> HIDE DEF E
<1>6. 0 \in Known
  BY <1>1 DEF Known
<1>7. s \in ViewRecords /\ s.pages = E /\ s.loc = E /\ s.cur = 1 /\ s.shown = {} /\ s.doc = 0
      /\ s.active = 0 /\ s.page = 1 /\ ~s.installing
  BY <1>1, <1>3, <1>4, <1>5, <1>6 DEF ViewRecords
<1>8. ~Open(s) /\ ActivePages(s) = 1
  BY <1>5, <1>7 DEF Open, ActivePages
<1>9. Loose(s)
  BY <1>5, <1>7, <1>8 DEF Loose
<1>10. Good(s)
  BY <1>5, <1>7, <1>8, <1>9
     DEF Good, AtRest, Paged, Within, PageInStep, ZoomInStep, Still, Located, Belongs
<1>11. Asking
  BY DEF ViewInit, Asking
<1>12. Copying /\ Loads /\ links \subseteq LinkRecords
  BY <1>6, <1>7 DEF ViewInit, Copying, Loads
<1> QED
  BY <1>10, <1>11, <1>12 DEF ViewIInv

\* The invariant says what the properties say.
LEMMA ViewIInvImplies ==
    ASSUME ViewIInv
    PROVE  ViewTypeOK /\ ControlsTrue /\ PagesBelong
<1>1. /\ Loose(s) /\ Paged(s) /\ Within(s) /\ s \in ViewRecords /\ ~s.installing
      /\ s.doc = s.active
      /\ PageInStep(s) /\ ZoomInStep(s) /\ Still(s) /\ Belongs(s)
  BY DEF ViewIInv, Good, AtRest, Loose
<1>2. PagesCount(s) \in Nat /\ (Open(s) <=> s.pages # Empty)
  BY <1>1, Counts DEF Open
<1>3. ViewTypeOK
  <2>1. {s.doc, s.active} \subseteq 0 .. Len(Docs) /\ s.zoom \in Values
        /\ s.value \in Values \cup {Empty} /\ s.top \in Nat
    BY <1>1 DEF ViewRecords, Known
  <2>2. s.cur \in 1 .. Max({1, PagesCount(s)})
    <3> DEFINE c == PagesCount(s)
    <3>1. Max({1, c}) = IF 1 >= c THEN 1 ELSE c
      BY <1>2, MaxOfTwo
    <3>2. s.cur = 1 \/ s.cur \in 1 .. c
      BY <1>1 DEF Loose, PagesExist
    <3> HIDE DEF c
    <3> QED
      BY <3>1, <3>2, <1>2 DEF c
  <2>3. s.loc # Empty => s.loc.page \in 1 .. PagesCount(s)
    BY <1>1 DEF Loose, PagesExist
  <2>4. s.mode = "page" /\ s.pages # Empty => s.shown = {s.cur}
    BY <1>1, <1>2 DEF Paged
  <2>5. s.top \in 0 .. MaxTop(s) \/ s.pages = Empty
    <3> SUFFICES ASSUME Open(s)
                 PROVE  s.top \in 0 .. MaxTop(s)
      BY <1>2
    <3>1. MaxTop(s) \in Nat
      BY <1>1, Extent
    <3> QED
      BY <3>1, <2>1, <1>1 DEF Within
  <2> QED
    BY <2>1, <2>2, <2>3, <2>4, <2>5, <1>1 DEF ViewTypeOK, Loose
<1>4. InStep
  <2> SUFFICES ASSUME Open(s)
               PROVE  /\ s.active = s.doc /\ s.page = s.cur /\ s.zoom = s.value
                      /\ s.shows = [page |-> s.cur, pages |-> Docs[s.doc],
                                    zoom |-> MatchingZoom(s, s.value)]
    BY <1>2 DEF InStep
  <2>1. /\ s.active = s.doc /\ s.page = s.cur /\ s.zoom = s.value
        /\ s.shows.page = s.cur /\ s.shows.pages = Docs[s.doc]
        /\ s.shows.zoom = MatchingZoom(s, s.value)
    BY <1>1 DEF PageInStep, ZoomInStep
  <2>2. s.shows \in Controls
    BY <1>1 DEF ViewRecords
  <2> DEFINE z == MatchingZoom(s, s.value)
  <2> HIDE DEF z
  <2>3. s.shows = [page |-> s.shows.page, pages |-> s.shows.pages, zoom |-> s.shows.zoom]
    BY <2>2 DEF Controls
  <2> QED
    BY <2>1, <2>3
<1>5. PageInView
  BY <1>1, <1>2 DEF PageInView, Still, NearView, InView
<1>6. PagesBelong
  <2>1. \A p \in DOMAIN s.pages : s.pages[p] \in {0, s.doc}
    BY <1>1 DEF Belongs
  <2>2. ASSUME copy # Empty
        PROVE  /\ \A d \in copy.read : d >= copy.began
               /\ copy.page > 1 => Docs[Max(copy.read)] >= copy.page - 1
               /\ s.doc = copy.began => copy.read \subseteq {s.doc}
    <3>1. /\ copy \in CopyRecords
          /\ copy.began <= copy.doc /\ copy.doc <= s.doc
          /\ \A d \in copy.read : copy.began <= d /\ d <= copy.doc
          /\ copy.page > 1 => Docs[Max(copy.read)] >= copy.page - 1
      BY <2>2 DEF ViewIInv, Copying
    <3>2. copy.began \in Int /\ copy.doc \in Int /\ copy.read \subseteq Int /\ s.doc \in Int
      BY <3>1, <1>1, ViewingAssumption DEF CopyRecords, Known, ViewRecords
    <3>3. \A d \in copy.read : d >= copy.began /\ d <= s.doc
      BY <3>1, <3>2
    <3> QED
      BY <3>1, <3>2, <3>3
  <2> QED
    BY <2>1, <2>2 DEF PagesBelong
<1> QED
  BY <1>3, <1>4, <1>5, <1>6 DEF ControlsTrue

\* One step of KeepsPlace.
PlaceStep ==
    /\ s'.pages # Empty /\ Len(eager') > Len(eager) =>
          s'.cur = ClampPage(s.page, Docs[s'.doc]) /\ s'.value = s.zoom
    /\ s.pages # Empty /\ ~s.moved /\ s'.scale # s.scale /\ s'.doc = s.doc /\ links' = links
       /\ Len(eager') = Len(eager) /\ loaded' = loaded
       /\ HalfAPoint(s, Least(Visible(s))) =>
          Least(Visible(s)) \in Visible(s')

\* Where only the record of the viewer changes.
LEMMA Undisturbed ==
    ASSUME ViewIInv, Good(s'), s'.doc = s.doc, eager' = eager, links' = links, copy' = copy,
           loaded' = loaded
    PROVE  ViewIInv'
<1>1. Asking' /\ (links \subseteq LinkRecords)'
  BY DEF ViewIInv, Asking
<1>2. Copying' /\ Loads'
  BY DEF ViewIInv, Copying, Loads
<1> QED
  BY <1>1, <1>2 DEF ViewIInv

LEMMA NoZoom ==
    ASSUME ViewIInv, Len(eager') = Len(eager), s'.scale = s.scale
    PROVE  PlaceStep
<1>1. Len(eager) \in Nat
  BY DEF ViewIInv, Asking
<1> QED
  BY <1>1 DEF PlaceStep

LEMMA ShowPageStep ==
    ASSUME ViewIInv, NEW n \in {s.page - 1, s.page + 1, Docs[1]}, ShowPage(n)
    PROVE  ViewIInv' /\ PlaceStep
<1> DEFINE p == ClampPage(n, Docs[s.active])
           x == [s EXCEPT !.page = p]
           y == SetCurrentPageNumber(x, p)
           u == UpdatePageControls(y)
<1>1. /\ Good(s) /\ s \in ViewRecords /\ AtRest(s) /\ Loose(s)
  BY DEF ViewIInv, Good, AtRest, Loose
<1>2. s.active \in Known \ {0} /\ s.doc = s.active /\ Docs[s.active] \in Nat \ {0}
  BY <1>1, Counts DEF ShowPage, ViewRecords, Good
<1>3. n \in Int
  <2>1. 1 \in 1 .. Len(Docs) /\ Docs \in Seq(Nat \ {0})
    BY <1>2, ViewingAssumption DEF Known
  <2>2. Docs[1] \in Int /\ s.page \in Int
    BY <2>1, <1>1 DEF ViewRecords
  <2> QED
    BY <2>2
<1>4. p \in 1 .. Docs[s.active]
  BY <1>2, <1>3, Clamps
<1>5. s' = u /\ eager' = eager /\ links' = links /\ copy' = copy /\ loaded' = loaded
  BY DEF ShowPage
<1> HIDE DEF p
<1>6. p \in Nat /\ p \in Int /\ ActivePages(s) = Docs[s.active]
  BY <1>2, <1>4 DEF ActivePages
<1>7. /\ x \in ViewRecords /\ x.page = p /\ PlaceKept(s, x) /\ ZoomKept(s, x)
      /\ DocKept(s, x) /\ SpotKept(s, x)
  BY <1>1, <1>6 DEF ViewRecords, PlaceKept, DocKept, SpotKept, ZoomKept
<1> HIDE DEF x
<1>8. PagesCount(x) = PagesCount(s) /\ ActivePages(x) = ActivePages(s) /\ (Open(x) <=> Open(s))
  BY <1>7 DEF DocKept, PagesCount, ActivePages, Open
<1>9. Loose(x)
  BY <1>1, <1>4, <1>6, <1>7, <1>8 DEF Loose, PagesExist, DocKept, PlaceKept
<1>10. AtRest(x) /\ Located(x) /\ ZoomInStep(x) /\ Belongs(x) /\ Still(x)
  <2>1. AtRest(x) /\ Located(x)
    BY <1>1, <1>7, <1>9, SamePlace DEF AtRest, Good
  <2>2. ZoomInStep(x) /\ Belongs(x)
    BY <1>1, <1>7, SameZoom DEF Good
  <2>3. Still(x)
    BY <1>1, <1>7, <1>8, SamePlace DEF Still, SpotKept, Good
  <2> QED
    BY <2>1, <2>2, <2>3
<1>11. /\ AtRest(y) /\ DocKept(x, y) /\ ZoomKept(x, y)
       /\ p \notin 1 .. PagesCount(x) => y = x
       /\ p \in 1 .. PagesCount(x) => y.cur = p /\ InView(y)
       /\ x.value # Empty /\ Located(x) => Located(y)
       /\ p \in 1 .. PagesCount(x) /\ ~x.installing /\ x.active = x.doc /\ x.page = p
            => y.page = p
  BY <1>6, <1>10, NumberSet
<1>12. y \in ViewRecords
  BY <1>11 DEF AtRest, Loose
<1> HIDE DEF y
<1>13. /\ u \in ViewRecords
       /\ DocKept(y, u) /\ ZoomKept(y, u) /\ SpotKept(y, u)
       /\ u.cur = y.cur /\ u.loc = y.loc /\ u.shown = y.shown /\ u.page = y.page
       /\ u.shows.page = y.page /\ u.shows.pages = ActivePages(y)
  BY <1>12, PageControls
<1> HIDE DEF u
<1>14. DocKept(s, u) /\ ZoomKept(s, u)
  BY <1>7, <1>11, <1>13 DEF DocKept, ZoomKept
<1>15. PlaceKept(y, u)
  BY <1>13 DEF PlaceKept, ZoomKept
<1>16. /\ PagesCount(u) = PagesCount(y) /\ ActivePages(u) = ActivePages(y)
       /\ (Open(u) <=> Open(s)) /\ (Open(u) <=> Open(y)) /\ ActivePages(y) = Docs[s.active]
  BY <1>6, <1>13, <1>14 DEF DocKept, PagesCount, ActivePages, Open
<1>17. Loose(u)
  <2>1. Loose(y)
    BY <1>11 DEF AtRest
  <2> QED
    BY <2>1, <1>13, <1>16 DEF Loose, PagesExist, DocKept
<1>18. AtRest(u) /\ ZoomInStep(u) /\ Belongs(u)
  <2>1. AtRest(u)
    BY <1>11, <1>15, <1>17, SamePlace DEF AtRest
  <2>2. ZoomInStep(u) /\ Belongs(u)
    BY <1>1, <1>14, SameZoom DEF Good
  <2> QED
    BY <2>1, <2>2
<1>19. PageInStep(u) /\ Still(u) /\ Located(u)
  <2>1. CASE ~Open(s)
    BY <2>1, <1>16 DEF PageInStep, Still, Located
  <2>2. CASE Open(s)
    <3>1. PagesCount(x) = Docs[s.active] /\ x.value # Empty /\ ~x.installing /\ x.active = x.doc
      <4>1. s.value # Empty
        BY <2>2, <1>1, Valued
      <4>2. PagesCount(s) = Docs[s.active]
        BY <2>2, <1>1, <1>2 DEF Loose
      <4> QED
        BY <4>1, <4>2, <1>1, <1>7, <1>8 DEF Good, DocKept, ZoomKept
    <3>2. y.cur = p /\ y.page = p /\ InView(y) /\ Located(y)
      BY <3>1, <1>4, <1>7, <1>10, <1>11
    <3>3. PageInStep(u)
      BY <3>2, <1>2, <1>13, <1>14, <1>16 DEF PageInStep, DocKept
    <3>4. InView(u) /\ Located(u)
      BY <3>2, <1>15, SamePlace
    <3> QED
      BY <3>3, <3>4 DEF Still, NearView
  <2> QED
    BY <2>1, <2>2
<1>20. Good(u)
  BY <1>1, <1>14, <1>18, <1>19 DEF Good, DocKept
<1> QED
  BY <1>5, <1>14, <1>20, Undisturbed, NoZoom DEF DocKept, ZoomKept

LEMMA SetZoomStep ==
    ASSUME ViewIInv, NEW v \in Values, SetZoom(v)
    PROVE  ViewIInv' /\ PlaceStep
<1> DEFINE y == [s EXCEPT !.zoom = v]
           x == SetScale(y, v)
           u == UpdateZoomControl(x)
<1>1. s' = u /\ eager' = eager /\ links' = links /\ copy' = copy /\ loaded' = loaded
  BY DEF SetZoom
<1>0. Good(s)
  BY DEF ViewIInv
<1>2. /\ Good(u) /\ DocKept(s, u) /\ u.scale = x.scale
      /\ Open(s) /\ ~s.moved /\ x.scale # s.scale /\ HalfAPoint(s, Least(Visible(s)))
           => Least(Visible(s)) \in Visible(u)
  <2>1. y = [s EXCEPT !.zoom = v]
    OBVIOUS
  <2> HIDE DEF y
  <2> QED
    BY <2>1, <1>0, GoodZoom
<1> HIDE DEF x, u
<1>3. ViewIInv'
  BY <1>1, <1>2, Undisturbed DEF DocKept
<1>4. Len(eager) \in Nat
  BY DEF ViewIInv, Asking
<1>5. PlaceStep
  BY <1>1, <1>2, <1>4 DEF PlaceStep, Open
<1> QED
  BY <1>3, <1>5

LEMMA ScrollStep ==
    ASSUME ViewIInv, NEW y \in 0 .. MaxTop(s), Scroll(y)
    PROVE  ViewIInv' /\ PlaceStep
<1> DEFINE u == [[s EXCEPT !.top = y] EXCEPT !.moved = TRUE]
<1>1. s' = u /\ eager' = eager /\ links' = links /\ copy' = copy /\ loaded' = loaded
  BY DEF Scroll
<1>2. Good(s) /\ Loose(s) /\ s \in ViewRecords /\ y \in Nat
  BY DEF ViewIInv, Good, AtRest, Loose
<1>3. /\ u \in ViewRecords /\ DocKept(s, u) /\ ZoomKept(s, u) /\ u.top = y /\ u.moved
      /\ u.cur = s.cur /\ u.loc = s.loc /\ u.shown = s.shown /\ u.page = s.page
      /\ u.shows = s.shows
  BY <1>2 DEF ViewRecords, DocKept, ZoomKept
<1> HIDE DEF u
<1>4. /\ PagesCount(u) = PagesCount(s) /\ ActivePages(u) = ActivePages(s)
      /\ (Open(u) <=> Open(s)) /\ MaxTop(u) = MaxTop(s)
  BY <1>3, SameLayout DEF DocKept, ZoomKept, PagesCount, ActivePages, Open
<1>5. Loose(u)
  BY <1>2, <1>3, <1>4 DEF Loose, PagesExist, DocKept
<1>6. Paged(u)
  BY <1>2, <1>3, <1>4 DEF Good, AtRest, Paged, DocKept
<1>7. Within(u)
  <2> SUFFICES ASSUME Open(u)
               PROVE  u.top <= MaxTop(u)
    BY DEF Within
  <2>1. MaxTop(u) \in Nat
    BY <1>5, <1>6, Extent
  <2> QED
    BY <2>1, <1>3, <1>4
<1>8. PageInStep(u) /\ ZoomInStep(u) /\ Belongs(u) /\ Still(u) /\ Located(u)
  <2>1. ZoomInStep(u) /\ Belongs(u)
    BY <1>2, <1>3, SameZoom DEF Good
  <2> QED
    BY <2>1, <1>2, <1>3, <1>4 DEF Good, PageInStep, Still, Located, DocKept
<1>9. Good(u)
  BY <1>2, <1>3, <1>5, <1>6, <1>7, <1>8 DEF Good, AtRest, DocKept
<1> QED
  BY <1>1, <1>3, <1>9, Undisturbed, NoZoom DEF DocKept, ZoomKept

LEMMA FrameStep ==
    ASSUME ViewIInv, Frame
    PROVE  ViewIInv' /\ PlaceStep
<1> DEFINE x == [s EXCEPT !.moved = FALSE]
           u == Update(x)
<1>1. s' = u /\ eager' = eager /\ links' = links /\ copy' = copy /\ loaded' = loaded
  BY DEF Frame, counts
<1>2. Good(s) /\ Loose(s) /\ s \in ViewRecords
  BY DEF ViewIInv, Good, AtRest, Loose
<1>3. /\ x \in ViewRecords /\ DocKept(s, x) /\ ZoomKept(s, x) /\ x.top = s.top
      /\ x.cur = s.cur /\ x.loc = s.loc /\ x.shown = s.shown /\ x.page = s.page
      /\ x.shows = s.shows
  BY <1>2 DEF ViewRecords, DocKept, ZoomKept
<1> HIDE DEF x
<1>4. /\ PagesCount(x) = PagesCount(s) /\ ActivePages(x) = ActivePages(s)
      /\ (Open(x) <=> Open(s)) /\ MaxTop(x) = MaxTop(s)
  BY <1>3, SameLayout DEF DocKept, ZoomKept, PagesCount, ActivePages, Open
<1>5. Loose(x)
  BY <1>2, <1>3, <1>4 DEF Loose, PagesExist, DocKept
<1>6. AtRest(x)
  BY <1>2, <1>3, <1>4, <1>5 DEF Good, AtRest, Paged, Within, DocKept
<1>7. PageInStep(x) /\ ZoomInStep(x) /\ Belongs(x) /\ ~x.installing /\ x.doc = x.active
  <2>1. ZoomInStep(x) /\ Belongs(x)
    BY <1>2, <1>3, SameZoom DEF Good
  <2> QED
    BY <2>1, <1>2, <1>3, <1>4 DEF Good, PageInStep, DocKept
<1>8. Good(u) /\ DocKept(x, u) /\ ZoomKept(x, u)
  BY <1>6, <1>7, GoodUpdate
<1> HIDE DEF u
<1> QED
  BY <1>1, <1>3, <1>8, Undisturbed, NoZoom DEF DocKept, ZoomKept

LEMMA ScrollTimeoutStep ==
    ASSUME ViewIInv, ScrollTimeout
    PROVE  ViewIInv' /\ PlaceStep
<1> DEFINE u == Update(s)
<1>1. s' = u /\ eager' = eager /\ links' = links /\ copy' = copy /\ loaded' = loaded
  BY DEF ScrollTimeout, counts
<1>2. Good(u) /\ DocKept(s, u) /\ ZoomKept(s, u)
  BY GoodUpdate DEF ViewIInv, Good
<1> HIDE DEF u
<1> QED
  BY <1>1, <1>2, Undisturbed, NoZoom DEF DocKept, ZoomKept

LEMMA NamedActionStep ==
    ASSUME ViewIInv, NamedAction
    PROVE  ViewIInv' /\ PlaceStep
<1>1. eager' = eager /\ links' = links /\ copy' = copy /\ loaded' = loaded
  BY DEF NamedAction
<1>2. Good(s) /\ s \in ViewRecords
  BY DEF ViewIInv, Good, AtRest, Loose
<1>3. 1 \in Int /\ Docs[s.doc] \in Int
  BY <1>2, Counts DEF NamedAction, ViewRecords
<1>4. Good(s') /\ DocKept(s, s') /\ ZoomKept(s, s')
  BY <1>2, <1>3, GoodPages DEF NamedAction
<1> QED
  BY <1>1, <1>4, Undisturbed, NoZoom DEF DocKept, ZoomKept

-----------------------------------------------------------------------------
(***************************************************************************)
(* Installations: from loadVersion's commit and from its rollback.         *)
(***************************************************************************)

\* Where a document is put in another's place, or the same one again.
LEMMA Carried ==
    ASSUME ViewIInv, Good(s'), Asking', s.doc <= s'.doc, links' = links, copy' = copy,
           loaded' \in Known, s'.doc <= loaded'
    PROVE  ViewIInv'
<1>1. (links \subseteq LinkRecords)' /\ Loads'
  BY DEF ViewIInv, Loads
<1>2. Copying'
  <2> SUFFICES ASSUME copy # Empty
               PROVE  /\ copy \in CopyRecords
                      /\ copy.began <= copy.doc /\ copy.doc <= s'.doc
                      /\ \A d \in copy.read : copy.began <= d /\ d <= copy.doc
                      /\ copy.page > 1 => Docs[Max(copy.read)] >= copy.page - 1
    BY DEF Copying
  <2>1. /\ copy \in CopyRecords
        /\ copy.began <= copy.doc /\ copy.doc <= s.doc
        /\ \A d \in copy.read : copy.began <= d /\ d <= copy.doc
        /\ copy.page > 1 => Docs[Max(copy.read)] >= copy.page - 1
    BY DEF ViewIInv, Copying
  <2>2. s.doc \in Int /\ s'.doc \in Int /\ copy.doc \in Int
    BY <2>1 DEF ViewIInv, Good, AtRest, Loose, ViewRecords, CopyRecords, Known
  <2>3. copy.doc <= s'.doc
    BY <2>1, <2>2
  <2> QED
    BY <2>1, <2>3
<1> QED
  BY <1>1, <1>2 DEF ViewIInv

LEMMA AsksOn ==
    ASSUME ViewIInv, NEW d \in Known \ {0}, eager' = Asks(d)
    PROVE  Asking' /\ Len(eager') = Len(eager) + 1 /\ Len(eager) \in Nat
<1> DEFINE r == [doc |-> d, next |-> 0, asked |-> {}]
<1>1. r \in EagerRecords /\ r.asked = {}
  BY DEF EagerRecords
<1>2. eager' = Append(eager, r)
  BY DEF Asks
<1> HIDE DEF r
<1>3. eager \in Seq(EagerRecords)
  BY DEF ViewIInv, Asking
<1>4. /\ eager' \in Seq(EagerRecords) /\ Len(eager') = Len(eager) + 1 /\ Len(eager) \in Nat
      /\ \A k \in 1 .. Len(eager) : eager'[k] = eager[k]
      /\ eager'[Len(eager) + 1] = r
  BY <1>1, <1>2, <1>3
<1>5. ASSUME NEW k \in 1 .. Len(eager')
      PROVE  0 \notin eager'[k].asked /\ (eager'[k].asked # {} => eager'[k].next # 0)
  <2>1. CASE k \in 1 .. Len(eager)
    BY <2>1, <1>4 DEF ViewIInv, Asking
  <2>2. CASE k = Len(eager) + 1
    BY <2>2, <1>1, <1>4
  <2> QED
    BY <2>1, <2>2, <1>4
<1> QED
  BY <1>4, <1>5 DEF Asking

LEMMA NextLoad ==
    ASSUME ViewIInv, loaded < Len(Docs)
    PROVE  /\ loaded + 1 \in Known \ {0} /\ 0 \in Known
           /\ s.doc <= loaded + 1 /\ s.doc <= s.doc /\ 0 <= loaded + 1 /\ loaded # loaded + 1
           /\ s.page \in Int /\ s.doc \in Int /\ loaded + 1 \in Int
<1>1. s \in ViewRecords /\ loaded \in Known /\ s.doc <= loaded
  BY DEF ViewIInv, Good, AtRest, Loose, Loads
<1>2. Len(Docs) \in Nat
  BY <1>1, Counts
<1>3. loaded \in Nat /\ s.doc \in Nat /\ s.page \in Nat
  BY <1>1, <1>2 DEF Known, ViewRecords
<1> QED
  BY <1>1, <1>2, <1>3 DEF Known

LEMMA CommitStep ==
    ASSUME ViewIInv, Commit
    PROVE  ViewIInv' /\ PlaceStep
<1> DEFINE w == [s EXCEPT !.installing = TRUE]
           d == loaded + 1
           n == ClampPage(s.page, Docs[d])
           u == TakeOver(Restore(Install(w, d), n, s.zoom), d, n)
<1>1. s \in ViewRecords /\ s.page \in 1 .. ActivePages(s) /\ loaded \in Known /\ s.doc <= loaded
  BY DEF ViewIInv, Good, AtRest, Loose, Loads
<1>2. /\ s' = u /\ eager' = Asks(d) /\ links' = links /\ copy' = copy /\ loaded' = d
      /\ loaded < Len(Docs)
  BY DEF Commit
<1>3. d \in Known \ {0} /\ s.doc <= d /\ s.page \in Int /\ s.doc \in Int /\ d \in Int
      /\ d <= d
  BY <1>2, NextLoad
<1>4. /\ w \in ViewRecords /\ w.installing /\ w.zoom = s.zoom /\ w.page = s.page
      /\ w.active = s.active
  BY <1>1 DEF ViewRecords
<1> HIDE DEF w, d
<1>5. n \in 1 .. Docs[d]
  BY <1>1, <1>3, Counts, Clamps
<1> HIDE DEF n
<1>6. w.page \in 1 .. ActivePages(w)
  BY <1>1, <1>4 DEF ActivePages
<1>7. Good(u) /\ Open(u) /\ u.doc = d /\ u.cur = n /\ u.value = s.zoom
  BY <1>3, <1>4, <1>5, <1>6, GoodInstallation
<1> HIDE DEF u
<1>8. Asking' /\ Len(eager') = Len(eager) + 1 /\ Len(eager) \in Nat
  BY <1>2, <1>3, AsksOn
<1>9. ViewIInv'
  BY <1>2, <1>3, <1>7, <1>8, Carried
<1>10. PlaceStep
  <2>1. Len(eager') # Len(eager)
    BY <1>8
  <2> QED
    BY <2>1, <1>2, <1>7 DEF PlaceStep, n
<1> QED
  BY <1>9, <1>10

\* A document without pages.
LEMMA Bare ==
    ASSUME NEW w, Blank(w), ~w.installing, w.doc = w.active
    PROVE  Good(w)
<1>1. ~Open(w) /\ Loose(w) /\ w.pages = <<>>
  BY DEF Blank, Open, Empty
<1>2. AtRest(w)
  BY <1>1 DEF AtRest, Paged, Within
<1>3. DOMAIN w.pages = {}
  BY <1>1
<1> QED
  BY <1>1, <1>2, <1>3 DEF Good, PageInStep, ZoomInStep, Still, Located, Belongs

LEMMA RollbackStep ==
    ASSUME ViewIInv, Rollback
    PROVE  ViewIInv' /\ PlaceStep
<1> DEFINE w == [s EXCEPT !.installing = TRUE]
           begun == SetDocument(w, loaded + 1)
           n == ClampPage(s.page, ActivePages(s))
           u == TakeOver(Restore(Install(begun, s.active), n, s.zoom), s.active, n)
           z == SetDocument(begun, 0)
           b == [z EXCEPT !.installing = FALSE]
<1>1. /\ s \in ViewRecords /\ s.page \in 1 .. ActivePages(s) /\ loaded \in Known
      /\ s.doc <= loaded /\ s.doc = s.active
  BY DEF ViewIInv, Good, AtRest, Loose, Loads
<1>2. /\ links' = links /\ copy' = copy /\ loaded' = loaded + 1 /\ loaded < Len(Docs)
      /\ s.active = 0 => s' = b /\ eager' = eager
      /\ s.active # 0 => s' = u /\ eager' = Asks(s.active)
  BY DEF Rollback
<1>3. /\ loaded + 1 \in Known \ {0} /\ s.doc <= loaded + 1 /\ s.page \in Int /\ s.doc \in Int
      /\ loaded # loaded + 1 /\ 0 <= loaded + 1 /\ 0 \in Known /\ loaded + 1 \in Known
      /\ s.doc <= s.doc
  BY <1>2, NextLoad
<1>4. /\ w \in ViewRecords /\ w.installing /\ w.zoom = s.zoom /\ w.page = s.page
      /\ w.active = s.active
  BY <1>1 DEF ViewRecords
<1> HIDE DEF w
<1>5. w.page \in 1 .. ActivePages(w)
  BY <1>1, <1>4 DEF ActivePages
<1>6. /\ Blank(begun) /\ begun.active = s.active /\ begun.page = s.page /\ begun.zoom = s.zoom
      /\ begun.installing
  BY <1>3, <1>4, <1>5, DocumentSet
<1> HIDE DEF begun
<1>7. begun \in ViewRecords /\ begun.page \in 1 .. ActivePages(begun)
  BY <1>6 DEF Blank, Loose
<1>8. CASE s.active = 0
  <2>1. Blank(z) /\ z.doc = 0 /\ z.active = s.active
    BY <1>3, <1>6, <1>7, DocumentSet
  <2> HIDE DEF z
  <2>2. z \in ViewRecords
    BY <2>1 DEF Blank, Loose
  <2>3. /\ b \in ViewRecords /\ ~b.installing /\ b.doc = z.doc /\ b.active = z.active
        /\ b.pages = z.pages /\ b.cur = z.cur /\ b.loc = z.loc /\ b.shown = z.shown
        /\ b.scale = z.scale /\ b.value = z.value /\ b.page = z.page
    BY <2>2 DEF ViewRecords
  <2> HIDE DEF b
  <2>4. ActivePages(b) = ActivePages(z) /\ ~Open(b) /\ ~Open(z)
    BY <2>1, <2>3 DEF ActivePages, Open, Blank
  <2>5. Blank(b)
    BY <2>1, <2>3, <2>4 DEF Blank, Loose
  <2>6. Good(b) /\ b.doc = s.doc
    BY <2>1, <2>3, <2>5, <1>1, <1>8, Bare
  <2>7. Asking' /\ Len(eager') = Len(eager) /\ Len(eager) \in Nat
    BY <1>2, <1>8 DEF ViewIInv, Asking
  <2>8. s.doc <= s'.doc /\ s'.doc <= loaded' /\ loaded' \in Known
    BY <2>6, <1>2, <1>3, <1>8
  <2>9. ViewIInv'
    BY <2>6, <2>7, <2>8, <1>2, <1>8, Carried
  <2>10. PlaceStep
    BY <2>7, <1>2, <1>3 DEF PlaceStep
  <2> QED
    BY <2>9, <2>10
<1>9. CASE s.active # 0
  <2>1. s.active \in Known \ {0} /\ ActivePages(s) = Docs[s.active]
    BY <1>1, <1>9 DEF ViewRecords, ActivePages
  <2>2. n \in 1 .. Docs[s.active]
    BY <2>1, <1>1, <1>3, Counts, Clamps
  <2>3. n = ClampPage(s.page, Docs[s.active])
    BY <2>1
  <2> HIDE DEF n
  <2>4. Good(u) /\ Open(u) /\ u.doc = s.active /\ u.cur = n /\ u.value = s.zoom
    BY <2>1, <2>2, <1>6, <1>7, GoodInstallation
  <2> HIDE DEF u
  <2>5. Asking' /\ Len(eager') = Len(eager) + 1 /\ Len(eager) \in Nat
    BY <2>1, <1>2, <1>9, AsksOn
  <2>6. s.doc <= s'.doc /\ s'.doc <= loaded' /\ loaded' \in Known
    BY <2>4, <1>1, <1>2, <1>3, <1>9
  <2>7. ViewIInv'
    BY <2>4, <2>5, <2>6, <1>2, <1>9, Carried
  <2>8. PlaceStep
    <3>1. Len(eager') # Len(eager)
      BY <2>5
    <3> QED
      BY <3>1, <2>3, <2>4, <1>2, <1>9 DEF PlaceStep
  <2> QED
    BY <2>7, <2>8
<1> QED
  BY <1>8, <1>9

LEMMA RollbackFailsStep ==
    ASSUME ViewIInv, RollbackFails
    PROVE  ViewIInv' /\ PlaceStep
<1> DEFINE u == SetDocument(s, s.active)
<1>1. /\ s \in ViewRecords /\ s.page \in 1 .. ActivePages(s) /\ loaded \in Known
      /\ s.doc <= loaded /\ s.doc = s.active /\ ~s.installing /\ s.active \in Known
  BY DEF ViewIInv, Good, AtRest, Loose, Loads, ViewRecords
<1>2. /\ links' = links /\ copy' = copy /\ loaded' = loaded + 1 /\ loaded < Len(Docs)
      /\ s' = u /\ eager' = eager
  BY DEF RollbackFails
<1>3. /\ loaded + 1 \in Known /\ s.doc <= loaded + 1 /\ s.doc <= s.doc /\ loaded # loaded + 1
  BY <1>2, NextLoad
<1>4. Blank(u) /\ u.doc = s.active /\ u.active = s.active /\ ~u.installing
  BY <1>1, DocumentSet
<1> HIDE DEF u
<1>5. Good(u)
  BY <1>4, Bare
<1>6. Asking' /\ Len(eager') = Len(eager) /\ Len(eager) \in Nat
  BY <1>2 DEF ViewIInv, Asking
<1>7. ViewIInv'
  BY <1>1, <1>2, <1>3, <1>4, <1>5, <1>6, Carried
<1>8. PlaceStep
  BY <1>2, <1>3, <1>6 DEF PlaceStep
<1> QED
  BY <1>7, <1>8

-----------------------------------------------------------------------------
(***************************************************************************)
(* Links.                                                                  *)
(***************************************************************************)

\* Where the viewer and the requests for its pages stay as they are.
LEMMA Unseen ==
    ASSUME ViewIInv, s' = s, Asking', Len(eager') = Len(eager), loaded' = loaded,
           (links \subseteq LinkRecords)', Copying'
    PROVE  ViewIInv' /\ PlaceStep
<1>1. Good(s') /\ Loads'
  BY DEF ViewIInv, Loads
<1>2. ViewIInv'
  BY <1>1 DEF ViewIInv
<1> QED
  BY <1>2, NoZoom

LEMMA SameRequests ==
    ASSUME ViewIInv, eager' = eager
    PROVE  Asking' /\ Len(eager') = Len(eager)
  BY DEF ViewIInv, Asking

LEMMA SameCopy ==
    ASSUME ViewIInv, s'.doc = s.doc, copy' = copy
    PROVE  Copying'
  BY DEF ViewIInv, Copying

LEMMA FollowLinkStep ==
    ASSUME ViewIInv, NEW n \in 1 .. PagesCount(s), NEW v \in LinkValues \cup {Empty},
           NEW y \in 0 .. Points, FollowLink(n, v, y)
    PROVE  ViewIInv' /\ PlaceStep
<1> DEFINE r == [doc |-> s.doc, stage |-> "destination", page |-> n, value |-> v, place |-> y]
<1>1. s' = s /\ eager' = eager /\ copy' = copy /\ loaded' = loaded /\ links' = links \cup {r}
  BY DEF FollowLink
<1>2. s \in ViewRecords
  BY DEF ViewIInv, Good, AtRest, Loose
<1>3. n \in Nat /\ v \in Values \cup {Empty} /\ s.doc \in Known
  BY <1>2, Counts, ViewingAssumption DEF ViewRecords
<1>4. r \in LinkRecords
  BY <1>3 DEF LinkRecords
<1> HIDE DEF r
<1>5. (links \subseteq LinkRecords)'
  BY <1>1, <1>4 DEF ViewIInv
<1> QED
  BY <1>1, <1>5, SameRequests, SameCopy, Unseen

LEMMA DestinationKnownStep ==
    ASSUME ViewIInv, NEW l \in links, DestinationKnown(l)
    PROVE  ViewIInv' /\ PlaceStep
<1>1. s \in ViewRecords /\ l \in LinkRecords
  BY DEF ViewIInv, Good, AtRest, Loose
<1>2. PICK n \in IF l.doc = s.doc THEN {l.page} ELSE {0} \cup 1 .. PagesCount(s) :
            links' = (links \ {l}) \cup
                        IF n = 0 THEN {}
                        ELSE {[l EXCEPT !.doc = s.doc, !.stage = "page", !.page = n]}
  BY DEF DestinationKnown
<1> DEFINE r == [l EXCEPT !.doc = s.doc, !.stage = "page", !.page = n]
<1>3. n \in Nat
  <2>1. PagesCount(s) \in Nat /\ l.page \in Nat
    BY <1>1, Counts DEF LinkRecords
  <2> QED
    BY <2>1
<1>4. r \in LinkRecords
  BY <1>1, <1>3 DEF LinkRecords, ViewRecords
<1>5. links' \subseteq links \cup {r}
  BY <1>2
<1> HIDE DEF r
<1>6. (links \subseteq LinkRecords)'
  BY <1>4, <1>5 DEF ViewIInv
<1>7. s' = s /\ eager' = eager /\ copy' = copy /\ loaded' = loaded
  BY DEF DestinationKnown, counts
<1> QED
  BY <1>6, <1>7, SameRequests, SameCopy, Unseen

LEMMA GoToDestinationStep ==
    ASSUME ViewIInv, NEW l \in links, GoToDestination(l)
    PROVE  ViewIInv' /\ PlaceStep
<1> DEFINE u == ScrollPageIntoView(s, l.page, l.value, l.place)
<1>1. /\ s' = u /\ links' = links \ {l} /\ eager' = eager /\ copy' = copy /\ loaded' = loaded
  BY DEF GoToDestination, counts
<1>2. Good(s) /\ l \in LinkRecords /\ loaded \in Known /\ s.doc <= loaded
  BY DEF ViewIInv, Loads
<1>3. l.page \in Int /\ l.value \in Values \cup {Empty} /\ l.place \in 0 .. Points
  BY <1>2 DEF LinkRecords
<1>4. Good(u) /\ DocKept(s, u)
  BY <1>2, <1>3, GoodDestination
<1> HIDE DEF u
<1>5. Good(s') /\ s'.doc = s.doc
  BY <1>1, <1>4 DEF DocKept
<1>6. /\ Asking' /\ Len(eager') = Len(eager) /\ Copying' /\ Len(eager) \in Nat
      /\ (links \subseteq LinkRecords)' /\ Loads'
  BY <1>1, <1>5, SameRequests, SameCopy DEF ViewIInv, Asking, Loads
<1>7. ViewIInv'
  BY <1>5, <1>6 DEF ViewIInv
<1>8. links' # links
  BY <1>1
<1> QED
  BY <1>6, <1>7, <1>8 DEF PlaceStep

LEMMA LinkLostStep ==
    ASSUME ViewIInv, NEW l \in links, LinkLost(l)
    PROVE  ViewIInv' /\ PlaceStep
<1>1. /\ s' = s /\ links' = links \ {l} /\ eager' = eager /\ copy' = copy /\ loaded' = loaded
  BY DEF LinkLost, counts
<1>2. (links \subseteq LinkRecords)'
  BY <1>1 DEF ViewIInv
<1> QED
  BY <1>1, <1>2, SameRequests, SameCopy, Unseen

-----------------------------------------------------------------------------
(***************************************************************************)
(* The other pages of a document.                                          *)
(***************************************************************************)
LEMMA Replaced ==
    ASSUME NEW S, NEW f \in Seq(S), NEW k \in 1 .. Len(f), NEW r \in S, NEW g,
           g = [f EXCEPT ![k] = r]
    PROVE  /\ g \in Seq(S) /\ Len(g) = Len(f) /\ g[k] = r
           /\ \A j \in 1 .. Len(f) : j # k => g[j] = f[j]
<1>1. f \in [1 .. Len(f) -> S] /\ Len(f) \in Nat
  OBVIOUS
<1>2. g \in [1 .. Len(f) -> S]
  BY <1>1
<1>3. g \in Seq(S) /\ Len(g) = Len(f)
  BY <1>1, <1>2
<1> QED
  BY <1>1, <1>3

LEMMA AsksMore ==
    ASSUME ViewIInv, NEW k \in 1 .. Len(eager), NEW B \in SUBSET Nat, 0 \notin B,
           NEW m \in Nat, m # 0,
           eager' = [eager EXCEPT ![k].next = m, ![k].asked = B]
    PROVE  Asking' /\ Len(eager') = Len(eager)
<1>1. eager \in Seq(EagerRecords) /\ eager[k] \in EagerRecords
  BY DEF ViewIInv, Asking
<1> DEFINE r == [eager[k] EXCEPT !.next = m, !.asked = B]
<1>2. r \in EagerRecords /\ r.next = m /\ r.asked = B
  BY <1>1 DEF EagerRecords
<1>3. eager' = [eager EXCEPT ![k] = r]
  BY <1>1
<1> HIDE DEF r
<1>4. /\ eager' \in Seq(EagerRecords) /\ Len(eager') = Len(eager) /\ eager'[k] = r
      /\ \A j \in 1 .. Len(eager) : j # k => eager'[j] = eager[j]
  BY ONLY <1>1, <1>2, <1>3, k \in 1 .. Len(eager), Replaced
<1>5. ASSUME NEW j \in 1 .. Len(eager')
      PROVE  0 \notin eager'[j].asked /\ (eager'[j].asked # {} => eager'[j].next # 0)
  <2>1. CASE j = k
    BY <2>1, <1>2, <1>4
  <2>2. CASE j # k
    BY <2>2, <1>4 DEF ViewIInv, Asking
  <2> QED
    BY <2>1, <2>2
<1> QED
  BY <1>4, <1>5 DEF Asking

LEMMA Batches ==
    ASSUME NEW n \in Nat \ {0}, NEW c \in Nat
    PROVE  /\ Batch(n, c) \in SUBSET Nat /\ 0 \notin Batch(n, c)
           /\ Cardinality(Batch(n, c)) \in Nat
<1>1. Batch(n, c) \subseteq n .. c
  BY DEF Batch
<1>2. IsFiniteSet(n .. c)
  BY FS_Interval
<1>3. Cardinality(Batch(n, c)) \in Nat
  BY <1>1, <1>2, FS_Subset, FS_CardinalityType
<1> QED
  BY <1>1, <1>3

LEMMA BeginEagerStep ==
    ASSUME ViewIInv, NEW k \in DOMAIN eager, BeginEager(k)
    PROVE  ViewIInv' /\ PlaceStep
<1> DEFINE B == IF Docs[s.doc] <= LazyAbove THEN Batch(2, Docs[s.doc]) ELSE {}
           m == 2 + Cardinality(B)
<1>1. /\ s' = s /\ links' = links /\ copy' = copy /\ loaded' = loaded
      /\ eager' = [eager EXCEPT ![k].next = m, ![k].asked = B]
  BY DEF BeginEager, counts
<1>2. k \in 1 .. Len(eager) /\ s \in ViewRecords /\ s.doc \in Known \ {0}
  <2>1. k \in 1 .. Len(eager)
    BY DEF ViewIInv, Asking
  <2>2. s \in ViewRecords /\ (Open(s) => s.doc # 0) /\ Open(s)
    BY DEF ViewIInv, Good, AtRest, Loose, Open, BeginEager
  <2> QED
    BY <2>1, <2>2 DEF ViewRecords
<1>3. B \in SUBSET Nat /\ 0 \notin B /\ Cardinality(B) \in Nat
  <2>1. Docs[s.doc] \in Nat /\ 2 \in Nat \ {0}
    BY <1>2, Counts
  <2>2. Cardinality({}) = 0
    BY FS_EmptySet
  <2>3. CASE Docs[s.doc] <= LazyAbove
    BY <2>1, <2>3, Batches
  <2>4. CASE ~(Docs[s.doc] <= LazyAbove)
    BY <2>2, <2>4
  <2> QED
    BY <2>3, <2>4
<1> HIDE DEF B
<1>4. m \in Nat /\ m # 0
  BY <1>3
<1> HIDE DEF m
<1>5. Asking' /\ Len(eager') = Len(eager)
  BY <1>1, <1>2, <1>3, <1>4, AsksMore
<1>6. (links \subseteq LinkRecords)' /\ Copying'
  BY <1>1, SameCopy DEF ViewIInv
<1> QED
  BY <1>1, <1>5, <1>6, Unseen

\* A page is put into the views.
LEMMA PageAnswered ==
    ASSUME NEW w, Good(w), NEW p \in 1 .. PagesCount(w)
    PROVE  LET u == [w EXCEPT !.pages[p] = w.doc]
           IN  Good(u) /\ u.doc = w.doc /\ u.scale = w.scale
<1> DEFINE P == [w.pages EXCEPT ![p] = w.doc]
           u == [w EXCEPT !.pages = P]
<1>1. w \in ViewRecords /\ w.pages \in Seq(Known) /\ w.doc \in Known
  BY DEF Good, AtRest, Loose, ViewRecords
<1>2. [w EXCEPT !.pages[p] = w.doc] = u
  BY <1>1 DEF ViewRecords
<1>3. /\ P \in Seq(Known) /\ Len(P) = Len(w.pages)
      /\ \A q \in DOMAIN P : q \in DOMAIN w.pages /\ P[q] \in {w.pages[q], w.doc}
  BY <1>1 DEF PagesCount
<1> HIDE DEF P
<1>4. /\ u \in ViewRecords /\ u.pages = P /\ u.mode = w.mode /\ u.scale = w.scale
      /\ u.shown = w.shown /\ u.top = w.top /\ (u.moved <=> w.moved) /\ u.cur = w.cur
      /\ u.loc = w.loc /\ u.doc = w.doc /\ u.active = w.active /\ u.page = w.page
      /\ u.zoom = w.zoom /\ u.value = w.value /\ (u.installing <=> w.installing)
      /\ u.shows = w.shows
  BY <1>1, <1>3 DEF ViewRecords
<1> HIDE DEF u
<1>5. PagesCount(u) = PagesCount(w) /\ ActivePages(u) = ActivePages(w) /\ Open(u) /\ Open(w)
  BY <1>1, <1>3, <1>4, Counts DEF PagesCount, ActivePages
<1>6. Scale(u) = Scale(w) /\ Shown(u) = Shown(w)
  BY <1>4, <1>5 DEF Scale, Shown
<1>7. \A q : Top(u, q) = Top(w, q)
  BY <1>4, <1>6 DEF Top
<1>8. Visible(u) = Visible(w) /\ MaxTop(u) = MaxTop(w)
  BY <1>4, <1>6, <1>7 DEF Visible, MaxTop
<1>9. Loose(u) /\ Paged(u) /\ Within(u)
  BY <1>4, <1>5, <1>8 DEF Good, AtRest, Loose, Paged, Within, PagesExist
<1>10. Still(u) /\ Located(u)
  BY <1>4, <1>5, <1>6, <1>7, <1>8
     DEF Good, Still, NearView, EndsAbove, Located, InView, Exact, PagePoint
<1>11. Belongs(u)
  BY <1>3, <1>4 DEF Good, Belongs
<1>12. PageInStep(u)
  BY <1>4, <1>5 DEF Good, PageInStep
<1>13. ZoomInStep(u)
  BY <1>4, <1>5, <1>6 DEF Good, ZoomInStep, MatchingZoom
<1> QED
  BY <1>2, <1>4, <1>9, <1>10, <1>11, <1>12, <1>13 DEF Good, AtRest

LEMMA EagerAnswerStep ==
    ASSUME ViewIInv, NEW k \in DOMAIN eager, NEW p \in eager[k].asked, EagerAnswer(k, p)
    PROVE  ViewIInv' /\ PlaceStep
<1> DEFINE e == eager[k]
           count == Docs[e.doc]
           there == Alive(e.doc) /\ p <= PagesCount(s) /\ s.pages[p] = 0
           thrown == Alive(e.doc) /\ p > PagesCount(s)
           on == p % PauseEvery = 0 /\ ~thrown
           B == IF on THEN Batch(e.next, count) ELSE {}
           A == (e.asked \ {p}) \cup B
           m == e.next + Cardinality(B)
<1>1. k \in 1 .. Len(eager) /\ e \in EagerRecords /\ e.next # 0 /\ 0 \notin e.asked
      /\ eager \in Seq(EagerRecords)
  BY DEF ViewIInv, Asking
<1>2. /\ links' = links /\ copy' = copy /\ loaded' = loaded
      /\ s' = IF there THEN [s EXCEPT !.pages[p] = e.doc] ELSE s
  BY DEF EagerAnswer, counts
<1>3. eager' = [eager EXCEPT ![k].next = m, ![k].asked = A]
  <2>1. eager' = [eager EXCEPT ![k].asked = (@ \ {p}) \cup B, ![k].next = @ + Cardinality(B)]
    BY DEF EagerAnswer
  <2> HIDE DEF B
  <2>2. [eager EXCEPT ![k].asked = (@ \ {p}) \cup B, ![k].next = @ + Cardinality(B)]
          = [eager EXCEPT ![k] = [[eager[k] EXCEPT !.asked = A] EXCEPT !.next = m]]
    BY <1>1 DEF EagerRecords
  <2>3. [eager EXCEPT ![k].next = m, ![k].asked = A]
          = [eager EXCEPT ![k] = [[eager[k] EXCEPT !.asked = A] EXCEPT !.next = m]]
    BY <1>1 DEF EagerRecords
  <2> QED
    BY <2>1, <2>2, <2>3
<1>4. p \in Nat /\ p # 0 /\ e.asked \in SUBSET Nat /\ e.next \in Nat \ {0} /\ e.doc \in Known \ {0}
  BY <1>1 DEF EagerRecords
<1>5. s \in ViewRecords /\ Good(s)
  BY DEF ViewIInv, Good, AtRest, Loose
<1>6. B \in SUBSET Nat /\ 0 \notin B /\ Cardinality(B) \in Nat
  <2>1. count \in Nat
    BY <1>4, <1>5, Counts
  <2>2. Cardinality({}) = 0
    BY FS_EmptySet
  <2> HIDE DEF count, e, on
  <2>3. CASE on
    BY <2>1, <2>3, <1>4, Batches
  <2>4. CASE ~on
    BY <2>2, <2>4
  <2> QED
    BY <2>3, <2>4
<1> HIDE DEF B
<1>7. A \in SUBSET Nat /\ 0 \notin A /\ m \in Nat /\ m # 0
  <2> HIDE DEF e
  <2>1. A \in SUBSET Nat /\ 0 \notin A
    BY <1>1, <1>4, <1>6
  <2>2. m \in Nat /\ m # 0
    BY <1>4, <1>6
  <2> QED
    BY <2>1, <2>2
<1> HIDE DEF A, m
<1>8. Asking' /\ Len(eager') = Len(eager)
  BY <1>1, <1>3, <1>7, AsksMore
<1>9. Good(s') /\ s'.doc = s.doc /\ s'.scale = s.scale
  <2>1. CASE there
    <3>1. e.doc = s.doc
      BY <2>1, <1>5 DEF Alive, Good
    <3>2. p \in 1 .. PagesCount(s)
      BY <2>1, <1>4, <1>5, Counts
    <3>3. s' = [s EXCEPT !.pages[p] = s.doc]
      BY <2>1, <3>1, <1>2
    <3> QED
      BY <3>2, <3>3, <1>5, PageAnswered
  <2>2. CASE ~there
    BY <2>2, <1>2, <1>5
  <2> QED
    BY <2>1, <2>2
<1>10. (links \subseteq LinkRecords)' /\ Copying' /\ Loads'
  BY <1>2, <1>9, SameCopy DEF ViewIInv, Loads
<1>11. ViewIInv'
  BY <1>8, <1>9, <1>10 DEF ViewIInv
<1> QED
  BY <1>8, <1>9, <1>11, NoZoom

-----------------------------------------------------------------------------
(***************************************************************************)
(* Copies.                                                                 *)
(***************************************************************************)
LEMMA CopyAllStep ==
    ASSUME ViewIInv, CopyAll
    PROVE  ViewIInv' /\ PlaceStep
<1> DEFINE c == [began |-> s.doc, count |-> Docs[s.doc], page |-> 1, doc |-> s.doc,
                 read |-> {}, interrupted |-> FALSE]
<1>1. /\ s' = s /\ eager' = eager /\ links' = links /\ loaded' = loaded
      /\ copy' = IF copy # Empty THEN copy ELSE c
  BY DEF CopyAll
<1>2. s.doc \in Known \ {0} /\ s \in ViewRecords
  <2>1. s \in ViewRecords /\ (Open(s) => s.doc # 0) /\ Open(s)
    BY DEF ViewIInv, Good, AtRest, Loose, Open, CopyAll
  <2> QED
    BY <2>1 DEF ViewRecords
<1>3. Docs[s.doc] \in Nat /\ s.doc \in Int
  BY <1>2, Counts DEF Known
<1>4. c \in CopyRecords /\ c.began = s.doc /\ c.doc = s.doc /\ c.read = {} /\ c.page = 1
  BY <1>2, <1>3 DEF CopyRecords
<1> HIDE DEF c
<1>5. Copying'
  <2>1. CASE copy # Empty
    BY <2>1, <1>1, SameCopy
  <2>2. CASE copy = Empty
    <3>1. copy' = c
      BY <2>2, <1>1
    <3> QED
      BY <3>1, <1>1, <1>3, <1>4 DEF Copying
  <2> QED
    BY <2>1, <2>2
<1>6. (links \subseteq LinkRecords)'
  BY <1>1 DEF ViewIInv
<1> QED
  BY <1>1, <1>5, <1>6, SameRequests, Unseen

\* Where only a copy goes on.
LEMMA Copied ==
    ASSUME ViewIInv, s' = s, eager' = eager, links' = links, loaded' = loaded, Copying'
    PROVE  ViewIInv' /\ PlaceStep
<1>1. (links \subseteq LinkRecords)'
  BY DEF ViewIInv
<1> QED
  BY <1>1, SameRequests, Unseen

LEMMA InterruptCopyStep ==
    ASSUME ViewIInv, InterruptCopy
    PROVE  ViewIInv' /\ PlaceStep
<1> DEFINE c == [copy EXCEPT !.interrupted = TRUE]
<1>1. /\ s' = s /\ eager' = eager /\ links' = links /\ loaded' = loaded
      /\ copy' = c /\ copy # Empty
  BY DEF InterruptCopy, counts
<1>2. copy \in CopyRecords
  BY <1>1 DEF ViewIInv, Copying
<1>3. /\ c \in CopyRecords /\ c.began = copy.began /\ c.doc = copy.doc
      /\ c.read = copy.read /\ c.page = copy.page
  BY <1>2 DEF CopyRecords
<1> HIDE DEF c
<1>4. Copying'
  BY <1>1, <1>3 DEF ViewIInv, Copying
<1> QED
  BY <1>1, <1>4, Copied

LEMMA TextAnswerStep ==
    ASSUME ViewIInv, TextAnswer
    PROVE  ViewIInv' /\ PlaceStep
<1> DEFINE n == copy.page + 1
           R == copy.read \cup {copy.doc}
           c == [copy EXCEPT !.page = n, !.doc = s.doc, !.read = R]
<1>1. /\ s' = s /\ eager' = eager /\ links' = links /\ loaded' = loaded
      /\ copy' = Empty \/ copy' = c
      /\ copy # Empty /\ copy.page <= Docs[copy.doc]
  BY DEF TextAnswer, counts
<1>2. /\ copy \in CopyRecords
      /\ copy.began <= copy.doc /\ copy.doc <= s.doc
      /\ \A d \in copy.read : copy.began <= d /\ d <= copy.doc
      /\ s.doc \in Known /\ Len(Docs) \in Nat
  BY <1>1, Counts DEF ViewIInv, Copying, Good, AtRest, Loose, ViewRecords
<1>3. /\ copy.began \in Nat /\ copy.doc \in Nat /\ copy.page \in Nat \ {0} /\ s.doc \in Nat
      /\ copy.read \in SUBSET Nat
  BY <1>2 DEF CopyRecords, Known
<1>4. n \in Nat \ {0} /\ n - 1 = copy.page
  BY <1>3
<1>5. R \in SUBSET Known /\ copy.doc \in R /\ \A d \in R : copy.began <= d /\ d <= copy.doc
  BY <1>2, <1>3 DEF CopyRecords
<1>6. Max(R) = copy.doc
  <2>1. R \in SUBSET Nat
    BY <1>3
  <2> HIDE DEF R
  <2>2. copy.doc \in R /\ \A d \in R : copy.doc >= d
    BY <2>1, <1>3, <1>5
  <2>3. ASSUME NEW x \in R, \A d \in R : x >= d
        PROVE  x = copy.doc
    <3>1. x >= copy.doc /\ copy.doc >= x /\ x \in Nat
      BY <2>1, <2>2, <2>3
    <3> QED
      BY <3>1, <1>3
  <2> QED
    BY <2>2, <2>3 DEF Max
<1> HIDE DEF n, R
<1>7. c \in CopyRecords /\ c.began = copy.began /\ c.doc = s.doc /\ c.read = R /\ c.page = n
  BY <1>2, <1>4, <1>5 DEF CopyRecords
<1> HIDE DEF c
<1>8. Copying'
  <2>1. CASE copy' = Empty
    BY <2>1 DEF Copying
  <2>2. CASE copy' = c
    <3>1. c.began <= s.doc /\ s.doc <= s.doc
      BY <1>2, <1>3, <1>7
    <3>2. \A d \in R : copy.began <= d /\ d <= s.doc
      BY <1>2, <1>3, <1>5 DEF Known
    <3>3. Docs[Max(R)] >= n - 1
      <4>1. Docs[copy.doc] \in Nat
        BY <1>2, <1>3, ViewingAssumption DEF CopyRecords, Known
      <4> QED
        BY <4>1, <1>1, <1>3, <1>4, <1>6
    <3> QED
      BY <2>2, <3>1, <3>2, <3>3, <1>1, <1>7 DEF Copying
  <2> QED
    BY <2>1, <2>2, <1>1
<1> QED
  BY <1>1, <1>8, Copied

LEMMA CopyEndsStep ==
    ASSUME ViewIInv, TextFails \/ CopyWritten
    PROVE  ViewIInv' /\ PlaceStep
<1>1. s' = s /\ eager' = eager /\ links' = links /\ loaded' = loaded /\ copy' = Empty
  BY DEF TextFails, CopyWritten, counts
<1>2. Copying'
  BY <1>1 DEF Copying
<1> QED
  BY <1>1, <1>2, Copied

-----------------------------------------------------------------------------
(***************************************************************************)
(* The theorems.                                                           *)
(***************************************************************************)
LEMMA ViewNextIInv ==
    ASSUME ViewIInv, [ViewNext]_viewVars
    PROVE  ViewIInv' /\ PlaceStep
<1>1. CASE CopyAll
  BY <1>1, CopyAllStep
<1>2. CASE InterruptCopy
  BY <1>2, InterruptCopyStep
<1>3. CASE TextAnswer
  BY <1>3, TextAnswerStep
<1>4. CASE TextFails \/ CopyWritten
  BY <1>4, CopyEndsStep
<1>5. CASE Commit
  BY <1>5, CommitStep
<1>6. CASE Rollback
  BY <1>6, RollbackStep
<1>7. CASE RollbackFails
  BY <1>7, RollbackFailsStep
<1>8. CASE Frame
  BY <1>8, FrameStep
<1>9. CASE ScrollTimeout
  BY <1>9, ScrollTimeoutStep
<1>10. CASE NamedAction
  BY <1>10, NamedActionStep
<1>11. CASE \E n \in {s.page - 1, s.page + 1, Docs[1]} : ShowPage(n)
  BY <1>11, ShowPageStep
<1>12. CASE \E v \in Values : SetZoom(v)
  BY <1>12, SetZoomStep
<1>13. CASE \E y \in 0 .. MaxTop(s) : Scroll(y)
  BY <1>13, ScrollStep
<1>14. CASE \E n \in 1 .. PagesCount(s), v \in LinkValues \cup {Empty}, y \in 0 .. Points :
                FollowLink(n, v, y)
  BY <1>14, FollowLinkStep
<1>15. CASE \E l \in links : DestinationKnown(l) \/ GoToDestination(l) \/ LinkLost(l)
  BY <1>15, DestinationKnownStep, GoToDestinationStep, LinkLostStep
<1>16. CASE \E k \in DOMAIN eager : BeginEager(k) \/ \E p \in eager[k].asked : EagerAnswer(k, p)
  BY <1>16, BeginEagerStep, EagerAnswerStep
<1>17. CASE UNCHANGED viewVars
  <2>1. s' = s /\ eager' = eager /\ links' = links /\ copy' = copy /\ loaded' = loaded
    BY <1>17 DEF viewVars, counts
  <2> QED
    BY <2>1, SameCopy, Copied
<1> QED
  BY <1>1, <1>2, <1>3, <1>4, <1>5, <1>6, <1>7, <1>8, <1>9, <1>10, <1>11, <1>12, <1>13,
     <1>14, <1>15, <1>16, <1>17
     DEF ViewNext

\* The page numbers exist and the view is in its document, whatever late
\* destination, scroll, zoom or shorter document came in between.
THEOREM ViewTypeCorrect ==
    ViewSpec => []ViewTypeOK
<1>1. ViewInit => ViewIInv
  BY ViewInitIInv
<1>2. ViewIInv /\ [ViewNext]_viewVars => ViewIInv'
  BY ViewNextIInv
<1>3. ViewIInv => ViewTypeOK
  BY ViewIInvImplies
<1> QED
  BY <1>1, <1>2, <1>3, PTL DEF ViewSpec

\* The controller knows, and its controls say, what the viewer shows, and the
\* page they name can be seen once the frame after a scroll has run, or ends
\* exactly where the view begins.
THEOREM ControlsAreTrue ==
    ViewSpec => []ControlsTrue
<1>1. ViewInit => ViewIInv
  BY ViewInitIInv
<1>2. ViewIInv /\ [ViewNext]_viewVars => ViewIInv'
  BY ViewNextIInv
<1>3. ViewIInv => ControlsTrue
  BY ViewIInvImplies
<1> QED
  BY <1>1, <1>2, <1>3, PTL DEF ViewSpec

\* No page of a replaced document gets into the views of its successor, and
\* the text of a copy is that of existing pages, none of an older document.
THEOREM PagesOfTheDocument ==
    ViewSpec => []PagesBelong
<1>1. ViewInit => ViewIInv
  BY ViewInitIInv
<1>2. ViewIInv /\ [ViewNext]_viewVars => ViewIInv'
  BY ViewNextIInv
<1>3. ViewIInv => PagesBelong
  BY ViewIInvImplies
<1> QED
  BY <1>1, <1>2, <1>3, PTL DEF ViewSpec

\* Page and zoom survive an installation and a rollback, the page clamped to
\* the last one; a zoom keeps the first page of the view in view, if half a
\* point of it could be seen.
THEOREM PlaceIsKept ==
    ViewSpec => KeepsPlace
<1>1. ViewInit => ViewIInv
  BY ViewInitIInv
<1>2. ViewIInv /\ [ViewNext]_viewVars => ViewIInv'
  BY ViewNextIInv
<1>3. ViewIInv /\ [ViewNext]_viewVars => PlaceStep
  BY ViewNextIInv
<1>4. PlaceStep
        <=> (/\ s'.pages # Empty /\ Len(eager') > Len(eager) =>
                   s'.cur = ClampPage(s.page, Docs[s'.doc]) /\ s'.value = s.zoom
             /\ s.pages # Empty /\ ~s.moved /\ s'.scale # s.scale /\ s'.doc = s.doc
                /\ links' = links /\ Len(eager') = Len(eager) /\ loaded' = loaded
                /\ HalfAPoint(s, Least(Visible(s))) =>
                   Least(Visible(s)) \in Visible(s'))
  BY DEF PlaceStep
<1> QED
  BY <1>1, <1>2, <1>3, <1>4, PTL DEF ViewSpec, KeepsPlace

==============================================================================
