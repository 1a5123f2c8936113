--------------------------- MODULE Navigation_proofs ---------------------------
(***************************************************************************)
(* Proofs about Navigation, for any folders, orders, history, writes and   *)
(* faults: the types and bounds, SettledView and HistoryKept.              *)
(*                                                                         *)
(* The argument: every write the page has been told of is in the folder    *)
(* already (Written), and a read that was answered with a listing is not   *)
(* older than one of those, because a write that is answered while a read  *)
(* of its folder is pending starts the read again (ReadFresh).  The        *)
(* listings that read leaves in the cache are dropped when a write of      *)
(* their folder is answered (CacheSound), which takes what Without leaves  *)
(* of a cache: an induction over the cache, by the least number at which   *)
(* it would fail.                                                          *)
(***************************************************************************)
EXTENDS Navigation, WellFoundedInduction, TLAPS

\* A write that was carried out, and one that was acknowledged, is in the folder.
Written ==
    /\ contents \in [Folders -> Nat] /\ acked \in [Folders -> Nat]
    /\ \A f \in Folders : acked[f] <= contents[f]
    /\ \A w \in writes : w \in [path : Folders, version : Nat] /\ w.version <= contents[w.path]

IsListing(l) ==
    /\ l.url \in Urls
    /\ l = [url |-> l.url, version |-> l.version, inert |-> l.inert, error |-> l.error]

IsRequest(r) ==
    /\ r.url \in Urls
    /\ r = [url |-> r.url, history |-> r.history, committed |-> r.committed, retrying |-> r.retrying]

\* The tab is at an entry of its history.
Inside(h, i) == h \in Seq(Urls) /\ i \in 1..Len(h)

OnPage == IsListing(view) /\ (pending # None => IsRequest(pending)) /\ Inside(entries, at)

\* A read is of a request; its listing is not older than an acknowledged write.
ReadFresh ==
    /\ flight # Idle => pending # None
    /\ flight.status = "ok" =>
         flight.version \in Nat /\ flight.version >= acked[PathOf(pending.url)]

\* Only a request that is not being read waits for a timer.
TimerIsOfRequest ==
    /\ flight # Idle => ~timer /\ ~pending.retrying
    /\ timer => pending # None

IInv == Written /\ OnPage /\ ReadFresh /\ TimerIsOfRequest /\ ViewSettled

-----------------------------------------------------------------------------
(***************************************************************************)
(* What the steps are made of.                                             *)
(***************************************************************************)
\* The folder of a URL.
LEMMA PathIsFolder == \A u \in Urls : PathOf(u) \in Folders
  BY DEF Urls, PathOf

\* A request is not the absence of one.
LEMMA RequestIsThere ==
    ASSUME NEW r, IsRequest(r)
    PROVE  r # None
<1>1. [url |-> r.url, history |-> r.history, committed |-> r.committed, retrying |-> r.retrying] # <<>>
  OBVIOUS
<1> QED
  BY <1>1 DEF IsRequest, None

\* Changing one flag of a request leaves a request for the same URL.
LEMMA FlagsOfRequest ==
    ASSUME NEW r, IsRequest(r), NEW b
    PROVE  /\ IsRequest([r EXCEPT !.retrying = b])
           /\ [r EXCEPT !.retrying = b].url = r.url /\ [r EXCEPT !.retrying = b].retrying = b
           /\ IsRequest([r EXCEPT !.committed = b])
           /\ [r EXCEPT !.committed = b].url = r.url
           /\ [r EXCEPT !.committed = b].retrying = r.retrying
<1> DEFINE q == [url |-> r.url, history |-> r.history, committed |-> r.committed, retrying |-> r.retrying]
           qr == [url |-> r.url, history |-> r.history, committed |-> r.committed, retrying |-> b]
           qc == [url |-> r.url, history |-> r.history, committed |-> b, retrying |-> r.retrying]
<1>1. r = q /\ r.url \in Urls
  BY DEF IsRequest
<1>2. [q EXCEPT !.retrying = b] = qr /\ [q EXCEPT !.committed = b] = qc
  OBVIOUS
<1>3. [r EXCEPT !.retrying = b] = qr /\ [r EXCEPT !.committed = b] = qc
  <2> HIDE DEF q, qr, qc
  <2> QED BY <1>1, <1>2, Zenon
<1>4. IsRequest(qr) /\ qr.url = r.url /\ qr.retrying = b
  BY <1>1 DEF IsRequest
<1>5. IsRequest(qc) /\ qc.url = r.url /\ qc.retrying = r.retrying
  BY <1>1 DEF IsRequest
<1> QED
  <2> HIDE DEF qr, qc
  <2> QED BY <1>3, <1>4, <1>5, Zenon

LEMMA RequestMade ==
    ASSUME NEW u \in Urls, NEW history
    PROVE  /\ IsRequest(Request(u, history)) /\ Request(u, history).url = u
           /\ Request(u, history).retrying = FALSE
  BY DEF IsRequest, Request

LEMMA ListingMade ==
    ASSUME NEW u \in Urls, NEW v
    PROVE  /\ IsListing(Listing(u, v)) /\ Listing(u, v).url = u /\ Listing(u, v).version = v
           /\ ~Listing(u, v).inert /\ ~Listing(u, v).error
  BY DEF IsListing, Listing

\* One field of a listing other than its URL may become anything.
LEMMA FieldsOfListing ==
    ASSUME NEW l, IsListing(l), NEW b
    PROVE  /\ IsListing([l EXCEPT !.version = b]) /\ IsListing([l EXCEPT !.inert = b])
           /\ IsListing([l EXCEPT !.error = b])
<1> DEFINE q == [url |-> l.url, version |-> l.version, inert |-> l.inert, error |-> l.error]
           qv == [url |-> l.url, version |-> b, inert |-> l.inert, error |-> l.error]
           qi == [url |-> l.url, version |-> l.version, inert |-> b, error |-> l.error]
           qe == [url |-> l.url, version |-> l.version, inert |-> l.inert, error |-> b]
<1>1. l = q /\ l.url \in Urls
  BY DEF IsListing
<1>2. [q EXCEPT !.version = b] = qv /\ [q EXCEPT !.inert = b] = qi /\ [q EXCEPT !.error = b] = qe
  OBVIOUS
<1>3. [l EXCEPT !.version = b] = qv /\ [l EXCEPT !.inert = b] = qi /\ [l EXCEPT !.error = b] = qe
  <2> HIDE DEF q, qv, qi, qe
  <2> QED BY <1>1, <1>2, Zenon
<1>4. IsListing(qv) /\ IsListing(qi) /\ IsListing(qe)
  BY <1>1 DEF IsListing
<1> QED
  <2> HIDE DEF qv, qi, qe
  <2> QED BY <1>3, <1>4, Zenon

\* An entry is replaced by a URL: the tab is still inside its history.
LEMMA ReplaceInside ==
    ASSUME NEW h, NEW i, Inside(h, i), NEW u \in Urls
    PROVE  Inside([h EXCEPT ![i] = u], i) /\ [h EXCEPT ![i] = u][i] = u
  BY DEF Inside

\* remember keeps the tab inside its history.
LEMMA RememberInside ==
    ASSUME OnPage
    PROVE  Inside(Remember, at)
<1>1. Inside([entries EXCEPT ![at] = view.url], at)
  BY ReplaceInside DEF OnPage, IsListing
<1> QED
  BY <1>1 DEF OnPage, Remember

\* commit leaves the tab at the URL of the request.
LEMMA CommitThere ==
    ASSUME NEW r, NEW h, NEW i, r.url \in Urls, Inside(h, i), Commit(r, h, i)
    PROVE  Inside(entries', at') /\ Location' = r.url
<1>1. CASE entries' = [h EXCEPT ![i] = r.url] /\ at' = i
  BY <1>1, ReplaceInside DEF Location
<1>2. CASE entries' = Append(SubSeq(h, 1, i), r.url) /\ at' = i + 1
  <2> DEFINE s == SubSeq(h, 1, i)
  <2>1. s \in Seq(Urls) /\ Len(s) = i /\ i \in Nat
    BY DEF Inside
  <2>2. Append(s, r.url) \in Seq(Urls) /\ Len(Append(s, r.url)) = i + 1
        /\ Append(s, r.url)[i + 1] = r.url /\ i + 1 \in 1..(i + 1)
    <3> HIDE DEF s
    <3> QED BY <2>1
  <2> QED
    BY <1>2, <2>2 DEF Inside, Location
<1> QED
  BY <1>1, <1>2 DEF Commit

\* navigate starts the read of a request, inside the history.
LEMMA NavigateThere ==
    ASSUME OnPage, NEW u \in Urls, NEW force, NEW history, NEW c, NEW h, NEW i, Inside(h, i),
           Navigate(u, force, history, c, h, i)
    PROVE  /\ IsListing(view') /\ IsRequest(pending') /\ Inside(entries', at')
           /\ flight' = Asked /\ timer' = FALSE /\ pending'.retrying = FALSE
<1> DEFINE r == Request(u, history)
<1>1. IsRequest(r) /\ r.url = u /\ r.retrying = FALSE
  BY RequestMade
<1>2. flight' = Asked /\ timer' = FALSE
  BY DEF Navigate
<1>3. ASSUME NavigateCached(r, c, h, i)
      PROVE  /\ IsListing(view') /\ IsRequest(pending') /\ Inside(entries', at')
             /\ pending'.retrying = FALSE
  <2>1. PICK n : /\ view' = [Listing(r.url, c[n].version) EXCEPT !.inert = TRUE]
                 /\ Commit(r, h, i)
                 /\ pending' = [r EXCEPT !.committed = TRUE]
    BY <1>3 DEF NavigateCached
  <2>2. IsListing(view')
    <3>1. IsListing(Listing(r.url, c[n].version))
      BY <1>1, ListingMade
    <3> QED
      BY <2>1, <3>1, FieldsOfListing, Zenon
  <2>3. IsRequest(pending') /\ pending'.retrying = FALSE
    <3> HIDE DEF r
    <3>1. /\ IsRequest([r EXCEPT !.committed = TRUE])
          /\ [r EXCEPT !.committed = TRUE].retrying = r.retrying
      BY <1>1, FlagsOfRequest, Zenon
    <3>2. pending' = [r EXCEPT !.committed = TRUE]
      BY <2>1
    <3> QED BY <1>1, <3>1, <3>2, Zenon
  <2>4. Inside(entries', at')
    BY <1>1, <2>1, CommitThere
  <2> QED
    BY <2>2, <2>3, <2>4
<1>4. ASSUME NavigateUncached(r, force, c, h, i)
      PROVE  /\ IsListing(view') /\ IsRequest(pending') /\ Inside(entries', at')
             /\ pending'.retrying = FALSE
  BY <1>1, <1>4 DEF NavigateUncached, OnPage
<1> QED
  BY <1>2, <1>3, <1>4 DEF Navigate

\* After a navigation a read of its request is on its way: nothing is settled.
LEMMA NavigateUnsettled ==
    ASSUME IInv, NEW u \in Urls, NEW force, NEW history, NEW c, NEW h, NEW i, Inside(h, i),
           Navigate(u, force, history, c, h, i), Written'
    PROVE  IInv'
<1>1. /\ IsListing(view') /\ IsRequest(pending') /\ Inside(entries', at')
      /\ flight' = Asked /\ timer' = FALSE /\ pending'.retrying = FALSE
  BY NavigateThere DEF IInv
<1>2. pending' # None
  BY <1>1, RequestIsThere
<1>3. OnPage'
  BY <1>1 DEF OnPage
<1>4. ReadFresh'
  BY <1>1, <1>2 DEF ReadFresh, Asked
<1>5. TimerIsOfRequest'
  BY <1>1 DEF TimerIsOfRequest
<1>6. ViewSettled'
  BY <1>2 DEF ViewSettled, None
<1> QED
  BY <1>3, <1>4, <1>5, <1>6 DEF IInv

\* changed, after a write to folder f that has only added to what f is known to
\* hold: it navigates, or no listing of f is on the page or on its way to it.
LEMMA ChangedKeeps ==
    ASSUME IInv, NEW f \in Folders, Changed(f), Written', UNCHANGED page,
           \A g \in Folders \ {f} : acked'[g] = acked[g]
    PROVE  IInv'
<1>1. CASE pending # None /\ PathOf(pending.url) = f
  <2> DEFINE history == pending.history \/ pending.committed
             h == IF history THEN entries ELSE Remember
  <2>1. Navigate(pending.url, TRUE, history, InvalidatePath(cache, f), h, at)
    BY <1>1 DEF Changed
  <2>2. Inside(h, at)
    BY RememberInside DEF IInv, OnPage
  <2>3. pending.url \in Urls
    BY <1>1 DEF IInv, OnPage, IsRequest
  <2> QED
    <3> HIDE DEF h, history
    <3> QED BY <2>1, <2>2, <2>3, NavigateUnsettled
<1>2. CASE pending = None /\ PathOf(view.url) = f
  <2>1. Navigate(view.url, TRUE, FALSE, InvalidatePath(cache, f), Remember, at)
    BY <1>2 DEF Changed
  <2>2. Inside(Remember, at)
    BY RememberInside DEF IInv
  <2>3. view.url \in Urls
    BY DEF IInv, OnPage, IsListing
  <2> QED
    BY <2>1, <2>2, <2>3, NavigateUnsettled
<1>3. CASE /\ ~(pending # None /\ PathOf(pending.url) = f)
           /\ ~(pending = None /\ PathOf(view.url) = f)
  <2>1. UNCHANGED <<view, pending, flight, timer, entries, at>>
    BY <1>3 DEF Changed, reading
  <2>2. OnPage'
    BY <2>1 DEF IInv, OnPage
  <2>3. ReadFresh'
    <3>1. flight.status = "ok" => flight # Idle
      BY DEF Idle
    <3>2. flight.status = "ok" => PathOf(pending.url) \in Folders \ {f}
      BY <1>3, <3>1, PathIsFolder DEF IInv, OnPage, ReadFresh, IsRequest
    <3> QED
      BY <2>1, <3>2 DEF IInv, ReadFresh
  <2>4. ViewSettled'
    <3>1. pending = None => PathOf(view.url) \in Folders \ {f}
      BY <1>3, PathIsFolder DEF IInv, OnPage, IsListing
    <3>2. Location' = Location
      BY <2>1 DEF Location
    <3> QED
      BY <2>1, <3>1, <3>2 DEF IInv, ViewSettled
  <2>5. TimerIsOfRequest'
    BY <2>1 DEF IInv, TimerIsOfRequest
  <2> QED
    BY <2>2, <2>3, <2>4, <2>5 DEF IInv
<1> QED
  BY <1>1, <1>2, <1>3

\* The page, its request, its read and its history as they were.
LEMMA PageKept ==
    ASSUME IInv, Written', UNCHANGED <<page, view, pending, flight, entries, at, acked>>,
           TimerIsOfRequest'
    PROVE  IInv'
<1>1. Location' = Location
  BY DEF Location
<1>2. OnPage' /\ ReadFresh'
  BY DEF IInv, OnPage, ReadFresh
<1>3. ViewSettled'
  BY <1>1 DEF IInv, ViewSettled
<1> QED
  BY <1>2, <1>3 DEF IInv

LEMMA TimerKept ==
    ASSUME TimerIsOfRequest, UNCHANGED <<pending, flight, timer>>
    PROVE  TimerIsOfRequest'
  BY DEF TimerIsOfRequest

\* Nothing the server knows has changed.
LEMMA WrittenKept ==
    ASSUME Written, UNCHANGED <<contents, acked>>, writes' \subseteq writes
    PROVE  Written'
  BY DEF Written

-----------------------------------------------------------------------------
(***************************************************************************)
(* The invariant.                                                          *)
(***************************************************************************)
LEMMA InitIInv == Init => IInv
<1> SUFFICES ASSUME NEW u \in Urls,
                    /\ contents = [f \in Folders |-> 1] /\ writes = {}
                    /\ view = Listing(u, 1) /\ pending = None /\ flight = Idle
                    /\ timer = FALSE /\ entries = <<u>> /\ at = 1 /\ acked = [f \in Folders |-> 1]
             PROVE  IInv
  BY DEF Init
<1>1. Written
  BY DEF Written
<1>2. /\ IsListing(view) /\ view.url = u /\ view.version = 1 /\ ~view.inert /\ ~view.error
  BY ListingMade
<1>3. Inside(entries, at) /\ Location = u
  BY DEF Inside, Location
<1>4. ReadFresh /\ TimerIsOfRequest
  BY DEF ReadFresh, TimerIsOfRequest, Idle
<1>5. ViewSettled
  BY <1>2, <1>3, PathIsFolder DEF ViewSettled
<1> QED
  BY <1>1, <1>2, <1>3, <1>4, <1>5 DEF IInv, OnPage

LEMMA NextIInv == IInv /\ [Next]_vars => IInv'
<1> SUFFICES ASSUME IInv, [Next]_vars
             PROVE  IInv'
  OBVIOUS
<1>w. Written /\ OnPage /\ ReadFresh /\ TimerIsOfRequest /\ ViewSettled
  BY DEF IInv
<1>v. view.url \in Urls /\ Inside(entries, at) /\ Inside(Remember, at)
  BY <1>w, RememberInside DEF OnPage, IsListing
<1>e. \A i \in 1..Len(entries) : entries[i] \in Urls
  BY <1>v DEF Inside
<1>l. Location \in Urls
  BY <1>v DEF Inside, Location
<1>p. flight # Idle => pending # None /\ IsRequest(pending) /\ pending.url \in Urls
  BY <1>w DEF ReadFresh, OnPage, IsRequest
<1>1. ASSUME NEW u \in Urls, Click(u)
      PROVE  IInv'
  <2>1. Written'
    BY <1>1, <1>w, WrittenKept DEF Click, server
  <2> QED
    BY <1>1, <1>v, <2>1, NavigateUnsettled DEF Click
<1>2. CASE Refresh
  <2>1. Written'
    BY <1>2, <1>w, WrittenKept DEF Refresh, server
  <2> QED
    BY <1>2, <1>v, <2>1, NavigateUnsettled DEF Refresh
<1>3. ASSUME NEW i \in 1..MaxHistory, Traverse(i)
      PROVE  IInv'
  <2>1. Written'
    BY <1>3, <1>w, WrittenKept DEF Traverse, server
  <2>2. i \in 1..Len(entries) /\ Inside(entries, i)
    BY <1>3, <1>v DEF Traverse, Inside
  <2> QED
    BY <1>3, <1>e, <2>1, <2>2, NavigateUnsettled DEF Traverse
<1>4. CASE RetryTimer \/ RetryClick
  <2>1. pending # None
    BY <1>4, <1>w DEF RetryTimer, RetryClick, TimerIsOfRequest
  <2>2. Written'
    BY <1>4, <1>w, WrittenKept DEF RetryTimer, RetryClick, LoadAgain, server
  <2>3. pending' = [pending EXCEPT !.retrying = FALSE]
    BY <1>4 DEF RetryTimer, RetryClick, LoadAgain
  <2>4. IsRequest(pending)
    BY <1>w, <2>1 DEF OnPage
  <2>5. IsRequest(pending') /\ pending'.retrying = FALSE
    BY <2>3, <2>4, FlagsOfRequest, Zenon
  <2>6. pending' # None
    BY <2>5, RequestIsThere
  <2>7. flight' = Asked /\ timer' = FALSE /\ UNCHANGED <<view, entries, at>>
    BY <1>4 DEF RetryTimer, RetryClick, LoadAgain
  <2>8. ReadFresh' /\ TimerIsOfRequest'
    BY <2>5, <2>6, <2>7 DEF ReadFresh, TimerIsOfRequest, Asked
  <2>9. OnPage'
    BY <1>w, <2>5, <2>7 DEF OnPage
  <2> QED
    BY <2>2, <2>6, <2>8, <2>9 DEF IInv, ViewSettled, None
<1>5. CASE StartWrite
  <2>1. Written'
    <3>1. PathOf(view.url) \in Folders
      BY <1>v, PathIsFolder
    <3> QED
      BY <1>5, <1>w, <3>1 DEF StartWrite, Written, server
  <2> QED
    BY <1>5, <1>w, <2>1, PageKept, TimerKept DEF StartWrite, reading
<1>6. CASE VisibilityChange
  <2>1. Written'
    BY <1>6, <1>w, WrittenKept DEF VisibilityChange, server
  <2>2. TimerIsOfRequest'
    BY <1>6, <1>w DEF VisibilityChange, TimerIsOfRequest
  <2> QED
    BY <1>6, <2>1, <2>2, PageKept DEF VisibilityChange
<1>7. CASE OpenFile
  <2>1. Written'
    BY <1>7, <1>w, WrittenKept DEF OpenFile, server
  <2>2. Inside(SubSeq(Remember, 1, at), at)
    BY <1>v DEF Inside
  <2>3. UNCHANGED <<view, pending, flight, timer, at, acked>> /\ page' = "kept"
        /\ entries' = SubSeq(Remember, 1, at)
    BY <1>7 DEF OpenFile, reading
  <2>4. OnPage' /\ ReadFresh' /\ TimerIsOfRequest'
    BY <1>w, <2>2, <2>3, TimerKept DEF OnPage, ReadFresh
  <2> QED
    BY <2>1, <2>3, <2>4 DEF IInv, ViewSettled
<1>8. CASE ReturnKept
  <2>1. Written'
    BY <1>8, <1>w, WrittenKept DEF ReturnKept, server
  <2> QED
    BY <1>8, <1>v, <1>l, <2>1, NavigateUnsettled DEF ReturnKept
<1>9. CASE ReturnLoaded
  <2>1. Written'
    <3>1. writes' = {}
      BY <1>9 DEF ReturnLoaded
    <3> QED
      BY <1>9, <1>w, <3>1, WrittenKept DEF ReturnLoaded
  <2>2. UNCHANGED <<entries, at, acked>> /\ timer' = FALSE
    BY <1>9 DEF ReturnLoaded
  <2>3. Location' = Location /\ Inside(entries', at')
    BY <1>v, <2>2 DEF Location, Inside
  <2>4. CASE view' = Listing(Location, contents[PathOf(Location)]) /\ pending' = None /\ flight' = Idle
    <3>1. /\ IsListing(view') /\ view'.url = Location /\ view'.version = contents[PathOf(Location)]
          /\ ~view'.inert /\ ~view'.error
      BY <1>l, <2>4, ListingMade
    <3>2. contents[PathOf(Location)] >= acked[PathOf(Location)]
      BY <1>l, <1>w, PathIsFolder DEF Written
    <3>3. OnPage' /\ ReadFresh' /\ TimerIsOfRequest'
      BY <2>2, <2>3, <2>4, <3>1 DEF OnPage, ReadFresh, TimerIsOfRequest, Idle
    <3>4. ViewSettled'
      BY <2>2, <2>3, <3>1, <3>2 DEF ViewSettled
    <3> QED
      BY <2>1, <3>3, <3>4 DEF IInv
  <2>5. CASE /\ view' = [Listing(Location, 0) EXCEPT !.error = TRUE]
             /\ pending' = Request(Location, TRUE) /\ flight' = Asked
    <3>1. IsRequest(pending') /\ pending'.retrying = FALSE
      BY <1>l, <2>5, RequestMade
    <3>2. IsListing(view')
      <4>1. IsListing(Listing(Location, 0))
        BY <1>l, ListingMade, Zenon
      <4> QED
        BY <2>5, <4>1, FieldsOfListing, Zenon
    <3>3. pending' # None
      BY <3>1, RequestIsThere
    <3>4. OnPage' /\ ReadFresh' /\ TimerIsOfRequest'
      BY <2>2, <2>3, <2>5, <3>1, <3>2, <3>3 DEF OnPage, ReadFresh, TimerIsOfRequest, Asked
    <3> QED
      BY <2>1, <3>3, <3>4 DEF IInv, ViewSettled, None
  <2> QED
    BY <1>9, <2>4, <2>5 DEF ReturnLoaded
<1>10. ASSUME NEW w \in writes, WriteApplies(w)
       PROVE  IInv'
  <2>1. w \in [path : Folders, version : Nat] /\ w.version <= contents[w.path]
    BY <1>w DEF Written
  <2>2. contents' = [contents EXCEPT ![w.path] = contents[w.path] + 1]
    BY <1>10 DEF WriteApplies
  <2>3. contents' \in [Folders -> Nat] /\ \A f \in Folders : contents[f] <= contents'[f]
    BY <1>w, <2>1, <2>2 DEF Written
  <2>4. contents'[w.path] = contents[w.path] + 1 /\ contents[w.path] + 1 \in Nat
    BY <1>w, <2>1, <2>2 DEF Written
  <2> DEFINE w2 == [w EXCEPT !.version = contents[w.path] + 1]
  <2>5. w2 \in [path : Folders, version : Nat] /\ w2.version = contents[w.path] + 1 /\ w2.path = w.path
    BY <2>1, <2>4
  <2>6. writes' = (writes \ {w}) \cup {w2} /\ UNCHANGED acked
    BY <1>10 DEF WriteApplies
  <2>7. \A x \in writes' : x \in [path : Folders, version : Nat] /\ x.version <= contents'[x.path]
    <3> SUFFICES ASSUME NEW x \in writes'
                 PROVE  x \in [path : Folders, version : Nat] /\ x.version <= contents'[x.path]
      OBVIOUS
    <3>1. CASE x = w2
      <4> HIDE DEF w2
      <4> QED BY <2>4, <2>5, <3>1
    <3>2. CASE x \in writes
      <4>1. x \in [path : Folders, version : Nat] /\ x.version <= contents[x.path]
        BY <1>w, <3>2 DEF Written
      <4>2. contents[x.path] <= contents'[x.path] /\ contents[x.path] \in Nat /\ contents'[x.path] \in Nat
        BY <1>w, <2>3, <4>1 DEF Written
      <4> QED
        BY <4>1, <4>2
    <3> QED
      BY <2>6, <3>1, <3>2
  <2>8. Written'
    BY <1>w, <2>3, <2>6, <2>7 DEF Written
  <2> QED
    BY <1>10, <1>w, <2>8, PageKept, TimerKept DEF WriteApplies, reading
<1>11. ASSUME NEW f \in Folders, OtherWrite(f)
       PROVE  IInv'
  <2>1. Written'
    BY <1>11, <1>w DEF OtherWrite, Written
  <2> QED
    BY <1>11, <1>w, <2>1, PageKept, TimerKept DEF OtherWrite, reading
<1>12. ASSUME NEW w \in writes, WriteAnswered(w)
       PROVE  IInv'
  <2>1. w.path \in Folders /\ w.version \in Nat /\ w.version <= contents[w.path]
    BY <1>w DEF Written
  <2>2. /\ acked' = [acked EXCEPT ![w.path] = IF w.version > acked[w.path] THEN w.version ELSE acked[w.path]]
        /\ writes' = writes \ {w} /\ UNCHANGED <<contents, page>> /\ Changed(w.path)
    BY <1>12 DEF WriteAnswered, server
  <2>3. Written'
    BY <1>w, <2>1, <2>2 DEF Written
  <2>4. \A g \in Folders \ {w.path} : acked'[g] = acked[g]
    BY <1>w, <2>2 DEF Written
  <2> QED
    BY <2>1, <2>2, <2>3, <2>4, ChangedKeeps
<1>13. ASSUME NEW w \in writes, WriteFails(w)
       PROVE  IInv'
  <2>1. w.path \in Folders
    BY <1>w DEF Written
  <2>2. Written' /\ UNCHANGED <<page, acked>>
    BY <1>13, <1>w, WrittenKept DEF WriteFails, server
  <2> QED
    BY <1>13, <1>w, <2>1, <2>2, ChangedKeeps, PageKept, TimerKept DEF WriteFails, reading
<1>14. CASE Read
  <2>1. Written' /\ UNCHANGED <<page, view, pending, timer, entries, at, acked>>
    BY <1>14, <1>w, WrittenKept DEF Read
  <2>2. flight # Idle /\ pending # None /\ pending.url \in Urls
    BY <1>14, <1>p DEF Read, Asked, Idle
  <2>3. PathOf(pending.url) \in Folders
    BY <2>2, PathIsFolder
  <2>4. contents[PathOf(pending.url)] \in Nat
        /\ contents[PathOf(pending.url)] >= acked[PathOf(pending.url)]
    BY <1>w, <2>3 DEF Written
  <2>5. flight'.status = "ok" => flight'.version = contents[PathOf(pending.url)]
    BY <1>14 DEF Read
  <2>6. ReadFresh' /\ OnPage'
    BY <1>w, <2>1, <2>2, <2>4, <2>5 DEF ReadFresh, OnPage
  <2>7. TimerIsOfRequest'
    BY <1>w, <2>1, <2>2 DEF TimerIsOfRequest
  <2>8. ViewSettled'
    BY <2>1, <2>2 DEF ViewSettled, None
  <2> QED
    BY <2>1, <2>6, <2>7, <2>8 DEF IInv
<1>15. CASE ReadSucceeds
  <2>1. flight.status = "ok" /\ flight # Idle
    BY <1>15 DEF ReadSucceeds, Answered, Idle
  <2>2. pending.url \in Urls /\ flight.version >= acked[PathOf(pending.url)]
    BY <1>p, <1>w, <2>1 DEF ReadFresh
  <2>3. Written' /\ UNCHANGED acked
    BY <1>15, <1>w, WrittenKept DEF ReadSucceeds, server
  <2>4. /\ view' = Listing(pending.url, flight.version) /\ Commit(pending, entries, at)
        /\ pending' = None /\ flight' = Idle /\ UNCHANGED timer
    BY <1>15 DEF ReadSucceeds
  <2>5. /\ IsListing(view') /\ view'.url = pending.url /\ view'.version = flight.version
        /\ ~view'.inert /\ ~view'.error
    BY <2>2, <2>4, ListingMade
  <2>6. Inside(entries', at') /\ Location' = pending.url
    BY <1>v, <2>2, <2>4, CommitThere
  <2>7. OnPage' /\ ReadFresh' /\ TimerIsOfRequest'
    BY <1>w, <2>1, <2>4, <2>5, <2>6 DEF OnPage, ReadFresh, TimerIsOfRequest, Idle
  <2>8. ViewSettled'
    BY <2>2, <2>3, <2>5, <2>6 DEF ViewSettled
  <2> QED
    BY <2>3, <2>7, <2>8 DEF IInv
<1>16. CASE ReadLost \/ ReadRefused \/ ReadFails
  <2>1. Answered(flight.status) /\ flight # Idle
    BY <1>16 DEF ReadLost, ReadRefused, ReadFails, Answered, Idle
  <2>2. pending # None /\ IsRequest(pending)
    BY <1>p, <2>1
  <2>3. Written' /\ UNCHANGED <<page, entries, at, acked>> /\ flight' = Idle
    BY <1>16, <1>w, WrittenKept DEF ReadLost, ReadRefused, ReadFails, server
  <2>4. IsRequest(pending')
    <3>1. CASE pending' = pending
      BY <2>2, <3>1
    <3>2. CASE pending' = [pending EXCEPT !.retrying = TRUE]
      BY <2>2, <3>2, FlagsOfRequest, Zenon
    <3> QED
      BY <1>16, <3>1, <3>2 DEF ReadLost, ReadRefused, ReadFails
  <2>5. IsListing(view')
    <3>1. CASE view' = view
      BY <1>w, <3>1 DEF OnPage
    <3>2. CASE view' = [view EXCEPT !.version = 0]
      <4>1. IsListing(view)
        BY <1>w DEF OnPage
      <4> QED
        BY <3>2, <4>1, FieldsOfListing, Zenon
    <3> QED
      BY <1>16, <3>1, <3>2 DEF ReadLost, ReadRefused, ReadFails
  <2>6. pending' # None
    BY <2>4, RequestIsThere
  <2>7. OnPage' /\ ReadFresh' /\ TimerIsOfRequest'
    BY <1>v, <2>3, <2>4, <2>5, <2>6 DEF OnPage, ReadFresh, TimerIsOfRequest, Inside, Idle
  <2> QED
    BY <2>3, <2>6, <2>7 DEF IInv, ViewSettled, None
<1>17. CASE ReadFindsFile
  <2>1. Written' /\ UNCHANGED <<view, timer, at, acked>> /\ pending' = None /\ flight' = Idle
    BY <1>17, <1>w, WrittenKept DEF ReadFindsFile, server
  <2>2. page' # "shown" /\ entries' \in {entries, SubSeq(entries, 1, at)}
    BY <1>17 DEF ReadFindsFile
  <2>3. Inside(entries', at')
    BY <1>v, <2>1, <2>2 DEF Inside
  <2>4. OnPage' /\ ReadFresh' /\ TimerIsOfRequest'
    <3>1. flight # Idle
      BY <1>17 DEF ReadFindsFile, Answered, Idle
    <3> QED
      BY <1>w, <2>1, <2>3, <3>1 DEF OnPage, ReadFresh, TimerIsOfRequest, Idle
  <2> QED
    BY <2>1, <2>2, <2>4 DEF IInv, ViewSettled
<1>18. CASE LateIgnored
  BY <1>18, <1>w, WrittenKept, PageKept, TimerKept DEF LateIgnored, server
<1>19. CASE UNCHANGED vars
  BY <1>19, <1>w, WrittenKept, PageKept, TimerKept DEF vars
<1> QED
  BY <1>1, <1>2, <1>3, <1>4, <1>5, <1>6, <1>7, <1>8, <1>9, <1>10, <1>11, <1>12, <1>13, <1>14, <1>15,
     <1>16, <1>17, <1>18, <1>19 DEF Next, User, Server, Arrive

\* The invariant holds of every behaviour.
THEOREM Invariant == Spec => []IInv
<1>1. QED
  BY InitIInv, NextIInv, PTL DEF Spec

-----------------------------------------------------------------------------
(***************************************************************************)
(* The session history.                                                    *)
(***************************************************************************)
\* A request that came from the history, or that is committed, is for the URL
\* the tab is at.
Traversed ==
    pending # None /\ (pending.history \/ pending.committed) => Location = pending.url

\* What a step does to the entries that were there.
HistoryStep ==
    \A i \in 1..Len(entries) :
        i <= Len(entries') /\ entries'[i] # entries[i] => i = at' /\ at' = at + 1

\* remember only saves the position of the view: the URL is already the entry's.
LEMMA RememberSame ==
    ASSUME OnPage
    PROVE  Remember = entries
<1>1. Inside(entries, at)
  BY DEF OnPage
<1>2. [entries EXCEPT ![at] = entries[at]] = entries
  BY <1>1 DEF Inside
<1> QED
  BY <1>2 DEF Remember, Location

LEMMA SameHistory ==
    ASSUME UNCHANGED entries
    PROVE  HistoryStep
  BY DEF HistoryStep

\* What is ahead is dropped.
LEMMA DropStep ==
    ASSUME Inside(entries, at), entries' = SubSeq(entries, 1, at)
    PROVE  HistoryStep
  BY DEF HistoryStep, Inside

\* What is ahead is replaced by a new entry.
LEMMA PushStep ==
    ASSUME Inside(entries, at), NEW u \in Urls,
           entries' = Append(SubSeq(entries, 1, at), u), at' = at + 1
    PROVE  HistoryStep
<1> DEFINE s == SubSeq(entries, 1, at)
<1>1. s \in Seq(Urls) /\ Len(s) = at /\ at \in Nat /\ at <= Len(entries)
  BY DEF Inside
<1>2. \A j \in 1..at : s[j] = entries[j]
  BY DEF Inside
<1>3. entries' = Append(s, u)
  OBVIOUS
<1>4. Len(entries') = at + 1 /\ \A j \in 1..at : entries'[j] = entries[j]
  <2> HIDE DEF s
  <2> QED BY <1>1, <1>2, <1>3
<1>5. ASSUME NEW j \in 1..Len(entries), j <= Len(entries'), entries'[j] # entries[j]
      PROVE  j = at'
  <2>1. Len(entries) \in Nat
    BY DEF Inside
  <2> QED
    BY <1>1, <1>4, <1>5, <2>1
<1> QED
  BY <1>5 DEF HistoryStep

\* commit pushes, or replaces the entry of the URL by itself.
LEMMA CommitStep ==
    ASSUME NEW r, r.url \in Urls, NEW i, Inside(entries, i), Inside(entries, at),
           r.committed \/ r.history => entries[i] = r.url,
           i = at \/ r.history, Commit(r, entries, i)
    PROVE  HistoryStep
<1>1. CASE entries[i] = r.url
  <2>1. entries' = [entries EXCEPT ![i] = r.url]
    BY <1>1 DEF Commit
  <2>2. [entries EXCEPT ![i] = r.url] = entries
    BY <1>1 DEF Inside
  <2> QED
    BY <2>1, <2>2, SameHistory
<1>2. CASE entries[i] # r.url
  <2>1. ~(r.committed \/ r.history) /\ i = at
    BY <1>2
  <2>2. entries' = Append(SubSeq(entries, 1, at), r.url) /\ at' = at + 1
    BY <1>2, <2>1 DEF Commit
  <2> QED
    BY <2>2, PushStep
<1> QED
  BY <1>1, <1>2

\* navigate, to the URL of the entry when the user traverses the history.
LEMMA NavigateStep ==
    ASSUME OnPage, NEW u \in Urls, NEW force, NEW history, NEW c, NEW i, Inside(entries, i),
           history => entries[i] = u, i = at \/ history,
           Navigate(u, force, history, c, entries, i)
    PROVE  Traversed' /\ HistoryStep
<1> DEFINE r == Request(u, history)
<1>1. IsRequest(r) /\ r.url = u
  BY RequestMade
<1>2. ~r.committed /\ (r.history <=> history)
  BY DEF Request
<1>3. Inside(entries, at)
  BY DEF OnPage
<1>4. ASSUME NavigateCached(r, c, entries, i)
      PROVE  Traversed' /\ HistoryStep
  <2>1. Commit(r, entries, i) /\ pending' = [r EXCEPT !.committed = TRUE]
    BY <1>4 DEF NavigateCached
  <2>2. HistoryStep
    <3> HIDE DEF r
    <3> QED BY <1>1, <1>2, <1>3, <2>1, CommitStep
  <2>3. Location' = u
    BY <1>1, <2>1, CommitThere
  <2>4. pending'.url = u
    <3> HIDE DEF r
    <3> QED BY <1>1, <2>1, FlagsOfRequest, Zenon
  <2> QED
    BY <2>2, <2>3, <2>4 DEF Traversed
<1>5. ASSUME NavigateUncached(r, force, c, entries, i)
      PROVE  Traversed' /\ HistoryStep
  <2>1. entries' = entries /\ at' = i /\ pending' = r
    BY <1>5 DEF NavigateUncached
  <2>2. Traversed'
    <3> HIDE DEF r
    <3> QED BY <1>1, <1>2, <2>1 DEF Traversed, Location
  <2> QED
    BY <2>1, <2>2, SameHistory
<1> QED
  BY <1>4, <1>5 DEF Navigate

\* The request and the place of the tab as they were.
LEMMA PlaceKept ==
    ASSUME Traversed, UNCHANGED <<pending, entries, at>>
    PROVE  Traversed' /\ HistoryStep
  BY SameHistory DEF Traversed, Location

\* The request keeps what Traversed reads of it.
LEMMA RequestKept ==
    ASSUME Traversed, pending # None, IsRequest(pending), UNCHANGED <<entries, at>>, NEW b,
           pending' = [pending EXCEPT !.retrying = b]
    PROVE  Traversed' /\ HistoryStep
<1> DEFINE q == [url |-> pending.url, history |-> pending.history, committed |-> pending.committed,
                 retrying |-> pending.retrying]
           qr == [url |-> pending.url, history |-> pending.history, committed |-> pending.committed,
                  retrying |-> b]
<1>1. pending = q
  BY DEF IsRequest
<1>2. [q EXCEPT !.retrying = b] = qr
  OBVIOUS
<1>3. pending' = qr
  <2> HIDE DEF q, qr
  <2> QED BY <1>1, <1>2, Zenon
<1>4. qr.url = pending.url /\ qr.history = pending.history /\ qr.committed = pending.committed
  OBVIOUS
<1>5. pending'.url = pending.url /\ pending'.history = pending.history
      /\ pending'.committed = pending.committed
  <2> HIDE DEF qr
  <2> QED BY <1>3, <1>4, Zenon
<1>6. Location' = Location
  BY DEF Location
<1> QED
  BY <1>5, <1>6, SameHistory DEF Traversed

LEMMA ChangedStep ==
    ASSUME OnPage, Traversed, NEW f, Changed(f)
    PROVE  Traversed' /\ HistoryStep
<1>1. Remember = entries /\ Inside(entries, at)
  BY RememberSame DEF OnPage
<1>2. CASE pending # None /\ PathOf(pending.url) = f
  <2> DEFINE history == pending.history \/ pending.committed
  <2>1. Navigate(pending.url, TRUE, history, InvalidatePath(cache, f),
                 IF history THEN entries ELSE Remember, at)
    BY <1>2 DEF Changed
  <2>2. Navigate(pending.url, TRUE, history, InvalidatePath(cache, f), entries, at)
    <3> HIDE DEF history
    <3> QED BY <1>1, <2>1
  <2>3. pending.url \in Urls /\ (history => entries[at] = pending.url)
    BY <1>2 DEF OnPage, IsRequest, Traversed, Location
  <2> QED
    <3> HIDE DEF history
    <3> QED BY <1>1, <2>2, <2>3, NavigateStep
<1>3. CASE pending = None /\ PathOf(view.url) = f
  <2>1. Navigate(view.url, TRUE, FALSE, InvalidatePath(cache, f), entries, at)
    BY <1>1, <1>3 DEF Changed
  <2>2. view.url \in Urls
    BY DEF OnPage, IsListing
  <2> QED
    BY <1>1, <2>1, <2>2, NavigateStep
<1>4. CASE /\ ~(pending # None /\ PathOf(pending.url) = f)
           /\ ~(pending = None /\ PathOf(view.url) = f)
  <2>1. UNCHANGED <<pending, entries, at>>
    BY <1>4 DEF Changed, reading
  <2> QED
    BY <2>1, PlaceKept
<1> QED
  BY <1>2, <1>3, <1>4

LEMMA NextHistory == IInv /\ Traversed /\ [Next]_vars => Traversed' /\ HistoryStep
<1> SUFFICES ASSUME IInv, Traversed, [Next]_vars
             PROVE  Traversed' /\ HistoryStep
  OBVIOUS
<1>w. OnPage /\ TimerIsOfRequest /\ ReadFresh
  BY DEF IInv
<1>v. view.url \in Urls /\ Inside(entries, at) /\ Remember = entries
  BY <1>w, RememberSame DEF OnPage, IsListing
<1>l. Location \in Urls
  BY <1>v DEF Inside, Location
<1>p. flight # Idle => pending # None /\ IsRequest(pending) /\ pending.url \in Urls
  BY <1>w DEF ReadFresh, OnPage, IsRequest
<1>1. ASSUME NEW u \in Urls, Click(u)
      PROVE  Traversed' /\ HistoryStep
  BY <1>1, <1>v, <1>w, NavigateStep DEF Click
<1>2. CASE Refresh
  BY <1>2, <1>v, <1>w, NavigateStep DEF Refresh
<1>3. ASSUME NEW i \in 1..MaxHistory, Traverse(i)
      PROVE  Traversed' /\ HistoryStep
  <2>1. Inside(entries, i) /\ entries[i] \in Urls
    BY <1>3, <1>v DEF Traverse, Inside
  <2> QED
    BY <1>3, <1>w, <2>1, NavigateStep DEF Traverse
<1>4. CASE RetryTimer \/ RetryClick
  <2>1. pending # None /\ IsRequest(pending)
    BY <1>4, <1>w DEF RetryTimer, RetryClick, TimerIsOfRequest, OnPage
  <2>2. pending' = [pending EXCEPT !.retrying = FALSE] /\ UNCHANGED <<entries, at>>
    BY <1>4 DEF RetryTimer, RetryClick, LoadAgain
  <2> QED
    BY <2>1, <2>2, RequestKept, Zenon
<1>5. CASE OpenFile
  <2>1. entries' = SubSeq(entries, 1, at) /\ UNCHANGED <<pending, at>>
    BY <1>5, <1>v DEF OpenFile, reading
  <2>2. Location' = Location
    BY <1>v, <2>1 DEF Location, Inside
  <2> QED
    BY <1>v, <2>1, <2>2, DropStep DEF Traversed
<1>6. CASE ReturnKept
  <2>1. Navigate(Location, TRUE, TRUE, cache, entries, at)
    BY <1>6 DEF ReturnKept
  <2> QED
    BY <1>l, <1>v, <1>w, <2>1, NavigateStep DEF Location
<1>7. CASE ReturnLoaded
  <2>1. UNCHANGED <<entries, at>>
    BY <1>7 DEF ReturnLoaded
  <2>2. CASE pending' = None
    BY <2>1, <2>2, SameHistory DEF Traversed
  <2>3. CASE pending' = Request(Location, TRUE)
    <3>1. pending'.url = Location /\ Location' = Location
      BY <1>l, <2>1, <2>3, RequestMade DEF Location
    <3> QED
      BY <2>1, <3>1, SameHistory DEF Traversed
  <2> QED
    BY <1>7, <2>2, <2>3 DEF ReturnLoaded
<1>8. ASSUME NEW w \in writes, WriteAnswered(w)
      PROVE  Traversed' /\ HistoryStep
  BY <1>8, <1>w, ChangedStep DEF WriteAnswered
<1>9. ASSUME NEW w \in writes, WriteFails(w)
      PROVE  Traversed' /\ HistoryStep
  BY <1>9, <1>w, ChangedStep, PlaceKept DEF WriteFails, reading
<1>10. CASE ReadSucceeds
  <2>1. pending # None /\ pending.url \in Urls /\ Commit(pending, entries, at) /\ pending' = None
    BY <1>10, <1>p DEF ReadSucceeds, Answered, Idle
  <2>2. pending.committed \/ pending.history => entries[at] = pending.url
    BY <2>1 DEF Traversed, Location
  <2>3. HistoryStep
    BY <1>v, <2>1, <2>2, CommitStep
  <2> QED
    BY <2>1, <2>3 DEF Traversed
<1>11. CASE ReadLost
  <2>1. pending # None /\ IsRequest(pending)
    BY <1>11, <1>p DEF ReadLost, Answered, Idle
  <2>2. pending' = [pending EXCEPT !.retrying = TRUE] /\ UNCHANGED <<entries, at>>
    BY <1>11 DEF ReadLost
  <2> QED
    BY <2>1, <2>2, RequestKept, Zenon
<1>12. CASE ReadFindsFile
  <2>1. pending' = None /\ UNCHANGED at
    BY <1>12 DEF ReadFindsFile
  <2>2. entries' = entries \/ entries' = SubSeq(entries, 1, at)
    BY <1>12 DEF ReadFindsFile
  <2>3. HistoryStep
    BY <1>v, <2>2, SameHistory, DropStep
  <2> QED
    BY <2>1, <2>3 DEF Traversed
<1>13. CASE StartWrite
  BY <1>13, PlaceKept DEF StartWrite, reading
<1>14. CASE VisibilityChange \/ Read \/ ReadRefused \/ ReadFails \/ LateIgnored
  BY <1>14, PlaceKept DEF VisibilityChange, Read, ReadRefused, ReadFails, LateIgnored
<1>15. ASSUME NEW w \in writes, WriteApplies(w)
       PROVE  Traversed' /\ HistoryStep
  BY <1>15, PlaceKept DEF WriteApplies, reading
<1>16. ASSUME NEW f \in Folders, OtherWrite(f)
       PROVE  Traversed' /\ HistoryStep
  BY <1>16, PlaceKept DEF OtherWrite, reading
<1>17. CASE UNCHANGED vars
  BY <1>17, PlaceKept DEF vars
<1> QED
  BY <1>1, <1>2, <1>3, <1>4, <1>5, <1>6, <1>7, <1>8, <1>9, <1>10, <1>11, <1>12, <1>13, <1>14, <1>15,
     <1>16, <1>17 DEF Next, User, Server, Arrive

\* No step changes the URL of an entry the user can go back or forward to.
THEOREM HistoryIsKept == Spec => HistoryKept
<1>1. Init => Traversed
  BY DEF Init, Traversed
<1>2. Spec => [](IInv /\ Traversed)
  BY Invariant, NextHistory, <1>1, PTL DEF Spec
<1>3. IInv /\ Traversed /\ [Next]_vars
        => [\A i \in 1..Len(entries) :
               i <= Len(entries') /\ entries'[i] # entries[i] => i = at' /\ at' = at + 1]_vars
  BY NextHistory DEF HistoryStep
<1>4. QED
  BY <1>2, <1>3, PTL DEF Spec, HistoryKept

-----------------------------------------------------------------------------
(***************************************************************************)
(* Without: what it leaves of a cache, by induction over the cache.        *)
(***************************************************************************)
\* A set of numbers has a least one: the order of the numbers is well-founded.
LEMMA Least ==
    ASSUME NEW T \in SUBSET Nat, T # {}
    PROVE  \E n \in T : \A m \in T : n <= m
<1>1. \E x \in T : \A y \in T : ~(<<y, x>> \in OpToRel(<, Nat))
  BY WFMin, NatLessThanWellFounded, Zenon
<1>2. PICK x \in T : \A y \in T : ~(<<y, x>> \in OpToRel(<, Nat))
  BY <1>1
<1>3. \A y \in T : ~(y < x)
  BY <1>2 DEF OpToRel
<1> QED
  BY <1>3

\* Induction over the numbers, for a set of them.
LEMMA SetInduction ==
    ASSUME NEW T \in SUBSET Nat, 0 \in T, \A n \in T : n + 1 \in T
    PROVE  T = Nat
<1> SUFFICES ASSUME Nat \ T # {}
             PROVE  FALSE
  OBVIOUS
<1>1. PICK n \in Nat \ T : \A m \in Nat \ T : n <= m
  BY Least
<1> QED
  BY <1>1

\* One step of Without.
KeptStep(c, gone, g, i) ==
    IF i = 0 THEN <<>>
    ELSE IF c[i].url \in gone THEN g[i - 1] ELSE Append(g[i - 1], c[i])

\* Up to any n there is a function that takes these steps.
LEMMA KeptExists ==
    ASSUME NEW c, NEW gone, NEW n \in Nat
    PROVE  \E g : g = [i \in 0..n |-> KeptStep(c, gone, g, i)]
<1> DEFINE T == {m \in Nat : \E g : g = [i \in 0..m |-> KeptStep(c, gone, g, i)]}
<1>1. 0 \in T
  <2> DEFINE g == [i \in 0..0 |-> <<>>]
  <2>1. g = [i \in 0..0 |-> KeptStep(c, gone, g, i)]
    BY DEF KeptStep
  <2> QED
    BY <2>1
<1>2. ASSUME NEW m \in T
      PROVE  m + 1 \in T
  <2>1. PICK g : g = [i \in 0..m |-> KeptStep(c, gone, g, i)]
    OBVIOUS
  <2> DEFINE h == [i \in 0..(m + 1) |-> IF i <= m THEN g[i] ELSE KeptStep(c, gone, g, i)]
  <2>2. \A i \in 0..(m + 1) : KeptStep(c, gone, h, i) = KeptStep(c, gone, g, i)
    <3> TAKE i \in 0..(m + 1)
    <3>1. i # 0 => i - 1 \in 0..(m + 1) /\ i - 1 <= m
      OBVIOUS
    <3>2. i # 0 => h[i - 1] = g[i - 1]
      BY <3>1
    <3> QED
      BY <3>2 DEF KeptStep
  <2>3. \A i \in 0..(m + 1) : i <= m => i \in 0..m
    OBVIOUS
  <2>4. \A i \in 0..m : g[i] = KeptStep(c, gone, g, i)
    BY <2>1
  <2>5. \A i \in 0..(m + 1) : h[i] = KeptStep(c, gone, h, i)
    BY <2>2, <2>3, <2>4
  <2>6. h = [i \in 0..(m + 1) |-> KeptStep(c, gone, h, i)]
    BY <2>5
  <2>7. m + 1 \in Nat
    OBVIOUS
  <2> QED
    BY <2>6, <2>7
<1>3. T = Nat
  <2> HIDE DEF T
  <2>1. T \in SUBSET Nat
    BY DEF T
  <2> QED
    BY <1>1, <1>2, <2>1, SetInduction
<1> QED
  BY <1>3

\* Without is the last of its steps.
LEMMA WithoutSteps ==
    ASSUME NEW c, NEW gone, Len(c) \in Nat
    PROVE  \E g : /\ Without(c, gone) = g[Len(c)]
                  /\ \A i \in 0..Len(c) : g[i] = KeptStep(c, gone, g, i)
<1> DEFINE g == CHOOSE g : g = [i \in 0..Len(c) |-> KeptStep(c, gone, g, i)]
<1>1. g = [i \in 0..Len(c) |-> KeptStep(c, gone, g, i)]
  BY KeptExists
<1>2. Without(c, gone) = g[Len(c)]
  BY DEF Without, KeptStep
<1> QED
  <2> HIDE DEF g
  <2> QED BY <1>1, <1>2

\* At most one listing of each URL, as in a Map.
OneEach(c) == \A i, j \in 1..Len(c) : c[i].url = c[j].url => i = j

\* What is left of a cache.
LEMMA WithoutLeaves ==
    ASSUME NEW S, NEW c \in Seq(S), NEW gone
    PROVE  /\ Without(c, gone) \in Seq({e \in S : e.url \notin gone})
           /\ Len(Without(c, gone)) <= Len(c)
           /\ OneEach(c) => OneEach(Without(c, gone))
<1> DEFINE R == {e \in S : e.url \notin gone}
<1>1. Len(c) \in Nat /\ \A i \in 1..Len(c) : c[i] \in S
  OBVIOUS
<1>2. PICK g : /\ Without(c, gone) = g[Len(c)]
               /\ \A i \in 0..Len(c) : g[i] = KeptStep(c, gone, g, i)
  BY <1>1, WithoutSteps
<1> DEFINE Fine(i) ==
               /\ g[i] \in Seq(R)
               /\ Len(g[i]) <= i
               /\ \A j \in 1..Len(g[i]) : \E k \in 1..i : g[i][j].url = c[k].url
               /\ OneEach(c) => OneEach(g[i])
           T == {i \in Nat : i <= Len(c) => Fine(i)}
<1>3. 0 \in T
  <2>1. g[0] = <<>>
    BY <1>1, <1>2 DEF KeptStep
  <2>2. g[0] \in Seq(R) /\ Len(g[0]) = 0 /\ 1..0 = {}
    BY <2>1
  <2>3. Fine(0)
    BY <2>2 DEF OneEach
  <2> HIDE DEF Fine
  <2> QED
    BY <2>3
<1>4. ASSUME NEW n \in T
      PROVE  n + 1 \in T
  <2> SUFFICES ASSUME n + 1 <= Len(c)
               PROVE  Fine(n + 1)
    OBVIOUS
  <2>1. n \in Nat /\ n + 1 \in 1..Len(c) /\ n + 1 \in 0..Len(c) /\ (n + 1) - 1 = n /\ n + 1 # 0
    BY <1>1
  <2>2. Fine(n)
    BY <1>1, <2>1
  <2>3. g[n + 1] = IF c[n + 1].url \in gone THEN g[n] ELSE Append(g[n], c[n + 1])
    BY <1>2, <2>1 DEF KeptStep
  <2>4. CASE c[n + 1].url \in gone
    BY <2>1, <2>2, <2>3, <2>4
  <2>5. CASE c[n + 1].url \notin gone
    <3> DEFINE b == g[n]
               e == c[n + 1]
               a == Append(b, e)
    <3>1. g[n + 1] = a /\ e \in R
      BY <1>1, <2>1, <2>3, <2>5
    <3>2. b \in Seq(R) /\ Len(b) <= n /\ Len(b) \in Nat
      BY <2>2
    <3>3. /\ a \in Seq(R) /\ Len(a) = Len(b) + 1 /\ a[Len(b) + 1] = e
          /\ \A j \in 1..Len(b) : a[j] = b[j]
      <4> HIDE DEF b, e, R
      <4> QED BY <3>1, <3>2
    <3>4. \A j \in 1..Len(b) : \E k \in 1..n : b[j].url = c[k].url
      BY <2>2
    <3>5. Len(a) <= n + 1 /\ \A j \in 1..Len(a) : j \in 1..Len(b) \/ j = Len(b) + 1
      BY <2>1, <3>2, <3>3
    <3>6. \A j \in 1..Len(a) : \E k \in 1..(n + 1) : a[j].url = c[k].url
      <4>1. \A k \in 1..n : k \in 1..(n + 1)
        BY <2>1
      <4>2. n + 1 \in 1..(n + 1)
        BY <2>1
      <4> HIDE DEF a, b
      <4> QED BY <3>3, <3>4, <3>5, <4>1, <4>2
    <3>7. ASSUME OneEach(c)
          PROVE  OneEach(a)
      <4>1. \A j \in 1..Len(b) : b[j].url # e.url
        <5> TAKE j \in 1..Len(b)
        <5>1. PICK k \in 1..n : b[j].url = c[k].url
          BY <3>4
        <5>2. k \in 1..Len(c) /\ k # n + 1
          BY <1>1, <2>1
        <5> QED
          BY <2>1, <3>7, <5>1, <5>2 DEF OneEach
      <4>2. OneEach(b)
        BY <2>2, <3>7
      <4> HIDE DEF a, b, e
      <4> QED BY <3>3, <3>5, <4>1, <4>2 DEF OneEach
    <3> QED
      <4> HIDE DEF a, R
      <4> QED BY <3>1, <3>3, <3>5, <3>6, <3>7
  <2> QED
    BY <2>4, <2>5
<1>5. T = Nat
  <2> HIDE DEF T
  <2>1. T \in SUBSET Nat
    BY DEF T
  <2> QED
    BY <1>3, <1>4, <2>1, SetInduction
<1>6. Len(c) \in T
  BY <1>1, <1>5
<1>7. Fine(Len(c))
  BY <1>1, <1>6
<1> QED
  BY <1>2, <1>7

-----------------------------------------------------------------------------
(***************************************************************************)
(* The types, the bounds and the cache.                                    *)
(***************************************************************************)
Views == [url : Urls, version : 0..(MaxWrites + 1), inert : BOOLEAN, error : BOOLEAN]
Requests == [url : Urls, history : BOOLEAN, committed : BOOLEAN, retrying : BOOLEAN]

\* Listings no older than the versions a of the folders.
FreshListings(a) == {e \in [url : Urls, version : 0..(MaxWrites + 1)] : e.version >= a[PathOf(e.url)]}
CacheSound(c, a) == c \in Seq(FreshListings(a)) /\ Len(c) <= MaxEntries /\ OneEach(c)

Versions ==
    /\ contents \in [Folders -> 1..(MaxWrites + 1)]
    /\ writes \subseteq [path : Folders, version : 0..(MaxWrites + 1)]
    /\ faults \in 0..MaxFaults

Shown ==
    /\ page \in {"shown", "kept", "lost"}
    /\ hidden \in BOOLEAN /\ timer \in BOOLEAN
    /\ view \in Views
    /\ pending = None \/ pending \in Requests
    /\ flight.version \in 0..(MaxWrites + 1)

\* A request that will push an entry has room for it.
Room ==
    /\ Len(entries) <= MaxHistory
    /\ pending # None /\ ~pending.history /\ ~pending.committed
         => at < MaxHistory \/ Location = pending.url

Bounded == Versions /\ Shown /\ Room /\ CacheSound(cache, acked)

\* The cache without some URLs, with one more listing at its end, the oldest gone.
LEMMA WithoutSound ==
    ASSUME NEW c, NEW a, CacheSound(c, a), NEW gone
    PROVE  CacheSound(Without(c, gone), a)
<1> DEFINE F == FreshListings(a)
<1>1. c \in Seq(F) /\ Len(c) <= MaxEntries /\ OneEach(c) /\ Len(c) \in Nat
  BY DEF CacheSound
<1>2. /\ Without(c, gone) \in Seq({e \in F : e.url \notin gone})
      /\ Len(Without(c, gone)) <= Len(c) /\ OneEach(Without(c, gone))
  <2> HIDE DEF F
  <2> QED BY <1>1, WithoutLeaves
<1>3. Without(c, gone) \in Seq(F) /\ Len(Without(c, gone)) \in Nat
  <2> HIDE DEF F
  <2> QED BY <1>2
<1> QED
  BY <1>1, <1>2, <1>3, NavigationAssumption DEF CacheSound

LEMMA CacheSetSound ==
    ASSUME NEW c, NEW a, CacheSound(c, a), NEW u \in Urls, NEW v \in 0..(MaxWrites + 1),
           v >= a[PathOf(u)]
    PROVE  CacheSound(CacheSet(c, u, v), a)
<1> DEFINE F == FreshListings(a)
           b == CacheDelete(c, u)
           e == [url |-> u, version |-> v]
           d == Append(b, e)
<1>1. e \in F /\ e.url = u
  BY DEF FreshListings
<1>2. b \in Seq({x \in F : x.url \notin {u}})
  <2>1. c \in Seq(F)
    BY DEF CacheSound
  <2> HIDE DEF F
  <2> QED BY <2>1, WithoutLeaves DEF CacheDelete
<1>3. CacheSound(b, a)
  BY WithoutSound DEF CacheDelete
<1>4. b \in Seq(F) /\ Len(b) \in Nat /\ Len(b) <= MaxEntries /\ OneEach(b)
  BY <1>3 DEF CacheSound
<1>5. \A j \in 1..Len(b) : b[j].url # u
  <2> HIDE DEF F, b
  <2> QED BY <1>2
<1>6. /\ d \in Seq(F) /\ Len(d) = Len(b) + 1 /\ d[Len(b) + 1] = e
      /\ \A j \in 1..Len(b) : d[j] = b[j]
  <2> HIDE DEF F, b, e
  <2> QED BY <1>1, <1>4
<1>7. \A j \in 1..Len(d) : j \in 1..Len(b) \/ j = Len(b) + 1
  BY <1>4, <1>6
<1>8. OneEach(d)
  <2> HIDE DEF F, b, e, d
  <2> QED BY <1>1, <1>4, <1>5, <1>6, <1>7 DEF OneEach
<1>9. CASE Len(d) > MaxEntries
  <2>1. /\ Tail(d) \in Seq(F) /\ Len(Tail(d)) = Len(b)
        /\ \A j \in 1..Len(b) : Tail(d)[j] = d[j + 1] /\ j + 1 \in 1..Len(d)
    <3> HIDE DEF F, d, b
    <3> QED BY <1>4, <1>6
  <2>2. OneEach(Tail(d))
    <3>1. SUFFICES ASSUME NEW j \in 1..Len(b), NEW k \in 1..Len(b),
                          Tail(d)[j].url = Tail(d)[k].url
                   PROVE  j = k
      BY <2>1 DEF OneEach
    <3>2. d[j + 1].url = d[k + 1].url /\ j + 1 \in 1..Len(d) /\ k + 1 \in 1..Len(d)
      <4> HIDE DEF d, b
      <4> QED BY <2>1, <3>1
    <3>3. j + 1 = k + 1
      <4> HIDE DEF d, b
      <4> QED BY <1>8, <3>2 DEF OneEach
    <3> QED
      BY <1>4, <3>3
  <2>3. CacheSet(c, u, v) = Tail(d)
    BY <1>9 DEF CacheSet
  <2> QED
    <3> HIDE DEF d, b
    <3> QED BY <1>4, <2>1, <2>2, <2>3 DEF CacheSound
<1>10. CASE ~(Len(d) > MaxEntries)
  <2>1. CacheSet(c, u, v) = d
    BY <1>10 DEF CacheSet
  <2>2. Len(d) <= MaxEntries
    <3> HIDE DEF d, b
    <3> QED BY <1>4, <1>6, <1>10, NavigationAssumption
  <2> QED
    <3> HIDE DEF d
    <3> QED BY <1>6, <1>8, <2>1, <2>2 DEF CacheSound
<1> QED
  BY <1>9, <1>10

\* A listing that was found is one of the cache.
LEMMA HitSound ==
    ASSUME NEW c, NEW a, CacheSound(c, a), NEW u, NEW n \in Hits(c, u)
    PROVE  /\ c[n].version \in 0..(MaxWrites + 1) /\ c[n].version >= a[PathOf(u)]
<1>1. c[n] \in FreshListings(a) /\ c[n].url = u
  BY DEF CacheSound, Hits
<1> QED
  BY <1>1 DEF FreshListings

\* Only what is known of folder f grows: without its listings the cache is sound.
LEMMA InvalidateSound ==
    ASSUME NEW c, NEW a, NEW b, CacheSound(c, a), NEW f,
           \A g \in Folders \ {f} : b[g] = a[g]
    PROVE  CacheSound(InvalidatePath(c, f), b)
<1> DEFINE F == FreshListings(a)
           G == FreshListings(b)
           gone == {f} \X Orders
           R == {e \in F : e.url \notin gone}
<1>1. c \in Seq(F)
  BY DEF CacheSound
<1>2. Without(c, gone) \in Seq(R)
  <2> HIDE DEF F, gone
  <2> QED BY <1>1, WithoutLeaves
<1>3. R \subseteq G
  <2>1. SUFFICES ASSUME NEW e \in F, e.url \notin gone
                 PROVE  e \in G
    OBVIOUS
  <2>2. e.url \in Urls /\ PathOf(e.url) \in Folders \ {f}
    BY <2>1 DEF FreshListings, Urls, PathOf
  <2> QED
    BY <2>2 DEF FreshListings
<1>4. Without(c, gone) \in Seq(G)
  <2> HIDE DEF R, G
  <2> QED BY <1>2, <1>3
<1>5. CacheSound(Without(c, gone), a)
  BY WithoutSound
<1> QED
  BY <1>4, <1>5 DEF CacheSound, InvalidatePath

\* navigate, from a sound cache c and an entry with room for a new one after it.
LEMMA NavigateBounded ==
    ASSUME OnPage, Shown, Len(entries) <= MaxHistory,
           NEW u \in Urls, NEW force, NEW history \in BOOLEAN, NEW c, NEW a, CacheSound(c, a),
           NEW i, Inside(entries, i), ~history => i < MaxHistory \/ entries[i] = u,
           Navigate(u, force, history, c, entries, i),
           page' \in {"shown", "kept", "lost"}, hidden' \in BOOLEAN
    PROVE  Shown' /\ Room' /\ CacheSound(cache', a)
<1> DEFINE r == Request(u, history)
<1>1. /\ r \in Requests /\ r.url = u /\ r.history = history /\ ~r.committed
      /\ [r EXCEPT !.committed = TRUE] \in Requests /\ [r EXCEPT !.committed = TRUE].committed
  BY DEF Request, Requests
<1>2. flight' = Asked /\ timer' = FALSE /\ flight'.version = 0 /\ 0 \in 0..(MaxWrites + 1)
  BY NavigationAssumption DEF Navigate, Asked
<1>3. ASSUME NavigateCached(r, c, entries, i)
      PROVE  Shown' /\ Room' /\ CacheSound(cache', a)
  <2>1. PICK n \in Hits(c, r.url) :
               /\ view' = [Listing(r.url, c[n].version) EXCEPT !.inert = TRUE]
               /\ cache' = CacheSet(c, r.url, c[n].version)
               /\ Commit(r, entries, i)
               /\ pending' = [r EXCEPT !.committed = TRUE]
    BY <1>3 DEF NavigateCached
  <2>2. c[n].version \in 0..(MaxWrites + 1) /\ c[n].version >= a[PathOf(u)]
    BY <1>1, HitSound
  <2>3. view' \in Views
    <3> DEFINE v == c[n].version
    <3>1. v \in 0..(MaxWrites + 1) /\ view' = [Listing(u, v) EXCEPT !.inert = TRUE]
      BY <1>1, <2>1, <2>2
    <3> HIDE DEF v
    <3> QED BY <3>1 DEF Listing, Views
  <2>4. CacheSound(cache', a)
    BY <1>1, <2>1, <2>2, CacheSetSound
  <2>5. pending' \in Requests /\ pending'.committed
    BY <1>1, <2>1
  <2>6. Len(entries') <= MaxHistory
    <3>1. CASE history \/ entries[i] = u
      <4>1. entries' = [entries EXCEPT ![i] = u]
        <5> HIDE DEF r
        <5> QED BY <1>1, <2>1, <3>1 DEF Commit
      <4> QED
        BY <4>1 DEF Inside
    <3>2. CASE ~(history \/ entries[i] = u)
      <4>1. entries' = Append(SubSeq(entries, 1, i), u) /\ i < MaxHistory
        <5> HIDE DEF r
        <5> QED BY <1>1, <2>1, <3>2 DEF Commit
      <4>2. SubSeq(entries, 1, i) \in Seq(Urls) /\ Len(SubSeq(entries, 1, i)) = i /\ i \in Nat
        BY DEF Inside
      <4>3. Len(entries') = i + 1
        BY <4>1, <4>2
      <4> QED
        BY <4>1, <4>2, <4>3, NavigationAssumption
    <3> QED
      BY <3>1, <3>2
  <2> QED
    BY <1>2, <2>3, <2>4, <2>5, <2>6 DEF Shown, Room
<1>4. ASSUME NavigateUncached(r, force, c, entries, i)
      PROVE  Shown' /\ Room' /\ CacheSound(cache', a)
  <2>1. /\ cache' = IF force THEN c ELSE CacheDelete(c, r.url)
        /\ entries' = entries /\ at' = i /\ pending' = r /\ view' = view
    BY <1>4 DEF NavigateUncached
  <2>2. CacheSound(cache', a)
    BY <2>1, WithoutSound DEF CacheDelete
  <2>3. pending' \in Requests /\ pending'.history = history /\ pending'.url = u
    <3> HIDE DEF r
    <3> QED BY <1>1, <2>1
  <2>4. Room'
    BY <2>1, <2>3 DEF Room, Location
  <2> QED
    BY <1>2, <2>1, <2>2, <2>3, <2>4 DEF Shown
<1> QED
  BY <1>3, <1>4 DEF Navigate

\* The page, its request, its read, its cache and its history as they were.
LEMMA PageBounded ==
    ASSUME Bounded, UNCHANGED <<view, pending, cache, entries, at, acked>>,
           page' \in {"shown", "kept", "lost"}, hidden' \in BOOLEAN, timer' \in BOOLEAN,
           flight'.version \in 0..(MaxWrites + 1)
    PROVE  Shown' /\ Room' /\ CacheSound(cache', acked')
<1>1. Location' = Location
  BY DEF Location
<1> QED
  BY <1>1 DEF Bounded, Shown, Room

LEMMA VersionsKept ==
    ASSUME Versions, UNCHANGED <<contents, faults>>, writes' \subseteq writes
    PROVE  Versions'
  BY DEF Versions

\* One more fault, while there may be one.
LEMMA FaultsBounded ==
    ASSUME Versions, UNCHANGED contents, writes' \subseteq writes,
           UNCHANGED faults \/ (faults < MaxFaults /\ faults' = faults + 1)
    PROVE  Versions'
  BY NavigationAssumption DEF Versions

\* changed, after the versions of folder f may have grown to those of a.
LEMMA ChangedBounded ==
    ASSUME IInv, Bounded, page = "shown", NEW f \in Folders, Changed(f),
           UNCHANGED <<page, hidden>>, NEW a, \A g \in Folders \ {f} : a[g] = acked[g]
    PROVE  Shown' /\ Room' /\ CacheSound(cache', a)
<1> DEFINE c == InvalidatePath(cache, f)
<1>1. /\ OnPage /\ Shown /\ Room /\ Len(entries) <= MaxHistory /\ Inside(entries, at)
      /\ Remember = entries /\ page' \in {"shown", "kept", "lost"} /\ hidden' \in BOOLEAN
  BY RememberSame DEF IInv, Bounded, OnPage, Room, Shown
<1>2. CacheSound(c, a)
  BY InvalidateSound DEF Bounded
<1>3. CASE pending # None /\ PathOf(pending.url) = f
  <2> DEFINE history == pending.history \/ pending.committed
  <2>1. Navigate(pending.url, TRUE, history, c, IF history THEN entries ELSE Remember, at)
    BY <1>3 DEF Changed
  <2>2. Navigate(pending.url, TRUE, history, c, entries, at)
    <3> HIDE DEF history, c
    <3> QED BY <1>1, <2>1
  <2>3. pending.url \in Urls /\ history \in BOOLEAN
    BY <1>1, <1>3 DEF Shown, Requests
  <2>4. ~history => at < MaxHistory \/ entries[at] = pending.url
    BY <1>1, <1>3 DEF Room, Location
  <2> QED
    <3> HIDE DEF history, c
    <3> QED BY <1>1, <1>2, <2>2, <2>3, <2>4, NavigateBounded
<1>4. CASE pending = None /\ PathOf(view.url) = f
  <2>1. Navigate(view.url, TRUE, FALSE, c, entries, at)
    BY <1>1, <1>4 DEF Changed
  <2>2. view.url \in Urls /\ entries[at] = view.url
    BY <1>1, <1>4 DEF Shown, Views, IInv, ViewSettled, Location
  <2> QED
    <3> HIDE DEF c
    <3> QED BY <1>1, <1>2, <2>1, <2>2, NavigateBounded
<1>5. CASE /\ ~(pending # None /\ PathOf(pending.url) = f)
           /\ ~(pending = None /\ PathOf(view.url) = f)
  <2>1. cache' = c /\ UNCHANGED <<view, pending, flight, timer, entries, at>>
    BY <1>5 DEF Changed, reading
  <2>2. Location' = Location
    BY <2>1 DEF Location
  <2> QED
    BY <1>1, <1>2, <2>1, <2>2 DEF Shown, Room
<1> QED
  BY <1>3, <1>4, <1>5

LEMMA InitBounded == Init => Bounded
<1> SUFFICES ASSUME NEW u \in Urls,
                    /\ contents = [f \in Folders |-> 1] /\ writes = {} /\ faults = 0
                    /\ page = "shown" /\ hidden = FALSE /\ view = Listing(u, 1)
                    /\ cache = <<[url |-> u, version |-> 1]>> /\ pending = None /\ flight = Idle
                    /\ timer = FALSE /\ entries = <<u>> /\ at = 1 /\ acked = [f \in Folders |-> 1]
             PROVE  Bounded
  BY DEF Init
<1>1. Versions
  BY NavigationAssumption DEF Versions
<1>2. Shown
  <2>1. Listing(u, 1) \in Views
    BY NavigationAssumption DEF Listing, Views
  <2>2. flight.version = 0 /\ 0 \in 0..(MaxWrites + 1)
    BY NavigationAssumption DEF Idle
  <2> QED
    BY <2>1, <2>2 DEF Shown
<1>3. Room
  BY NavigationAssumption DEF Room
<1>4. CacheSound(cache, acked)
  <2> DEFINE e == [url |-> u, version |-> 1]
  <2>1. e \in FreshListings(acked)
    BY PathIsFolder, NavigationAssumption DEF FreshListings
  <2>2. cache = <<e>>
    OBVIOUS
  <2> HIDE DEF e
  <2> QED BY <2>1, <2>2, NavigationAssumption DEF CacheSound, OneEach
<1> QED
  BY <1>1, <1>2, <1>3, <1>4 DEF Bounded

LEMMA NextBounded == IInv /\ Bounded /\ [Next]_vars => Bounded'
<1> SUFFICES ASSUME IInv, Bounded, [Next]_vars
             PROVE  Bounded'
  OBVIOUS
<1>w. Written /\ OnPage /\ ReadFresh /\ TimerIsOfRequest /\ ViewSettled
  BY DEF IInv
<1>b. Versions /\ Shown /\ Room /\ CacheSound(cache, acked) /\ Len(entries) <= MaxHistory
  BY DEF Bounded, Room
<1>v. /\ view.url \in Urls /\ Inside(entries, at) /\ Remember = entries /\ view \in Views
      /\ hidden \in BOOLEAN /\ timer \in BOOLEAN /\ flight.version \in 0..(MaxWrites + 1)
  BY <1>w, <1>b, RememberSame DEF OnPage, IsListing, Shown
<1>l. Location \in Urls /\ (\A i \in 1..Len(entries) : entries[i] \in Urls)
  BY <1>v DEF Inside, Location
<1>p. flight # Idle => pending # None /\ pending \in Requests /\ pending.url \in Urls
  BY <1>w, <1>b DEF ReadFresh, Shown, Requests
<1>c. \A f \in Folders : contents[f] \in 1..(MaxWrites + 1)
  BY <1>b DEF Versions
<1>0. 0 \in 0..(MaxWrites + 1)
  BY NavigationAssumption
<1>1. ASSUME NEW u \in Urls, Click(u)
      PROVE  Bounded'
  <2>1. /\ Navigate(u, FALSE, FALSE, cache, entries, at) /\ at < MaxHistory
        /\ page' = "shown" /\ hidden' = hidden /\ acked' = acked
    BY <1>1, <1>v DEF Click
  <2>2. Shown' /\ Room' /\ CacheSound(cache', acked')
    BY <1>b, <1>v, <1>w, <2>1, NavigateBounded
  <2> QED
    BY <1>1, <1>b, <2>2, VersionsKept DEF Click, server, Bounded
<1>2. CASE Refresh
  <2>1. /\ Navigate(view.url, TRUE, FALSE, cache, entries, at) /\ at < MaxHistory
        /\ page' = "shown" /\ hidden' = hidden /\ acked' = acked
    BY <1>2, <1>v DEF Refresh
  <2>2. Shown' /\ Room' /\ CacheSound(cache', acked')
    BY <1>b, <1>v, <1>w, <2>1, NavigateBounded
  <2> QED
    BY <1>2, <1>b, <2>2, VersionsKept DEF Refresh, server, Bounded
<1>3. ASSUME NEW i \in 1..MaxHistory, Traverse(i)
      PROVE  Bounded'
  <2>1. /\ i \in 1..Len(entries) /\ Inside(entries, i) /\ entries[i] \in Urls
        /\ Navigate(entries[i], FALSE, TRUE, cache, entries, i)
        /\ page' = "shown" /\ hidden' = hidden /\ acked' = acked
    BY <1>3, <1>v, <1>l DEF Traverse, Inside
  <2>2. Shown' /\ Room' /\ CacheSound(cache', acked')
    BY <1>b, <1>v, <1>w, <2>1, NavigateBounded
  <2> QED
    BY <1>3, <1>b, <2>2, VersionsKept DEF Traverse, server, Bounded
<1>4. CASE RetryTimer \/ RetryClick
  <2>1. /\ pending # None /\ pending \in Requests
        /\ pending' = [pending EXCEPT !.retrying = FALSE] /\ flight' = Asked /\ timer' = FALSE
        /\ UNCHANGED <<server, writes, page, hidden, view, cache, entries, at, acked>>
    BY <1>4, <1>w, <1>b DEF RetryTimer, RetryClick, LoadAgain, TimerIsOfRequest, Shown
  <2>2. /\ pending' \in Requests /\ pending'.history = pending.history
        /\ pending'.committed = pending.committed /\ pending'.url = pending.url
    BY <2>1 DEF Requests
  <2>3. Room'
    BY <1>b, <2>1, <2>2 DEF Room, Location
  <2>4. Shown'
    BY <1>0, <1>b, <2>1, <2>2 DEF Shown, Asked
  <2> QED
    BY <1>b, <2>1, <2>3, <2>4, VersionsKept DEF Bounded, server
<1>5. CASE OpenFile
  <2>1. /\ entries' = SubSeq(entries, 1, at) /\ page' = "kept"
        /\ UNCHANGED <<contents, faults, writes, hidden, view, cache, pending, flight, timer, at, acked>>
    BY <1>5, <1>v DEF OpenFile, reading, server
  <2>2. Location' = Location /\ Len(entries') <= Len(entries) /\ Len(entries') = at /\ at \in Nat
    BY <1>v, <2>1 DEF Location, Inside
  <2>3. Room'
    BY <1>b, <1>v, <2>1, <2>2, NavigationAssumption DEF Room, Inside
  <2>4. Shown'
    BY <1>b, <2>1 DEF Shown
  <2> QED
    BY <1>b, <2>1, <2>3, <2>4, VersionsKept DEF Bounded
<1>6. CASE ReturnKept
  <2>1. /\ Navigate(Location, TRUE, TRUE, cache, entries, at)
        /\ page' = "shown" /\ hidden' = hidden /\ acked' = acked
    BY <1>6 DEF ReturnKept
  <2>2. Shown' /\ Room' /\ CacheSound(cache', acked')
    BY <1>b, <1>v, <1>w, <1>l, <2>1, NavigateBounded
  <2> QED
    BY <1>6, <1>b, <2>2, VersionsKept DEF ReturnKept, server, Bounded
<1>7. CASE ReturnLoaded
  <2> DEFINE v == contents[PathOf(Location)]
             e == [url |-> Location, version |-> v]
  <2>1. /\ page' = "shown" /\ writes' = {} /\ timer' = FALSE
        /\ UNCHANGED <<contents, hidden, entries, at, acked>>
    BY <1>7 DEF ReturnLoaded
  <2>2. Versions'
    <3>1. UNCHANGED faults \/ (faults < MaxFaults /\ faults' = faults + 1)
      BY <1>7 DEF ReturnLoaded
    <3>2. UNCHANGED contents /\ writes' \subseteq writes
      BY <2>1
    <3> QED
      BY <1>b, <3>1, <3>2, FaultsBounded
  <2>3. PathOf(Location) \in Folders /\ v \in 1..(MaxWrites + 1) /\ v >= acked[PathOf(Location)]
        /\ v \in 0..(MaxWrites + 1)
    BY <1>l, <1>w, <1>c, PathIsFolder DEF Written
  <2>4. CASE /\ view' = Listing(Location, v) /\ cache' = <<e>>
             /\ pending' = None /\ flight' = Idle
    <3>1. view' \in Views
      <4> HIDE DEF v
      <4> QED BY <1>l, <2>3, <2>4 DEF Views, Listing
    <3>2. e \in FreshListings(acked)
      <4> HIDE DEF v
      <4> QED BY <1>l, <2>3 DEF FreshListings
    <3>3. CacheSound(cache', acked')
      <4>1. cache' = <<e>> /\ acked' = acked
        BY <2>1, <2>4
      <4> HIDE DEF e
      <4> QED BY <3>2, <4>1, NavigationAssumption DEF CacheSound, OneEach
    <3> QED
      BY <1>0, <1>b, <2>1, <2>2, <2>4, <3>1, <3>3 DEF Bounded, Shown, Room, Idle
  <2>5. CASE /\ view' = [Listing(Location, 0) EXCEPT !.error = TRUE] /\ cache' = <<>>
             /\ pending' = Request(Location, TRUE) /\ flight' = Asked
    <3>1. view' \in Views
      BY <1>l, <1>0, <2>5 DEF Views, Listing
    <3>2. pending' \in Requests /\ pending'.history
      BY <1>l, <2>5 DEF Requests, Request
    <3>3. CacheSound(cache', acked')
      BY <2>5, NavigationAssumption DEF CacheSound, OneEach
    <3> QED
      BY <1>0, <1>b, <2>1, <2>2, <2>5, <3>1, <3>2, <3>3 DEF Bounded, Shown, Room, Asked
  <2> QED
    BY <1>7, <2>4, <2>5 DEF ReturnLoaded
<1>8. ASSUME NEW w \in writes, WriteAnswered(w)
      PROVE  Bounded'
  <2>1. /\ page = "shown" /\ Changed(w.path) /\ UNCHANGED <<contents, faults, page, hidden>>
        /\ writes' = writes \ {w}
        /\ acked' = [acked EXCEPT ![w.path] = IF w.version > @ THEN w.version ELSE @]
    BY <1>8 DEF WriteAnswered, server
  <2>2. w.path \in Folders /\ acked \in [Folders -> Nat]
    BY <1>w DEF Written
  <2>3. \A g \in Folders \ {w.path} : acked'[g] = acked[g]
    BY <2>1, <2>2
  <2>4. Shown' /\ Room' /\ CacheSound(cache', acked')
    BY <2>1, <2>2, <2>3, ChangedBounded
  <2> QED
    BY <1>b, <2>1, <2>4, VersionsKept DEF Bounded
<1>9. ASSUME NEW w \in writes, WriteFails(w)
      PROVE  Bounded'
  <2>1. /\ page = "shown" /\ UNCHANGED <<contents, faults, page, hidden, acked>>
        /\ writes' = writes \ {w}
    BY <1>9 DEF WriteFails, server
  <2>2. w.path \in Folders
    BY <1>w DEF Written
  <2>3. CASE Changed(w.path)
    <3>1. Shown' /\ Room' /\ CacheSound(cache', acked)
      BY <2>1, <2>2, <2>3, ChangedBounded
    <3> QED
      BY <1>b, <2>1, <3>1, VersionsKept DEF Bounded
  <2>4. CASE UNCHANGED <<view, cache, reading, entries, at>>
    <3>1. Shown' /\ Room' /\ CacheSound(cache', acked')
      BY <1>b, <2>1, <2>4, PageBounded DEF reading, Shown
    <3> QED
      BY <1>b, <2>1, <3>1, VersionsKept DEF Bounded
  <2> QED
    BY <1>9, <2>3, <2>4 DEF WriteFails
<1>10. ASSUME NEW w \in writes, WriteApplies(w)
       PROVE  Bounded'
  <2>1. /\ w \in [path : Folders, version : 0..(MaxWrites + 1)]
        /\ contents[w.path] <= MaxWrites
        /\ contents' = [contents EXCEPT ![w.path] = @ + 1]
        /\ writes' = (writes \ {w}) \cup {[w EXCEPT !.version = contents[w.path] + 1]}
        /\ UNCHANGED <<faults, page, hidden, view, cache, reading, entries, at, acked>>
    BY <1>10, <1>b DEF WriteApplies, Versions
  <2>2. w.path \in Folders /\ contents[w.path] + 1 \in 1..(MaxWrites + 1)
        /\ contents[w.path] + 1 \in 0..(MaxWrites + 1)
    BY <1>c, <2>1, NavigationAssumption
  <2>3. [w EXCEPT !.version = contents[w.path] + 1] \in [path : Folders, version : 0..(MaxWrites + 1)]
    <3> DEFINE n == contents[w.path] + 1
               V == 0..(MaxWrites + 1)
    <3>1. n \in V /\ w \in [path : Folders, version : V]
      BY <2>1, <2>2
    <3>2. [w EXCEPT !.version = n] \in [path : Folders, version : V]
      <4> HIDE DEF n, V
      <4> QED BY <3>1
    <3> QED BY <3>2
  <2>4. contents' \in [Folders -> 1..(MaxWrites + 1)]
    BY <1>b, <2>1, <2>2 DEF Versions
  <2>5. Versions'
    BY <1>b, <2>1, <2>3, <2>4 DEF Versions
  <2>6. Shown' /\ Room' /\ CacheSound(cache', acked')
    BY <1>b, <2>1, PageBounded DEF reading, Shown
  <2> QED
    BY <2>5, <2>6 DEF Bounded
<1>11. ASSUME NEW f \in Folders, OtherWrite(f)
       PROVE  Bounded'
  <2>1. /\ contents[f] <= MaxWrites
        /\ contents' = [contents EXCEPT ![f] = @ + 1]
        /\ UNCHANGED <<writes, faults, page, hidden, view, cache, reading, entries, at, acked>>
    BY <1>11 DEF OtherWrite
  <2>2. contents[f] + 1 \in 1..(MaxWrites + 1)
    BY <1>c, <2>1, NavigationAssumption
  <2>3. Versions'
    BY <1>b, <2>1, <2>2 DEF Versions
  <2>4. Shown' /\ Room' /\ CacheSound(cache', acked')
    BY <1>b, <2>1, PageBounded DEF reading, Shown
  <2> QED
    BY <2>3, <2>4 DEF Bounded
<1>12. CASE StartWrite
  <2>1. /\ UNCHANGED <<contents, faults, page, hidden, view, cache, reading, entries, at, acked>>
        /\ writes' = writes \cup {[path |-> PathOf(view.url), version |-> 0]}
    BY <1>12 DEF StartWrite, server
  <2>2. Versions'
    BY <1>0, <1>b, <1>v, <2>1, PathIsFolder DEF Versions
  <2>3. Shown' /\ Room' /\ CacheSound(cache', acked')
    BY <1>b, <2>1, PageBounded DEF reading, Shown
  <2> QED
    BY <2>2, <2>3 DEF Bounded
<1>13. CASE VisibilityChange
  <2>1. /\ UNCHANGED <<contents, faults, writes, page, view, cache, pending, flight, entries, at, acked>>
        /\ hidden' \in BOOLEAN /\ timer' \in BOOLEAN
    BY <1>13, <1>v DEF VisibilityChange, server
  <2>2. Shown' /\ Room' /\ CacheSound(cache', acked')
    BY <1>b, <2>1, PageBounded DEF Shown
  <2> QED
    BY <1>b, <2>1, <2>2, VersionsKept DEF Bounded
<1>14. CASE Read
  <2>1. /\ UNCHANGED <<contents, writes, page, hidden, view, cache, pending, timer, entries, at, acked>>
        /\ UNCHANGED faults \/ (faults < MaxFaults /\ faults' = faults + 1)
        /\ flight = Asked
    BY <1>14 DEF Read
  <2>v. flight'.version = contents[PathOf(pending.url)]
    <3>1. CASE flight' = [status |-> "ok", version |-> contents[PathOf(pending.url)]]
      BY <3>1
    <3>2. CASE \E s \in {"lost", "refused", "failed", "file"} :
                  flight' = [status |-> s, version |-> contents[PathOf(pending.url)]]
      BY <3>2
    <3> QED
      BY <1>14, <3>1, <3>2 DEF Read
  <2>2. flight'.version \in 0..(MaxWrites + 1)
    <3>1. PathOf(pending.url) \in Folders
      BY <1>p, <2>1, PathIsFolder DEF Asked, Idle
    <3> QED
      BY <1>c, <2>v, <3>1
  <2>3. Shown' /\ Room' /\ CacheSound(cache', acked')
    BY <1>b, <2>1, <2>2, PageBounded DEF Shown
  <2> QED
    BY <1>b, <2>1, <2>3, FaultsBounded DEF Bounded
<1>15. CASE ReadSucceeds
  <2>1. /\ flight.status = "ok" /\ flight # Idle
        /\ view' = Listing(pending.url, flight.version)
        /\ cache' = CacheSet(cache, pending.url, flight.version)
        /\ Commit(pending, entries, at) /\ pending' = None /\ flight' = Idle
        /\ UNCHANGED <<contents, faults, writes, page, hidden, timer, acked>>
    BY <1>15 DEF ReadSucceeds, Answered, server, Idle
  <2>2. pending # None /\ pending.url \in Urls /\ flight.version >= acked[PathOf(pending.url)]
    BY <1>p, <1>w, <2>1 DEF ReadFresh
  <2>3. CacheSound(cache', acked')
    BY <1>b, <1>v, <2>1, <2>2, CacheSetSound
  <2>4. view' \in Views
    <3> DEFINE v == flight.version
    <3>1. v \in 0..(MaxWrites + 1) /\ view' = Listing(pending.url, v)
      BY <1>v, <2>1
    <3> HIDE DEF v
    <3> QED BY <2>2, <3>1 DEF Listing, Views
  <2>5. Len(entries') <= MaxHistory
    <3>1. CASE pending.committed \/ pending.history \/ entries[at] = pending.url
      <4>1. entries' = [entries EXCEPT ![at] = pending.url]
        BY <2>1, <3>1 DEF Commit
      <4> QED
        BY <1>b, <1>v, <4>1 DEF Inside
    <3>2. CASE ~(pending.committed \/ pending.history \/ entries[at] = pending.url)
      <4>1. entries' = Append(SubSeq(entries, 1, at), pending.url) /\ at < MaxHistory
        BY <1>b, <2>1, <2>2, <3>2 DEF Commit, Room, Location
      <4>2. SubSeq(entries, 1, at) \in Seq(Urls) /\ Len(SubSeq(entries, 1, at)) = at /\ at \in Nat
        BY <1>v DEF Inside
      <4>3. Len(entries') = at + 1
        BY <4>1, <4>2
      <4> QED
        BY <4>1, <4>2, <4>3, NavigationAssumption
    <3> QED
      BY <3>1, <3>2
  <2>6. Versions'
    BY <1>b, <2>1, VersionsKept
  <2>7. Shown'
    BY <1>0, <1>b, <2>1, <2>4 DEF Shown, Idle
  <2> QED
    BY <2>1, <2>3, <2>5, <2>6, <2>7 DEF Bounded, Room
<1>16. CASE ReadLost
  <2>1. /\ flight # Idle /\ cache' = CacheDelete(cache, pending.url)
        /\ pending' = [pending EXCEPT !.retrying = TRUE] /\ flight' = Idle /\ timer' = ~hidden
        /\ UNCHANGED <<contents, faults, writes, page, hidden, view, entries, at, acked>>
    BY <1>16 DEF ReadLost, Answered, server, Idle
  <2>2. /\ pending # None /\ pending' \in Requests /\ pending'.history = pending.history
        /\ pending'.committed = pending.committed /\ pending'.url = pending.url
    BY <1>p, <2>1 DEF Requests
  <2>3. Room'
    BY <1>b, <2>1, <2>2 DEF Room, Location
  <2>4. Shown'
    BY <1>0, <1>b, <2>1, <2>2 DEF Shown, Idle
  <2>5. CacheSound(cache', acked')
    BY <1>b, <2>1, WithoutSound DEF CacheDelete
  <2> QED
    BY <1>b, <2>1, <2>3, <2>4, <2>5, VersionsKept DEF Bounded
<1>17. CASE ReadRefused
  <2>1. /\ cache' = InvalidatePath(cache, PathOf(pending.url))
        /\ view' = IF view.url = pending.url THEN [view EXCEPT !.version = 0] ELSE view
        /\ flight' = Idle /\ timer' = FALSE
        /\ UNCHANGED <<contents, faults, writes, page, hidden, pending, entries, at, acked>>
    BY <1>17 DEF ReadRefused, server
  <2>2. view' \in Views
    BY <1>0, <1>v, <2>1 DEF Views
  <2>3. Room'
    BY <1>b, <2>1 DEF Room, Location
  <2>4. Shown'
    BY <1>0, <1>b, <2>1, <2>2 DEF Shown, Idle
  <2>5. CacheSound(cache', acked')
    BY <1>b, <2>1, InvalidateSound
  <2> QED
    BY <1>b, <2>1, <2>3, <2>4, <2>5, VersionsKept DEF Bounded
<1>18. CASE ReadFails
  <2>1. /\ cache' = CacheDelete(cache, pending.url) /\ flight' = Idle
        /\ UNCHANGED <<contents, faults, writes, page, hidden, view, pending, timer, entries, at, acked>>
    BY <1>18 DEF ReadFails, server
  <2>2. Room'
    BY <1>b, <2>1 DEF Room, Location
  <2>3. Shown'
    BY <1>0, <1>b, <2>1 DEF Shown, Idle
  <2>4. CacheSound(cache', acked')
    BY <1>b, <2>1, WithoutSound DEF CacheDelete
  <2> QED
    BY <1>b, <2>1, <2>2, <2>3, <2>4, VersionsKept DEF Bounded
<1>19. CASE ReadFindsFile
  <2>1. /\ page' \in {"kept", "lost"} /\ entries' \in {entries, SubSeq(entries, 1, at)}
        /\ pending' = None /\ flight' = Idle
        /\ UNCHANGED <<contents, faults, writes, hidden, view, cache, timer, at, acked>>
    BY <1>19 DEF ReadFindsFile, server
  <2>2. Len(entries') <= MaxHistory
    <3>1. Len(SubSeq(entries, 1, at)) = at /\ at <= Len(entries) /\ at \in Nat /\ Len(entries) \in Nat
      BY <1>v DEF Inside
    <3> QED
      BY <1>b, <2>1, <3>1, NavigationAssumption
  <2>3. Shown'
    BY <1>0, <1>b, <2>1 DEF Shown, Idle
  <2> QED
    BY <1>b, <2>1, <2>2, <2>3, VersionsKept DEF Bounded, Room
<1>20. CASE LateIgnored \/ UNCHANGED vars
  <2>1. UNCHANGED <<contents, faults, writes, page, hidden, view, cache, pending, flight, timer,
                    entries, at, acked>>
    BY <1>20 DEF LateIgnored, server, vars
  <2>2. Shown' /\ Room' /\ CacheSound(cache', acked')
    BY <1>b, <2>1, PageBounded DEF Shown
  <2> QED
    BY <1>b, <2>1, <2>2, VersionsKept DEF Bounded
<1> QED
  BY <1>1, <1>2, <1>3, <1>4, <1>5, <1>6, <1>7, <1>8, <1>9, <1>10, <1>11, <1>12, <1>13, <1>14, <1>15,
     <1>16, <1>17, <1>18, <1>19, <1>20 DEF Next, User, Server, Arrive

LEMMA BoundsHold == Spec => [](IInv /\ Bounded)
<1>1. QED
  BY Invariant, InitBounded, NextBounded, PTL DEF Spec

\* Every value is of its type and within its bound: the cache holds no more
\* listings than it may, and one of each URL; no request is read while a timer
\* waits for it.
THEOREM TypesAndBounds == Spec => []TypeOK
<1>1. IInv /\ Bounded => TypeOK
  <2> SUFFICES ASSUME IInv, Bounded
               PROVE  TypeOK
    OBVIOUS
  <2>1. \A i, j \in 1..Len(cache) : cache[i].url = cache[j].url => i = j
    BY DEF Bounded, CacheSound, OneEach
  <2>2. at \in 1..Len(entries) /\ \A i \in 1..Len(entries) : entries[i] \in Urls
    BY DEF IInv, OnPage, Inside
  <2>3. flight # Idle => pending # None /\ ~timer /\ ~pending.retrying
    BY DEF IInv, ReadFresh, TimerIsOfRequest
  <2> QED
    BY <2>1, <2>2, <2>3 DEF TypeOK, Bounded, Versions, Shown, Room, CacheSound, Views, Requests
<1>2. QED
  BY BoundsHold, <1>1, PTL

\* The settled page and the cache: neither shows the user less than a write of
\* this page that was acknowledged.
THEOREM SettledViewHolds == Spec => []SettledView
<1>1. IInv /\ Bounded => SettledView
  <2> SUFFICES ASSUME IInv, Bounded
               PROVE  SettledView
    OBVIOUS
  <2>1. \A i \in 1..Len(cache) : cache[i] \in FreshListings(acked)
    BY DEF Bounded, CacheSound
  <2>2. CacheFresh
    BY <2>1 DEF CacheFresh, FreshListings
  <2> QED
    BY <2>2 DEF SettledView, IInv
<1>2. QED
  BY BoundsHold, <1>1, PTL
=============================================================================
