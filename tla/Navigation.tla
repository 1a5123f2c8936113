----------------------------- MODULE Navigation -----------------------------
(***************************************************************************)
(* The directory page of the browser (internal/web/assets/browser-v2.js)   *)
(* between the user's navigation, its cache of listings, the session       *)
(* history, the reads of /browse and the writes of the same page (uploads, *)
(* imports, new folders; template.go).                                     *)
(*                                                                         *)
(* JavaScript runs one callback at a time, so an action is one callback:   *)
(* a click, a popstate event, an answer, a timer.  A URL is a folder and a *)
(* sort order.  A listing is the version of the folder it shows.           *)
(***************************************************************************)
EXTENDS Integers, Sequences

CONSTANTS
    Folders, Orders,
    MaxEntries,     \* cache.maxEntries
    MaxHistory,     \* model bound: entries of the session history
    MaxWrites,      \* model bound: changes of a folder
    MaxFaults       \* model bound: reads that are not answered with a listing

ASSUME NavigationAssumption ==
    /\ MaxEntries \in Nat \ {0}
    /\ MaxHistory \in Nat \ {0}
    /\ MaxWrites \in Nat /\ MaxFaults \in Nat

Urls == Folders \X Orders
PathOf(u) == u[1]

None == <<>>        \* no request, no read on its way
Idle == [status |-> "none", version |-> 0]
Asked == [status |-> "asked", version |-> 0]

VARIABLES
    \* the server
    contents,       \* the version of each folder
    writes,         \* this page's writes on their way: [path, version]
    faults,         \* reads refused so far
    \* the page
    page,           \* shown; kept or lost while the tab shows something else
    hidden,         \* document.hidden
    view,           \* the installed listing: [url, version, inert, error]
    cache,          \* listings, least recently used first: [url, version]
    pending,        \* None or [url, history, committed, retrying]
    flight,         \* its read: [status, version], none, asked or answered
    late,           \* an aborted read that has not come back yet
    timer,          \* the retry timer is set
    \* the tab
    entries,        \* the session history: the URLs of its entries
    at,             \* the entry the tab is at
    \* history variable
    acked           \* the version of each folder the page's writes made known

server == <<contents, faults>>
reading == <<pending, flight, late, timer>>
vars == <<contents, writes, faults, page, hidden, view, cache, pending, flight, late, timer, entries, at,
          acked>>

Location == entries[at]

Listing(u, v) == [url |-> u, version |-> v, inert |-> FALSE, error |-> FALSE]
Request(u, history) == [url |-> u, history |-> history, committed |-> FALSE, retrying |-> FALSE]

Init ==
    \E u \in Urls :
        /\ contents = [f \in Folders |-> 1]
        /\ writes = {}
        /\ faults = 0
        /\ page = "shown"
        /\ hidden = FALSE
        /\ view = Listing(u, 1)
        /\ cache = <<[url |-> u, version |-> 1]>>
        /\ pending = None
        /\ flight = Idle
        /\ late = None
        /\ timer = FALSE
        /\ entries = <<u>>
        /\ at = 1
        /\ acked = [f \in Folders |-> 1]

-----------------------------------------------------------------------------
(***************************************************************************)
(* DirectoryCache, and the session history.                                *)
(***************************************************************************)
\* Cache c without the listings of a set of URLs: the others keep their order.
Without(c, gone) ==
    LET kept[i \in 0..Len(c)] ==
            IF i = 0 THEN <<>>
            ELSE IF c[i].url \in gone THEN kept[i - 1] ELSE Append(kept[i - 1], c[i])
    IN  kept[Len(c)]

CacheDelete(c, u) == Without(c, {u})
InvalidatePath(c, f) == Without(c, {f} \X Orders)

\* Mutant: one listing too many stays.
CacheSetOneMore(c, u, v) ==
    LET d == Append(CacheDelete(c, u), [url |-> u, version |-> v])
    IN  IF Len(d) > MaxEntries + 1 THEN Tail(d) ELSE d

\* The newest entry last; the oldest goes when there are too many.
CacheSet(c, u, v) ==
    LET d == Append(CacheDelete(c, u), [url |-> u, version |-> v])
    IN  IF Len(d) > MaxEntries THEN Tail(d) ELSE d

Hits(c, u) == {i \in 1..Len(c) : c[i].url = u}

\* Mutant: the position of the view is saved with whatever entry the tab is at.
RememberAnywhere == IF hidden \/ view.error THEN entries ELSE [entries EXCEPT ![at] = view.url]

\* remember: history.replaceState with the view's URL and scroll position, only
\* when the tab is at that URL.
Remember ==
    IF hidden \/ view.error \/ Location # view.url THEN entries ELSE [entries EXCEPT ![at] = view.url]

\* commit, at entry i of h: an entry is replaced by a reload, a traversal or a
\* second commit; else a new one is pushed.
Commit(r, h, i) ==
    IF r.committed \/ r.history \/ h[i] = r.url
      THEN entries' = [h EXCEPT ![i] = r.url] /\ at' = i
      ELSE entries' = Append(SubSeq(h, 1, i), r.url) /\ at' = i + 1

-----------------------------------------------------------------------------
(***************************************************************************)
(* navigate and load.                                                      *)
(***************************************************************************)
\* The read under way is aborted.  It may have been answered already, and its
\* answer may still come.  (Model bound: one of those is on its way.)
Abort ==
    late' = IF flight = Idle THEN late
            ELSE [url |-> pending.url,
                  version |-> IF flight = Asked THEN contents[PathOf(pending.url)] ELSE flight.version]

\* cache.get finds the listing and it is not too old: it is shown at once,
\* inert, and committed.  The folder is read in any case.
NavigateCached(r, c, h, i) ==
    \E n \in Hits(c, r.url) :
        /\ view' = [Listing(r.url, c[n].version) EXCEPT !.inert = TRUE]
        /\ cache' = CacheSet(c, r.url, c[n].version)
        /\ Commit(r, h, i)
        /\ pending' = [r EXCEPT !.committed = TRUE]

\* It is not there, too old (then cache.get drops it), or not wanted.
NavigateUncached(r, force, c, h, i) ==
    /\ cache' = IF force THEN c ELSE CacheDelete(c, r.url)
    /\ entries' = h
    /\ at' = i
    /\ pending' = r
    /\ UNCHANGED view

\* navigate, from cache c and history h at entry i.
Navigate(u, force, history, c, h, i) ==
    /\ Abort
    /\ flight' = Asked
    /\ timer' = FALSE
    /\ \/ ~force /\ NavigateCached(Request(u, history), c, h, i)
       \/ NavigateUncached(Request(u, history), force, c, h, i)

\* A folder link, a sort column, or the answer of the "Jump to" box.
Click(u) ==
    /\ page = "shown"
    /\ at < MaxHistory
    /\ Navigate(u, FALSE, FALSE, cache, Remember, at)
    /\ UNCHANGED <<server, writes, page, hidden, acked>>

Refresh ==
    /\ page = "shown"
    /\ at < MaxHistory
    /\ Navigate(view.url, TRUE, FALSE, cache, Remember, at)
    /\ UNCHANGED <<server, writes, page, hidden, acked>>

\* Back and Forward: the tab is at the other entry when popstate runs.
Traverse(i) ==
    /\ page = "shown"
    /\ i \in 1..Len(entries) \ {at}
    /\ Navigate(entries[i], FALSE, TRUE, cache, entries, i)
    /\ UNCHANGED <<server, writes, page, hidden, acked>>

\* load, for a request that failed: by its timer or by the Retry button.
LoadAgain ==
    /\ pending' = [pending EXCEPT !.retrying = FALSE]
    /\ flight' = Asked
    /\ timer' = FALSE
    /\ UNCHANGED <<server, writes, page, hidden, view, cache, late, entries, at, acked>>

RetryTimer == page = "shown" /\ timer /\ LoadAgain
RetryClick == page = "shown" /\ pending # None /\ flight = Idle /\ LoadAgain

\* The server reads the folder for /browse, or cannot: the connection is lost
\* (502, 503, 504, or no answer), the path is refused (403, 404) or a file (409),
\* or the server fails in another way.
Read ==
    /\ flight = Asked
    /\ \/ /\ flight' = [status |-> "ok", version |-> contents[PathOf(pending.url)]]
          /\ UNCHANGED faults
       \/ /\ faults < MaxFaults
          /\ faults' = faults + 1
          /\ \E s \in {"lost", "refused", "failed", "file"} :
                flight' = [status |-> s, version |-> contents[PathOf(pending.url)]]
    /\ UNCHANGED <<contents, writes, page, hidden, view, cache, pending, late, timer, entries, at, acked>>

Answered(s) ==
    /\ page = "shown"
    /\ flight.status = s

\* load, the answer is a listing: it is installed, cached and committed.
ReadSucceeds ==
    /\ Answered("ok")
    /\ view' = Listing(pending.url, flight.version)
    /\ cache' = CacheSet(cache, pending.url, flight.version)
    /\ Commit(pending, entries, at)
    /\ pending' = None
    /\ flight' = Idle
    /\ UNCHANGED <<server, writes, page, hidden, late, timer, acked>>

\* A transient failure: the request stays pending and tries again.
ReadLost ==
    /\ Answered("lost")
    /\ cache' = CacheDelete(cache, pending.url)
    /\ pending' = [pending EXCEPT !.retrying = TRUE]
    /\ flight' = Idle
    /\ timer' = ~hidden
    /\ UNCHANGED <<server, writes, page, hidden, view, late, entries, at, acked>>

\* A refusal: the request stays pending for the Retry button, and the listing
\* goes if it is the one on the screen.
ReadRefused ==
    /\ Answered("refused")
    /\ cache' = InvalidatePath(cache, PathOf(pending.url))
    /\ view' = IF view.url = pending.url THEN [view EXCEPT !.version = 0] ELSE view
    /\ flight' = Idle
    /\ timer' = FALSE
    /\ UNCHANGED <<server, writes, page, hidden, pending, late, entries, at, acked>>

\* Any other error: the Retry button is all that is left.
ReadFails ==
    /\ Answered("failed")
    /\ cache' = CacheDelete(cache, pending.url)
    /\ flight' = Idle
    /\ UNCHANGED <<server, writes, page, hidden, view, pending, late, timer, entries, at, acked>>

\* The path is a file now: the tab opens it, by location.replace in the entry or
\* by location.assign in a new one, which drops what was ahead.
ReadFindsFile ==
    /\ Answered("file")
    /\ IF pending.history \/ pending.committed \/ pending.url = Location
         THEN page' = "lost" /\ UNCHANGED entries
         ELSE page' = "kept" /\ entries' = SubSeq(entries, 1, at)
    /\ pending' = None
    /\ flight' = Idle
    /\ UNCHANGED <<server, writes, hidden, view, cache, late, timer, at, acked>>

\* Mutant: a late answer is taken for the pending request's.
LateInstalled ==
    /\ page = "shown"
    /\ late # None
    /\ view' = Listing(late.url, late.version)
    /\ cache' = CacheSet(cache, late.url, late.version)
    /\ late' = None
    /\ UNCHANGED <<server, writes, page, hidden, pending, flight, timer, entries, at, acked>>

\* The answer of an aborted read: load sees that its request is not pending.
LateIgnored ==
    /\ page = "shown"
    /\ late # None
    /\ late' = None
    /\ UNCHANGED <<server, writes, page, hidden, view, cache, pending, flight, timer, entries, at, acked>>

-----------------------------------------------------------------------------
(***************************************************************************)
(* Writes of the page: an upload, an import, a new folder.  The destination *)
(* is the folder that was shown when the user began.                       *)
(***************************************************************************)
StartWrite ==
    /\ page = "shown"
    /\ writes = {}                   \* model bound: one at a time
    /\ ~view.error
    /\ writes' = writes \cup {[path |-> PathOf(view.url), version |-> 0]}
    /\ UNCHANGED <<server, page, hidden, view, cache, reading, entries, at, acked>>

\* The server carries the write out.
WriteApplies(w) ==
    /\ w.version = 0
    /\ contents[w.path] <= MaxWrites
    /\ contents' = [contents EXCEPT ![w.path] = @ + 1]
    /\ writes' = (writes \ {w}) \cup {[w EXCEPT !.version = contents[w.path] + 1]}
    /\ UNCHANGED <<faults, page, hidden, view, cache, reading, entries, at, acked>>

\* Somebody else changes a folder.
OtherWrite(f) ==
    /\ contents[f] <= MaxWrites
    /\ contents' = [contents EXCEPT ![f] = @ + 1]
    /\ UNCHANGED <<writes, faults, page, hidden, view, cache, reading, entries, at, acked>>

\* changed: the listings of the folder are dropped from the cache, and a read
\* of it under way, or else the view of it, is read again.
Changed(f) ==
    LET c == InvalidatePath(cache, f)
    IN  CASE pending # None /\ PathOf(pending.url) = f ->
               LET history == pending.history \/ pending.committed
               IN  Navigate(pending.url, TRUE, history, c, IF history THEN entries ELSE Remember, at)
          [] pending = None /\ PathOf(view.url) = f ->
               Navigate(view.url, TRUE, FALSE, c, Remember, at)
          [] OTHER -> cache' = c /\ UNCHANGED <<view, reading, entries, at>>

WriteAnswered(w) ==
    /\ page = "shown"
    /\ w.version # 0
    /\ writes' = writes \ {w}
    /\ acked' = [acked EXCEPT ![w.path] = IF w.version > @ THEN w.version ELSE @]
    /\ Changed(w.path)
    /\ UNCHANGED <<server, page, hidden>>

\* The answer is an error or is lost: an upload looks at the folder again,
\* a new folder does not.
WriteFails(w) ==
    /\ page = "shown"
    /\ writes' = writes \ {w}
    /\ \/ Changed(w.path)
       \/ UNCHANGED <<view, cache, reading, entries, at>>
    /\ UNCHANGED <<server, page, hidden, acked>>

-----------------------------------------------------------------------------
(***************************************************************************)
(* The tab.                                                                *)
(***************************************************************************)
\* Mutant: becoming visible again does not set the timer.
HideOnly ==
    /\ page = "shown"
    /\ hidden' = ~hidden
    /\ timer' = (timer /\ hidden)
    /\ UNCHANGED <<server, writes, page, view, cache, pending, flight, late, entries, at, acked>>

\* visibilitychange: scheduleRetry, which waits while the tab is hidden.
VisibilityChange ==
    /\ page = "shown"
    /\ hidden' = ~hidden
    /\ timer' = IF pending # None /\ pending.retrying THEN hidden ELSE timer
    /\ UNCHANGED <<server, writes, page, view, cache, pending, flight, late, entries, at, acked>>

\* The user opens a file; what was ahead in the history goes.
OpenFile ==
    /\ page = "shown"
    /\ page' = "kept"
    /\ entries' = SubSeq(Remember, 1, at)
    /\ UNCHANGED <<server, writes, hidden, view, cache, reading, at, acked>>

\* Back to a page the browser kept: pageshow reads its folder again.  A page
\* with requests under way is not kept.
ReturnKept ==
    /\ page = "kept"
    /\ flight = Idle /\ writes = {}
    /\ page' = "shown"
    /\ Navigate(Location, TRUE, TRUE, cache, entries, at)
    /\ UNCHANGED <<server, writes, hidden, acked>>

\* Back to a page the browser has to load: the script starts anew, from the
\* listing the server sent or from the shell it sends when it is disconnected.
ReturnLoaded ==
    /\ page \in {"kept", "lost"}
    /\ page' = "shown"
    /\ writes' = {}
    /\ late' = None
    /\ timer' = FALSE
    /\ LET v == contents[PathOf(Location)]
       IN  \/ /\ view' = Listing(Location, v)
              /\ cache' = <<[url |-> Location, version |-> v]>>
              /\ pending' = None
              /\ flight' = Idle
              /\ UNCHANGED faults
           \/ /\ faults < MaxFaults
              /\ faults' = faults + 1
              /\ view' = [Listing(Location, 0) EXCEPT !.error = TRUE]
              /\ cache' = <<>>
              /\ pending' = Request(Location, TRUE)
              /\ flight' = Asked
    /\ UNCHANGED <<contents, hidden, entries, at, acked>>

-----------------------------------------------------------------------------
User == \/ Refresh \/ RetryClick \/ StartWrite \/ VisibilityChange \/ OpenFile
        \/ ReturnKept \/ ReturnLoaded
        \/ \E u \in Urls : Click(u)
        \/ \E i \in 1..MaxHistory : Traverse(i)

Arrive == ReadSucceeds \/ ReadLost \/ ReadRefused \/ ReadFails \/ ReadFindsFile

Server == \/ \E w \in writes : WriteApplies(w) \/ WriteAnswered(w) \/ WriteFails(w)
          \/ \E f \in Folders : OtherWrite(f)

Next == User \/ Server \/ Read \/ Arrive \/ LateIgnored \/ RetryTimer

\* Timers fire and reads are answered; the user does what he likes.
Spec == Init /\ [][Next]_vars
FairSpec == Spec /\ WF_vars(RetryTimer) /\ WF_vars(Read) /\ WF_vars(Arrive)

-----------------------------------------------------------------------------
(***************************************************************************)
(* Properties.                                                             *)
(***************************************************************************)
TypeOK ==
    /\ contents \in [Folders -> 1..(MaxWrites + 1)]
    /\ writes \subseteq [path : Folders, version : 0..(MaxWrites + 1)]
    /\ faults \in 0..MaxFaults
    /\ page \in {"shown", "kept", "lost"}
    /\ hidden \in BOOLEAN /\ timer \in BOOLEAN
    /\ view \in [url : Urls, version : 0..(MaxWrites + 1), inert : BOOLEAN, error : BOOLEAN]
    /\ Len(cache) <= MaxEntries
    /\ \A i, j \in 1..Len(cache) : cache[i].url = cache[j].url => i = j
    /\ pending = None
       \/ pending \in [url : Urls, history : BOOLEAN, committed : BOOLEAN, retrying : BOOLEAN]
    /\ flight # Idle => pending # None /\ ~timer /\ ~pending.retrying
    /\ at \in 1..Len(entries) /\ Len(entries) <= MaxHistory
    /\ \A i \in 1..Len(entries) : entries[i] \in Urls

\* When nothing is pending, the view is the listing of the URL the tab is at,
\* it came from the server, its controls work, and it is not older than a write
\* of this page that was acknowledged: the comment of changed says that a read
\* started before a write completed must not replace its result.
ViewSettled ==
    page = "shown" /\ pending = None =>
        /\ view.url = Location /\ ~view.inert /\ ~view.error
        /\ view.version >= acked[PathOf(view.url)]

\* Neither is a listing in the cache.
CacheFresh == \A i \in 1..Len(cache) : cache[i].version >= acked[PathOf(cache[i].url)]

\* No abandoned navigation, no late answer and no write leaves anything else
\* on the page, or in the cache for the next one.
SettledView == ViewSettled /\ CacheFresh

\* remember's comment: the scroll of a view is never attached to the URL of
\* another.  No step changes the URL of an entry the user can go back to: it
\* is only pushed after, or dropped by a push.
HistoryKept ==
    [][\A i \in 1..Len(entries) :
          i <= Len(entries') /\ entries'[i] # entries[i] => i = at' /\ at' = at + 1]_vars

\* A visible page waits for the connection.
Waiting == page = "shown" /\ ~hidden /\ pending # None /\ pending.retrying

\* README: temporary disconnections retry automatically.  A request that waits
\* for the connection on a visible page is loaded again, or replaced.
RetryHappens == Waiting ~> ~Waiting
=============================================================================
