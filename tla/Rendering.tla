----------------------------- MODULE Rendering -----------------------------
(***************************************************************************)
(* How the PDF.js viewer of the live page decides what to draw: the        *)
(* visible pages (getVisibleElements), the queue that draws one view at a  *)
(* time (PDFRenderingQueue), the pages and their detail views (PDFPageView,*)
(* PDFPageDetailView over BasePDFPageView), and the buffer that bounds the *)
(* canvases (PDFPageViewBuffer).                                           *)
(*                                                                         *)
(* The code is one thread; the interleaving is in what it waits for: the   *)
(* pages asked of the worker, the chunks of a drawing, the promises of     *)
(* drawings that ended, the frame that follows a scroll and the timer that *)
(* follows the frame.  A view's drawing is cancelled while any of these is *)
(* under way.                                                              *)
(*                                                                         *)
(* Views 1 .. N are the pages, N + p is the detail view of page p, and     *)
(* 2N + p in "loads" a detail view of p that its page has dropped.         *)
(* Positions are vertical; whether a page overlaps the view sideways       *)
(* ("seen") is part of its layout.                                         *)
(***************************************************************************)
EXTENDS Integers, Sequences, FiniteSets, SequencesExt

CONSTANTS
    Layouts,            \* [page: Seq([top, bottom, seen]), spread] at zoom 1, with
                        \* the model bounds scrolls and zooms: what the user does
    Height,             \* the height of the view
    Overflow,           \* how far a detail area exceeds the visible one
    DefaultCacheSize,   \* DEFAULT_CACHE_SIZE
    Broken,             \* pages the worker fails to give
    Eager               \* pages whose own request may be answered first

ASSUME RenderingAssumption ==
    /\ \A l \in Layouts :
        /\ l.page \in Seq([top : Nat, bottom : Nat, seen : BOOLEAN]) /\ l.page # <<>>
        /\ \A p \in DOMAIN l.page : l.page[p].top < l.page[p].bottom
    /\ Height \in Nat \ {0} /\ Overflow \in Nat /\ DefaultCacheSize \in Nat \ {0}
    /\ \A l \in Layouts : l.scrolls \in Nat /\ l.zooms \in Nat /\ l.maxZoom \in Nat \ {0}

VARIABLES
    layout,
    q,          \* the views, the buffer and the queue: see RenderTypeOK
    loaded,     \* pages whose view has its pdfPage
    top,        \* container.scrollTop
    frame,      \* watchScroll's rAF is set
    down,       \* scroll.down
    lastY,      \* scroll.lastY
    timer,      \* #scrollTimeoutId is set
    location,   \* the page of _location
    zoom,       \* _currentScale
    scrolls, rescales

scroll == <<top, frame, down, lastY, timer>>
bounds == <<scrolls, rescales>>
renderVars == <<layout, q, loaded, scroll, location, zoom, bounds>>

N == Len(layout.page)
Pages == 1 .. N
Detail(p) == N + p
Views == 1 .. 2 * N
PageOf(v) == IF v > 2 * N THEN v - 2 * N ELSE IF v > N THEN v - N ELSE v

\* A page's edges at zoom z.
Top(p, z) == layout.page[p].top * z
Bottom(p, z) == layout.page[p].bottom * z
MaxTop(z) == Max({0} \cup {Bottom(p, z) - Height : p \in Pages})

\* #needsRestrictedScaling: the canvas of a page would be too large.
Restricted(z) == z > 1

(***************************************************************************)
(* The visible pages.                                                      *)
(***************************************************************************)

\* binarySearchFirstItem with isElementBottomAfterViewTop: minIndex and
\* maxIndex after n rounds of its loop, which is done after N of them.
FirstBelow(y, z) ==
    LET below(p) == Bottom(p, z) > y
        index[n \in 0 .. N] ==
            IF n = 0 THEN [min |-> 1, max |-> N]
            ELSE LET i == index[n - 1]
                     mid == (i.min + i.max) \div 2
                 IN  IF i.min >= i.max THEN i
                     ELSE IF below(mid) THEN [min |-> i.min, max |-> mid]
                          ELSE [min |-> mid + 1, max |-> i.max]
    IN  CASE ~below(N) -> N + 1
          [] below(N) /\ below(1) -> 1
          [] OTHER -> index[N].min

\* Mutant: the search's answer is the first page.
NoRowStart(i, y, z) == i

\* backtrackBeforeAllVisibleElements: the start of the row of page i.
RowStart(i, y, z) ==
    LET edge == IF Top(i, z) >= y THEN Top(i - 1, z) ELSE Top(i, z)
        inRow == {j \in 1 .. (i - 2) : \A k \in j .. (i - 2) : Bottom(k, z) > edge}
    IN  CASE i < 3 -> i
          [] i >= 3 /\ inRow = {} -> i
          [] OTHER -> Min(inRow)

\* getVisibleElements: the loop ends at the first page that begins below the
\* first one that reaches the view's bottom.
Visible(y, z) ==
    LET hit == FirstBelow(y, z)
        start == IF hit > N THEN hit ELSE RowStart(hit, y, z)
        reach == {p \in start .. N : Bottom(p, z) >= y + Height}
        edge == IF reach = {} THEN N ELSE Min(reach)
        loop == {p \in Pages : p >= start /\ \A j \in (edge + 1) .. p : Top(j, z) <= Bottom(edge, z)}
    IN  {p \in loop : layout.page[p].seen /\ Bottom(p, z) > y /\ Top(p, z) < y + Height}

\* The part of page p the view shows, in the page's coordinates.
Area(p, y, z) == <<Max({0, y - Top(p, z)}),
                   Min({Bottom(p, z), y + Height}) - Top(p, z)>>
Whole(p, y, z) == Area(p, y, z) = <<0, Bottom(p, z) - Top(p, z)>>
Percent(p, y, z) ==
    LET a == Area(p, y, z) IN ((a[2] - a[1]) * 100) \div (Bottom(p, z) - Top(p, z))

\* The first of the pages U in the order of visible.sort.
MostVisible(U, y, z) ==
    CHOOSE p \in U : \A o \in U :
        \/ Percent(o, y, z) < Percent(p, y, z)
        \/ Percent(o, y, z) = Percent(p, y, z) /\ p <= o

(***************************************************************************)
(* A view's drawing: each operator maps the record q to the next one.      *)
(***************************************************************************)

Put(f, S, x) == [v \in DOMAIN f |-> IF v \in S THEN x ELSE f[v]]
Details(r, P) == {v \in Views : v > N /\ PageOf(v) \in P /\ r.state[v] # "absent"}

\* cancelRendering of the base view with the onCancel of a page (its canvas
\* goes) or of a detail view (the canvas before this drawing is back).  The
\* cancelled drawing's promise ends later: one more kick of the queue.
Cancel(r, V) ==
    LET drawn == {v \in V : r.task[v] # "none"}
    IN  [r EXCEPT !.task = Put(@, V, "none"),
                  !.canvas = [v \in Views |->
                                IF v \in drawn THEN v > N /\ r.prev[v] ELSE @[v]],
                  !.kicks = @ + Cardinality(drawn)]

\* Mutant: the drawing of the area before goes on.
DrawOn(r, D) == [r EXCEPT !.state = Put(@, D, "initial")]

\* PDFPageDetailView.reset with keepCanvas: a new area is to be drawn.
ResetDetails(r, D) == [Cancel(r, D) EXCEPT !.state = Put(@, D, "initial")]

\* The pages P drop their detail views; what waited to draw one still will.
DropDetails(r, P) ==
    LET D == Details(r, P)
        gone == {PageOf(d) : d \in D}
        waited(v) == IF v > 2 * N /\ PageOf(v) \in gone
                     THEN r.loads[v] + r.loads[Detail(PageOf(v))]
                     ELSE IF v \in D THEN 0 ELSE r.loads[v]
    IN  [Cancel(r, D) EXCEPT !.state = Put(@, D, "absent"),
                             !.canvas = Put(@, D, FALSE), !.prev = Put(@, D, FALSE),
                             !.area = Put(@, gone, <<>>),
                             !.loads = [v \in DOMAIN @ |-> waited(v)]]

\* PDFPageView.reset: the pages P are blank again.
Reset(r, P) ==
    DropDetails([Cancel(r, P) EXCEPT !.state = Put(@, P, "initial"),
                                     !.canvas = Put(@, P, FALSE)], P)

\* setPdfPage: the page's size is its own now, and its view is blank.
SetPdfPage(r, p) == Reset(r, {p})

\* PDFPageView.update at the new zoom z, for every page: a restricted canvas
\* is only scaled (onlyCssZoom), else the page is to be drawn over the old
\* canvas.  Its detail view is to be drawn anew (underlyingViewUpdated).
UpdatePages(r, z) ==
    LET scaled == {p \in Pages : r.canvas[p] /\ r.capped[p] /\ Restricted(z)}
        V == (Pages \ scaled) \cup Details(r, Pages)
    IN  [Cancel(r, V) EXCEPT !.state = Put(@, V, "initial")]

\* Mutant: an area drawn once is kept.
FirstArea(old, new, z, height) == old = <<>>

\* #shouldRenderDifferentArea: MOVEMENT_THRESHOLD makes the ratio 3.
DifferentArea(old, new, z, height) ==
    \/ old = <<>>
    \/ old.from > new[1] \/ old.to < new[2]
    \/ old.zoom # z
    \/ old.from > 0 /\ old.to - new[2] > 3 * (new[1] - old.from)
    \/ old.to < height /\ new[1] - old.from > 3 * (old.to - new[2])

\* updateVisibleArea of the visible pages S and of the others in the buffer:
\* a page that is not restricted, or all visible, needs no detail view.
UpdateAreas(r, S, y, z) ==
    LET parts == {p \in S : Restricted(z) /\ ~Whole(p, y, z)}
        height(p) == Bottom(p, z) - Top(p, z)
        moved == {p \in parts : DifferentArea(r.area[p], Area(p, y, z), z, height(p))}
        around(a, h) == [from |-> Max({0, a[1] - Overflow}), to |-> Min({h, a[2] + Overflow}),
                         zoom |-> z]
        areas == [p \in Pages |-> IF p \in moved THEN around(Area(p, y, z), height(p))
                                  ELSE r.area[p]]
        fresh == [r EXCEPT !.area = areas,
                           !.state = [v \in Views |-> IF v > N /\ PageOf(v) \in parts
                                                         /\ @[v] = "absent"
                                                      THEN "initial" ELSE @[v]]]
    IN  DropDetails(ResetDetails(fresh, {Detail(p) : p \in moved}),
                    (S \cup ToSet(r.buffer)) \ parts)

(***************************************************************************)
(* The buffer: the pages with a canvas, the least recently drawn first.    *)
(***************************************************************************)

\* The sequence b less the pages S.
Without(b, S) ==
    LET kept[i \in 0 .. Len(b)] ==
            IF i = 0 THEN <<>>
            ELSE IF b[i] \in S THEN kept[i - 1] ELSE Append(kept[i - 1], b[i])
    IN  kept[Len(b)]

\* #destroyFirstView until the size is kept.
Shrink(r) ==
    LET over == Max({0, Len(r.buffer) - r.size})
    IN  [Reset(r, ToSet(SubSeq(r.buffer, 1, over))) EXCEPT
            !.buffer = SubSeq(@, over + 1, Len(@))]

\* Mutant: the page keeps its place, and nothing is destroyed.
PushOnly(r, p) == IF p \in ToSet(r.buffer) THEN r ELSE [r EXCEPT !.buffer = Append(@, p)]

\* push, on "pagerender".
Push(r, p) == Shrink([r EXCEPT !.buffer = Append(Without(@, {p}), p)])

\* resize: the visible pages move to the end.
Resize(r, S) ==
    Shrink([r EXCEPT !.size = Max({DefaultCacheSize, 2 * Cardinality(S) + 1}),
                     !.buffer = Without(@, S) \o Without(@, ToSet(@) \ S)])

(***************************************************************************)
(* The queue.                                                              *)
(***************************************************************************)
Finished(r, v) == r.state[v] = "finished"

\* #getScrollAhead.
ScrollAhead(S, d) ==
    CASE Min(S) = 1 -> TRUE
      [] Min(S) # 1 /\ Max(S) = N -> FALSE
      [] OTHER -> d

\* getHighestPriority, of the visible pages S: a visible page to be drawn, else
\* a detail view of one, else a hole between them, else the page ahead (or one
\* more in a spread).  None is 0.
HighestPriority(r, S, y, z, ahead) ==
    LET open(V) == {v \in V : ~Finished(r, v)}
        first(V) == IF V = {} THEN 0 ELSE IF ahead THEN Min(V) ELSE Max(V)
        more == IF layout.spread THEN 2 ELSE 1
        detailed == {p \in S : r.state[Detail(p)] # "absent" /\ ~Finished(r, Detail(p))}
        holes == open((Min(S) .. Max(S)) \ S)
        next == open(Pages \cap (IF ahead THEN Max(S) + 1 .. Max(S) + more
                                          ELSE Min(S) - more .. Min(S) - 1))
    IN  CASE open(S) # {} -> MostVisible(open(S), y, z)
          [] open(S) = {} /\ detailed # {} -> Detail(MostVisible(detailed, y, z))
          [] OTHER -> IF holes # {} THEN first(holes) ELSE first(next)

\* forceRendering with the visible pages S, which renderHighestPriority calls:
\* the view that is next is asked for its page, and drawn when the page is
\* there.  ignoreDetailViews is never true: the visible records it looks at
\* have no detailView, and the live page delays no zoom (#scaleTimeoutId).
ForceRendering(r, S, y, z, d) ==
    LET v == HighestPriority(r, S, y, z, ScrollAhead(S, d))
    IN  IF S = {} \/ v = 0 THEN r ELSE [r EXCEPT !.loads[v] = @ + 1]

\* update: the buffer, the detail areas, the queue, the location.
Update(r, y, z, d) ==
    \E S \in {Visible(y, z)} :
        /\ location' = IF S = {} THEN location ELSE Min(S)
        /\ q' = IF S = {} THEN r
                ELSE ForceRendering(UpdateAreas(Resize(r, S), S, y, z), S, y, z, d)

\* _createCanvas: the new canvas is the view's, the one before it is kept for
\* an end of the drawing (when the new one gets into the page, at the end or
\* on the way, is left out).
CreateCanvas(r, v) == [r EXCEPT !.prev[v] = r.canvas[v], !.canvas[v] = TRUE]

\* A view begins to be drawn.
Begin(r, v) ==
    CreateCanvas([r EXCEPT !.state[v] = "running", !.task[v] = "going"], v)

\* "pdfPage is not loaded": finished, and draw throws.
NoPage(r, v) == [r EXCEPT !.state[v] = "finished", !.kicks = @ + 1]

\* PDFPageView.draw up to its return, "pagerender".
DrawPage(r, p, z) == Push([Begin(r, p) EXCEPT !.capped[p] = Restricted(z)], p)

\* PDFPageDetailView.draw, of a detail view its page still has.
DrawDetail(r, d) == Push(Begin(r, d), PageOf(d))

DrawView(r, v, hasPage, z) ==
    CASE ~hasPage -> NoPage(r, v)
      [] hasPage /\ v <= N -> DrawPage(r, v, z)
      [] hasPage /\ v > N -> DrawDetail(r, v)

\* Mutant: a paused view is left to resume by itself.
RenderNew(r, v, hasPage, z) ==
    IF v <= 2 * N /\ r.state[v] = "initial"
    THEN DrawView([r EXCEPT !.priority = v], v, hasPage, z) ELSE r

\* renderView.  A detail view its page has dropped is in its initial state
\* and draws nothing, but it has the priority of its successor.
RenderView(r, v, hasPage, z) ==
    LET u == IF v > 2 * N THEN Detail(PageOf(v)) ELSE v
    IN  CASE v > 2 * N -> [r EXCEPT !.priority = u, !.kicks = @ + 1]
          [] v <= 2 * N /\ r.state[u] = "finished" -> r
          [] v <= 2 * N /\ r.state[u] = "paused" ->
                [r EXCEPT !.priority = u, !.state[u] = "running", !.task[u] = "going"]
          [] v <= 2 * N /\ r.state[u] = "running" -> [r EXCEPT !.priority = u]
          [] v <= 2 * N /\ r.state[u] = "initial" ->
                DrawView([r EXCEPT !.priority = u], u, hasPage, z)

(***************************************************************************)
(* The steps.                                                              *)
(***************************************************************************)

\* A viewer with no page drawn; "timer" stands for the first update, which
\* setDocument calls when the first page is there.
RenderInit ==
    /\ layout \in Layouts
    /\ LET none == [v \in Views |-> FALSE]
       IN  q = [state |-> [v \in Views |-> IF v > N THEN "absent" ELSE "initial"],
                task |-> [v \in Views |-> "none"],
                canvas |-> none, prev |-> none,
                capped |-> [p \in Pages |-> FALSE], area |-> [p \in Pages |-> <<>>],
                buffer |-> <<>>, size |-> DefaultCacheSize,
                loads |-> [v \in 1 .. 3 * N |-> 0], kicks |-> 0, priority |-> 0]
    /\ loaded = {}
    /\ top = 0 /\ lastY = 0 /\ down = TRUE /\ frame = FALSE /\ timer = TRUE
    /\ zoom = 1 /\ location = 1
    /\ scrolls = 0 /\ rescales = 0

\* The user scrolls; the "scroll" event asks for a frame.
Scroll ==
    /\ scrolls < layout.scrolls
    /\ \E y \in 0 .. MaxTop(zoom) \ {top} : top' = y
    /\ frame' = TRUE
    /\ scrolls' = scrolls + 1
    /\ UNCHANGED <<layout, q, loaded, down, lastY, timer, location, zoom, rescales>>

\* viewAreaElementScrolled and _scrollUpdate, which arms its timer before it
\* updates.
Frame ==
    /\ frame
    /\ frame' = FALSE
    /\ down' = IF top # lastY THEN top > lastY ELSE down
    /\ lastY' = top
    /\ timer' = TRUE
    /\ Update(q, top, zoom, down')
    /\ UNCHANGED <<layout, loaded, top, zoom, bounds>>

\* The 100 ms after the last scroll are over.
ScrollTimeout ==
    /\ timer
    /\ timer' = FALSE
    /\ Update(q, top, zoom, down)
    /\ UNCHANGED <<layout, loaded, top, frame, down, lastY, zoom, bounds>>

\* #setScaleUpdatePages: refresh updates every page and clears the timers,
\* the located page is scrolled back into view, and update follows.
Rescale ==
    /\ rescales < layout.zooms
    /\ rescales' = rescales + 1
    /\ \E z \in 1 .. layout.maxZoom \ {zoom} : \E y \in 0 .. MaxTop(z) :
        /\ Top(location, z) < y + Height /\ Bottom(location, z) > y
        /\ zoom' = z
        /\ top' = y
        /\ frame' = (frame \/ y # top)
        /\ \E r \in {UpdatePages(q, z)} : Update(r, y, z, down)
    /\ timer' = FALSE
    /\ UNCHANGED <<layout, loaded, down, lastY, scrolls>>

\* #ensurePdfPageLoaded ends for view v and renderView follows.  setPdfPage
\* resets the page, which drops its detail view.
PageLoaded(v) ==
    LET p == PageOf(v)
        first == p \notin loaded /\ p \notin Broken
        u == IF first /\ v = Detail(p) THEN 2 * N + p ELSE v
    IN  /\ q.loads[v] > 0
        /\ loaded' = IF first THEN loaded \cup {p} ELSE loaded
        /\ LET asked == [q EXCEPT !.loads[v] = @ - 1]
           IN  \E r \in {IF first THEN SetPdfPage(asked, p) ELSE asked} :
                    q' = RenderView(r, u, p \notin Broken, zoom)
        /\ UNCHANGED <<layout, scroll, location, zoom, bounds>>

\* setDocument's own request for page p is answered.
EagerPage(p) ==
    /\ p \in Eager \ (loaded \cup Broken)
    /\ loaded' = loaded \cup {p}
    /\ q' = SetPdfPage(q, p)
    /\ UNCHANGED <<layout, scroll, location, zoom, bounds>>

\* #renderContinueCallback between two chunks: another view comes first.
Pause(v) ==
    /\ q.task[v] = "going" /\ q.priority # v
    /\ q' = [q EXCEPT !.task[v] = "held", !.state[v] = "paused"]
    /\ UNCHANGED <<layout, loaded, scroll, location, zoom, bounds>>

\* The drawing ends, with an error or without: _drawCanvas.
EndDrawing(v) ==
    /\ q.task[v] = "going"
    /\ q' = [q EXCEPT !.task[v] = "none", !.state[v] = "finished", !.prev[v] = FALSE,
                      !.kicks = @ + 1]
    /\ UNCHANGED <<layout, loaded, scroll, location, zoom, bounds>>

\* A draw's promise is settled, its layers with it: the queue goes on.
Kick ==
    /\ q.kicks > 0
    /\ \E S \in {Visible(top, zoom)} :
            q' = ForceRendering([q EXCEPT !.kicks = @ - 1], S, top, zoom, down)
    /\ UNCHANGED <<layout, loaded, scroll, location, zoom, bounds>>

RenderNext ==
    \/ Scroll \/ Frame \/ ScrollTimeout \/ Rescale \/ Kick
    \/ \E v \in 1 .. 3 * N : PageLoaded(v)
    \/ \E p \in Pages : EagerPage(p)
    \/ \E v \in Views : Pause(v) \/ EndDrawing(v)

RenderSpec == RenderInit /\ [][RenderNext]_renderVars

-----------------------------------------------------------------------------
(***************************************************************************)
(* Properties.                                                             *)
(***************************************************************************)

\* The views, the buffer and the queue have their types.  The state a view
\* shows is what its drawing does: a running view has a drawing that goes
\* on, a paused one has one to resume, the others have none; a page its
\* viewer has no room for has neither.
RenderTypeOK ==
    /\ DOMAIN q.state = Views /\ DOMAIN q.area = Pages
    /\ \A v \in Views :
        /\ q.state[v] \in {"absent", "initial", "running", "paused", "finished"}
        /\ q.state[v] = "absent" => v > N /\ ~q.canvas[v]
        /\ q.task[v] = CASE q.state[v] = "running" -> "going"
                          [] q.state[v] = "paused" -> "held"
                          [] OTHER -> "none"
        /\ q.task[v] # "none" => q.canvas[v] /\ PageOf(v) \in loaded
    /\ q.kicks \in Nat /\ \A v \in 1 .. 3 * N : q.loads[v] \in Nat
    /\ top \in 0 .. MaxTop(zoom) /\ location \in Pages /\ zoom \in 1 .. layout.maxZoom

\* Memory is bounded: whatever was scrolled, zoomed, cancelled or late, a
\* page that holds a canvas, its own or its detail view's, is in the buffer,
\* once, and the buffer is within its size.
CanvasesInBuffer ==
    /\ {p \in Pages : q.canvas[p] \/ q.canvas[Detail(p)]} \subseteq ToSet(q.buffer)
    /\ Len(q.buffer) = Cardinality(ToSet(q.buffer))
    /\ Len(q.buffer) <= q.size

\* The pages are in rows, one below the other, and the pages of a row lie
\* side by side; and the last page ends less than a view's height before the
\* document does (the search gives up when the last page is out of sight).
InRows(l) ==
    LET P == DOMAIN l.page
        beside(p, o) == l.page[p].top < l.page[o].bottom /\ l.page[o].top < l.page[p].bottom
    IN  /\ \A p, o \in P : p < o => beside(p, o) \/ l.page[p].bottom <= l.page[o].top
        /\ \A p, o, m \in P : beside(p, o) /\ beside(o, m) => beside(p, m)
        /\ \A p \in P, z \in 1 .. l.maxZoom :
              (l.page[p].bottom - l.page[Len(l.page)].bottom) * z < Height

\* In rows of pages, the binary search, the walk back to the start of the row
\* and the early end of the loop find exactly the pages that overlap the view.
VisibleExact ==
    Visible(top, zoom) =
        {p \in Pages : layout.page[p].seen /\ Bottom(p, zoom) > top /\ Top(p, zoom) < top + Height}

\* Once the frame of a scroll has run, a detail view of a visible page is for
\* an area that covers what the view shows of it, at this zoom, and no page
\* out of sight holds the canvas of one.  An update that finds no page in
\* sight changes nothing, and leaves the detail views there were.
DetailCovers ==
    ~frame /\ Visible(top, zoom) # {} => \A p \in Pages :
        /\ q.canvas[Detail(p)] => p \in Visible(top, zoom)
        /\ q.state[Detail(p)] # "absent" /\ p \in Visible(top, zoom) =>
            /\ q.area[p].zoom = zoom
            /\ q.area[p].from <= Area(p, top, zoom)[1] /\ Area(p, top, zoom)[2] <= q.area[p].to

\* No cancelled, paused, dropped or late drawing leaves the queue idle too
\* early: when nothing is under way but what the user may do, every visible
\* page is drawn, and so is every detail view of one.
RestsDrawn ==
    LET idle == /\ ~frame /\ ~timer /\ q.kicks = 0
                /\ \A v \in 1 .. 3 * N : q.loads[v] = 0
                /\ \A v \in Views : q.task[v] # "going"
    IN  idle => \A p \in Visible(top, zoom) :
                    Finished(q, p) /\ q.state[Detail(p)] \in {"absent", "finished"}
=============================================================================
