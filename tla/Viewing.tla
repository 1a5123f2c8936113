------------------------------ MODULE Viewing ------------------------------
(***************************************************************************)
(* Where the live page is in its document: PDFViewer's document, page,     *)
(* scale and location, the controls of the page (live-v2.mjs) that follow  *)
(* its events, the links between pages (PDFLinkService), and the documents *)
(* that are put in one another's place while all of these go on.           *)
(*                                                                         *)
(* What the code does without waiting is one step here, however many       *)
(* setters and events it goes through: the operators below map the record  *)
(* "s" of the viewer and the controller to the next one, in the order of   *)
(* the calls.  Installing a document is such a step: its first page has    *)
(* been asked for before, so that only settled promises are awaited up to  *)
(* the commit.  What comes later is the answer to a request (pages,        *)
(* destinations), the frame of a scroll and its timer.                     *)
(*                                                                         *)
(* All pages have the height Scale(value), or Points in the points of the  *)
(* document, which are what locations and destinations are told in; the    *)
(* view has the height Height.                                             *)
(***************************************************************************)
EXTENDS Integers, Sequences, FiniteSets, SequencesExt

CONSTANTS
    Docs,           \* the documents the page loads in turn: their numbers of pages
    Values,         \* [name, scale, preset]: what the zoom controls and links offer
    Options,        \* the options of #zoomPreset; the buttons give others
    Initial,        \* 'page-width', the first of them
    LinkValues,     \* those of the links
    Height,
    Points,         \* the height of a page in points of the document
    DefaultScale,   \* DEFAULT_SCALE
    PageModeAbove,  \* FORCE_SCROLL_MODE_PAGE
    LazyAbove,      \* FORCE_LAZY_PAGE_INIT
    PauseEvery,     \* PAUSE_EAGER_PAGE_INIT
    MaxInputs,      \* model bound: what the user does
    MaxThrows       \* model bound: installations that throw

ASSUME ViewingAssumption ==
    /\ Docs \in Seq(Nat \ {0})
    /\ Values \subseteq [name : STRING, scale : Nat \ {0}, preset : BOOLEAN] /\ Initial \in Options
    /\ LinkValues \subseteq Values /\ Options \subseteq Values
    /\ {Height, Points, DefaultScale, PauseEvery} \subseteq Nat \ {0}
    /\ {PageModeAbove, LazyAbove, MaxInputs, MaxThrows} \subseteq Nat

VARIABLES
    s,          \* the viewer and the controller: see ViewTypeOK
    timer,      \* #scrollTimeoutId is set
    eager,      \* setDocument's requests for pages: [doc, next, asked], one per
                \* installation, and whether the last of these has begun
    links,      \* goToDestination: [doc, stage, page, value, place]
    copy,       \* #copyCallback while #copyAllInProgress: the document it began
                \* with and its pages, the page asked for and the document asked,
                \* those read so far, and whether it was interrupted; else Empty
    loaded,     \* documents loaded so far
    inputs, throws

counts == <<loaded, inputs, throws>>
viewVars == <<s, timer, eager, links, copy, counts>>

Empty == <<>>
Least(S) == CHOOSE x \in S : \A y \in S : x <= y

\* F of the value of e.
With(e, F(_)) == CHOOSE x \in {F(y) : y \in {e}} : TRUE

(***************************************************************************)
(* The layout.                                                             *)
(***************************************************************************)
PagesCount(w) == Len(w.pages)
Scale(w) == IF w.scale = 0 THEN DefaultScale ELSE w.scale
Shown(w) == IF w.mode = "page" THEN w.shown ELSE 1 .. PagesCount(w)
Top(w, p) == IF w.mode = "page" THEN 0 ELSE (p - 1) * Scale(w)
MaxTop(w) == Max({0, Cardinality(Shown(w)) * Scale(w) - Height})

\* _getVisiblePages: which pages, and which of them entirely.
Visible(w) == {p \in Shown(w) : Top(w, p) + Scale(w) > w.top /\ Top(w, p) < w.top + Height}
Entire(w, p) == Top(w, p) >= w.top /\ Top(w, p) + Scale(w) <= w.top + Height
Seen(w, p) == Min({Top(w, p) + Scale(w), w.top + Height}) - Max({Top(w, p), w.top})
MostVisible(w) ==
    Least({p \in Visible(w) : \A o \in Visible(w) : Seen(w, o) <= Seen(w, p)})

\* getPagePoint, rounded: the whole points from the lower edge of a page to
\* what is "off" under its upper one.
PagePoint(w, off) == (2 * Points * (Scale(w) - off) + Scale(w)) \div (2 * Scale(w))

\* convertToViewportPoint: back again, where scrollTop has whole pixels.
ViewportPoint(w, y) == ((Points - y) * Scale(w)) \div Points

\* scrollIntoView: setting scrollTop fires "scroll" if it moves.
ScrollTo(w, y) ==
    With(Max({0, Min({y, MaxTop(w)})}),
         LAMBDA t : [w EXCEPT !.top = t, !.moved = @ \/ t # w.top])

(***************************************************************************)
(* The controller's part in the viewer's events.                           *)
(***************************************************************************)

\* clampPage.
ClampPage(n, pages) == Max({1, Min({n, pages})})
ActivePages(w) == IF w.active = 0 THEN 1 ELSE Docs[w.active]

\* updatePageControls.
UpdatePageControls(w) == [w EXCEPT !.shows.page = w.page, !.shows.pages = ActivePages(w)]

\* matchingZoomPreset: one of the options, or what the viewer's scale is.
NoOption == ""
MatchingZoom(w, v) ==
    IF v \in Options THEN [option |-> v.name, scale |-> 0]
    ELSE [option |-> NoOption, scale |-> Scale(w)]

\* updateZoomControl.
UpdateZoomControl(w) == [w EXCEPT !.shows.zoom = MatchingZoom(w, w.zoom)]

\* "pagechanging".
OnPageChanging(w, n) ==
    IF w.installing THEN w
    ELSE UpdatePageControls([w EXCEPT !.page = ClampPage(n, ActivePages(w))])

\* "scalechanging".
OnScaleChanging(w, v) ==
    IF w.installing THEN w ELSE UpdateZoomControl([w EXCEPT !.zoom = v])

(***************************************************************************)
(* PDFViewer's page.                                                       *)
(***************************************************************************)

\* _setCurrentPageNumber, up to its event.
ChangePage(w, n) ==
    IF n = w.cur \/ n \notin 1 .. PagesCount(w) THEN w
    ELSE OnPageChanging([w EXCEPT !.cur = n], n)

\* Mutant: the location is not updated.
UpdateKeepsLocation(w) ==
    IF Visible(w) = {} THEN w
    ELSE ChangePage(w, IF w.cur \in Visible(w) /\ Entire(w, w.cur) THEN w.cur ELSE MostVisible(w))

\* _updateLocation: the first visible page and the position in it, in whole
\* points.
UpdateLocation(w) ==
    With(Least(Visible(w)),
         LAMBDA p : [w EXCEPT !.loc = [page |-> p, top |-> PagePoint(w, w.top - Top(w, p))]])

\* update: the page that is most visible becomes the current one, unless the
\* current one can be seen entirely.
Update(w) ==
    IF Visible(w) = {} THEN w
    ELSE UpdateLocation(ChangePage(w, IF w.cur \in Visible(w) /\ Entire(w, w.cur)
                                      THEN w.cur ELSE MostVisible(w)))

\* #ensurePageViewVisible.
EnsurePageViewVisible(w) == [w EXCEPT !.shown = {w.cur}]

\* Mutant: in PAGE mode the page that was there stays.
ScrollOnly(w, p, spot) == ScrollTo(ChangePage(w, p), Top(w, p) + spot)

\* #scrollIntoView.
ScrollIntoView(w, p, spot) ==
    LET paged(u) == IF u.mode = "page" THEN Update(EnsurePageViewVisible(u)) ELSE u
        scrolled(u) == ScrollTo(u, Top(u, p) + spot)
    IN  With(With(With(ChangePage(w, p), paged), scrolled),
             LAMBDA u : IF u.value = Empty THEN [u EXCEPT !.loc = Empty] ELSE u)

\* #resetCurrentPageView.
ResetCurrentPageView(w) == ScrollIntoView(w, w.cur, 0)

\* _setCurrentPageNumber with it; it throws if there is no such page.
SetCurrentPageNumber(w, n) ==
    IF n \notin 1 .. PagesCount(w) THEN w ELSE With(ChangePage(w, n), ResetCurrentPageView)

\* nextPage and previousPage: the layout has one page per row.
NextPage(w) == IF w.cur >= PagesCount(w) THEN w ELSE SetCurrentPageNumber(w, w.cur + 1)
PreviousPage(w) == IF w.cur <= 1 THEN w ELSE SetCurrentPageNumber(w, w.cur - 1)

\* The page setter of the link service.
LinkServicePage(w, n) == IF w.doc = 0 THEN w ELSE SetCurrentPageNumber(w, n)

(***************************************************************************)
(* PDFViewer's scale.                                                      *)
(***************************************************************************)

\* #setScaleUpdatePages: the location is kept, at the new scale, and update
\* follows; a scale that is the same already is announced only if it is a
\* preset.
SetScaleUpdatePages(w, v) ==
    LET new == [w EXCEPT !.value = v, !.scale = v.scale]
        back(u) == IF u.pages = Empty THEN u
                   ELSE IF u.loc = Empty THEN SetCurrentPageNumber(u, u.cur)
                   ELSE ScrollIntoView(u, u.loc.page, ViewportPoint(u, u.loc.top))
    IN  IF w.scale = v.scale
        THEN IF v.preset THEN OnScaleChanging([w EXCEPT !.value = v], v)
             ELSE [w EXCEPT !.value = v]
        ELSE With(With(new, back), LAMBDA u : With(OnScaleChanging(u, v), Update))

\* #setScale: a preset is relative to the current page.
SetScale(w, v) ==
    IF w.doc = 0 \/ (v.preset /\ w.cur \notin 1 .. PagesCount(w)) THEN w
    ELSE SetScaleUpdatePages(w, v)

\* scrollPageIntoView for a destination: a zoom (Empty is none) and a place in
\* the page, in points from its lower edge.
ScrollPageIntoView(w, p, v, y) ==
    LET zoomed == IF v # Empty /\ (v.preset \/ v.scale # w.scale) THEN SetScale(w, v) ELSE w
    IN  IF p \notin 1 .. PagesCount(w) THEN w
        ELSE With(zoomed, LAMBDA u : ScrollIntoView(u, p, ViewportPoint(u, y)))

(***************************************************************************)
(* PDFViewer's document.                                                   *)
(***************************************************************************)

\* _resetView.
ResetView(w) ==
    [w EXCEPT !.pages = <<>>, !.cur = 1, !.scale = 0, !.value = Empty, !.loc = Empty,
              !.mode = "vertical", !.shown = {}]

\* setDocument up to its first await.
SetDocument(w, d) ==
    [ResetView(w) EXCEPT !.doc = d,
                         !.mode = IF d # 0 /\ Docs[d] > PageModeAbove THEN "page" ELSE "vertical"]

\* The rest of setDocument: views for all pages, of which the first is there,
\* "pagesinit" and update.
FirstPage(w) ==
    LET views == [w EXCEPT !.pages = [p \in 1 .. Docs[w.doc] |-> IF p = 1 THEN w.doc ELSE 0]]
        shown(u) == IF u.mode = "page" THEN EnsurePageViewVisible(u) ELSE u
    IN  With(With(With(views, shown), LAMBDA u : ScrollTo(u, u.top)), Update)

\* installViewerDocument.
Install(w, d) == FirstPage(SetDocument(w, d))

\* What loadVersion restores after an installation.
Restore(w, n, v) == With(SetScale(w, v), LAMBDA u : SetCurrentPageNumber(u, n))

\* The controller takes document d over, at page n.
TakeOver(w, d, n) ==
    With([w EXCEPT !.page = n, !.active = d, !.installing = FALSE],
         LAMBDA u : UpdateZoomControl(UpdatePageControls(u)))

-----------------------------------------------------------------------------
(***************************************************************************)
(* The steps.                                                              *)
(***************************************************************************)
ViewInit ==
    /\ s = [doc |-> 0, pages |-> <<>>, cur |-> 1, scale |-> 0, value |-> Empty, loc |-> Empty,
            mode |-> "vertical", shown |-> {}, top |-> 0, moved |-> FALSE,
            active |-> 0, page |-> 1, zoom |-> Initial, installing |-> FALSE,
            shows |-> [page |-> 1, pages |-> 1,
                       zoom |-> [option |-> Initial.name, scale |-> 0]]]
    /\ timer = FALSE /\ eager = <<>> /\ links = {} /\ copy = Empty
    /\ loaded = 0 /\ inputs = 0 /\ throws = 0

\* Mutant: the document that was shown is not destroyed, and its pages go on
\* to come.
AliveForever(d) == TRUE

\* A document is destroyed when another has taken its place, or when it could
\* not be installed: it answers no request for a page any more.
Alive(d) == d = s.active

\* #cleanupTimeouts.
CleanupTimeouts == timer' = FALSE

\* A new installation of document d, whose pages are not asked for yet.
Asks(d) == Append(eager, [doc |-> d, next |-> 0, asked |-> {}])

\* loadVersion once the next document is there: installed and committed.
Commit ==
    /\ loaded < Len(Docs)
    /\ loaded' = loaded + 1
    /\ LET d == loaded + 1
           n == ClampPage(s.page, Docs[d])
           restored == Restore(Install([s EXCEPT !.installing = TRUE], d), n, s.zoom)
       IN  /\ s' = TakeOver(restored, d, n)
           /\ eager' = Asks(d)
    /\ CleanupTimeouts
    /\ UNCHANGED <<links, copy, inputs, throws>>

\* The installation throws: the document before it is installed again, with
\* its page and scale, or there is none.
Rollback ==
    /\ loaded < Len(Docs) /\ throws < MaxThrows
    /\ throws' = throws + 1 /\ loaded' = loaded + 1
    /\ LET n == ClampPage(s.page, ActivePages(s))
           begun == SetDocument([s EXCEPT !.installing = TRUE], loaded + 1)
           restored == Restore(Install(begun, s.active), n, s.zoom)
       IN  IF s.active = 0
           THEN /\ s' = [SetDocument(begun, 0) EXCEPT !.installing = FALSE]
                /\ UNCHANGED eager
           ELSE /\ s' = TakeOver(restored, s.active, n)
                /\ eager' = Asks(s.active)
    /\ CleanupTimeouts
    /\ UNCHANGED <<links, copy, inputs>>

\* So does the rollback: the document is in the viewer without pages.
RollbackFails ==
    /\ loaded < Len(Docs) /\ throws + 1 < MaxThrows /\ s.active # 0
    /\ throws' = throws + 2 /\ loaded' = loaded + 1
    /\ s' = SetDocument(s, s.active)
    /\ CleanupTimeouts
    /\ UNCHANGED <<eager, links, copy, inputs>>

\* The controls.
Input == inputs < MaxInputs /\ inputs' = inputs + 1

\* showPage: the controller's page first, then the viewer's.
ShowPage(n) ==
    /\ Input /\ s.active # 0
    /\ LET p == ClampPage(n, Docs[s.active])
       IN  s' = UpdatePageControls(SetCurrentPageNumber([s EXCEPT !.page = p], p))
    /\ UNCHANGED <<timer, eager, links, copy, loaded, throws>>

\* refresh, if the scale changed, clears the timers.
Refreshed == IF s'.scale = s.scale THEN UNCHANGED timer ELSE CleanupTimeouts

\* Mutant: the controller waits for "scalechanging".
SetZoomByEvent(v) ==
    /\ Input /\ s.active # 0
    /\ s' = SetScale(s, v)
    /\ Refreshed
    /\ UNCHANGED <<eager, links, copy, loaded, throws>>

\* setZoom.
SetZoom(v) ==
    /\ Input /\ s.active # 0
    /\ s' = UpdateZoomControl(SetScale([s EXCEPT !.zoom = v], v))
    /\ Refreshed
    /\ UNCHANGED <<eager, links, copy, loaded, throws>>

Scroll(y) ==
    /\ Input /\ s.doc # 0 /\ y \in 0 .. MaxTop(s) \ {s.top}
    /\ s' = [s EXCEPT !.top = y, !.moved = TRUE]
    /\ UNCHANGED <<timer, eager, links, copy, loaded, throws>>

\* The frame after a scroll: _scrollUpdate, if there are pages.
Frame ==
    /\ s.moved
    /\ s' = Update([s EXCEPT !.moved = FALSE])
    /\ timer' = (timer \/ s.pages # Empty)
    /\ UNCHANGED <<eager, links, copy, counts>>

ScrollTimeout ==
    /\ timer
    /\ timer' = FALSE
    /\ s' = Update(s)
    /\ UNCHANGED <<eager, links, copy, counts>>

\* executeNamedAction: NextPage, PrevPage, LastPage, FirstPage (a document
\* without a history).
NamedAction ==
    /\ Input /\ s.doc # 0
    /\ \/ s' = NextPage(s)
       \/ s' = PreviousPage(s)
       \/ \E n \in {1, Docs[s.doc]} : s' = LinkServicePage(s, n)
    /\ UNCHANGED <<timer, eager, links, copy, loaded, throws>>

\* goToDestination is called for a link of the document that is shown, to
\* place y of page n with zoom v; named destinations are asked of the document.
\* (Places that are not in their page are left out.)
FollowLink(n, v, y) ==
    /\ Input /\ s.active # 0 /\ s.pages # Empty
    /\ links' = links \cup
                   {[doc |-> s.doc, stage |-> "destination", page |-> n, value |-> v, place |-> y]}
    /\ UNCHANGED <<s, timer, eager, copy, loaded, throws>>

\* The destination is there: its page is asked of the document that is shown
\* by now.  In another document the reference is some page or none.
DestinationKnown(l) ==
    /\ l \in links /\ l.stage = "destination"
    /\ \E n \in IF l.doc = s.doc THEN {l.page} ELSE {0} \cup 1 .. PagesCount(s) :
          links' = (links \ {l}) \cup
                      IF n = 0 THEN {} ELSE {[l EXCEPT !.doc = s.doc, !.stage = "page", !.page = n]}
    /\ UNCHANGED <<s, timer, eager, copy, counts>>

\* The page is known: the document that is shown by now scrolls to it, if it
\* has that page.
GoToDestination(l) ==
    /\ l \in links /\ l.stage = "page"
    /\ links' = links \ {l}
    /\ s' = ScrollPageIntoView(s, l.page, l.value, l.place)
    /\ Refreshed
    /\ UNCHANGED <<eager, copy, counts>>

\* A destroyed document need not answer.
LinkLost(l) ==
    /\ l \in links /\ l.doc # s.doc
    /\ links' = links \ {l}
    /\ UNCHANGED <<s, timer, eager, copy, counts>>

\* The pages of an installation that are asked for together, from page n.
Batch(n, count) == {p \in n .. count : \A o \in n .. (p - 1) : o % PauseEvery # 0}

\* #onePageRenderedOrForceFetch ends at some time, once in an installation:
\* a page is rendered, none can be, or the tab is hidden.  (The listeners of
\* earlier installations are gone.)
OnePageRenderedOrForceFetch(k) == k = Len(eager) /\ eager[k].next = 0

\* Then, if the document is still shown, "copy" is listened to, and the other
\* pages are asked for unless they are many.
BeginEager(k) ==
    /\ OnePageRenderedOrForceFetch(k)
    /\ eager[k].doc = s.doc /\ s.pages # Empty
    /\ LET B == IF Docs[s.doc] <= LazyAbove THEN Batch(2, Docs[s.doc]) ELSE {}
       IN  eager' = [eager EXCEPT ![k].next = 2 + Cardinality(B), ![k].asked = B]
    /\ UNCHANGED <<s, timer, links, copy, counts>>

\* The answer for page p: the page, or "Transport destroyed".  The document
\* is not compared with the viewer's; without a view for the page this throws,
\* and no more pages are asked for.
EagerAnswer(k, p) ==
    /\ p \in eager[k].asked
    /\ s' = IF Alive(eager[k].doc) /\ p <= PagesCount(s) /\ s.pages[p] = 0
            THEN [s EXCEPT !.pages[p] = eager[k].doc] ELSE s
    /\ LET count == Docs[eager[k].doc]
           thrown == Alive(eager[k].doc) /\ p > PagesCount(s)
           on == p % PauseEvery = 0 /\ ~thrown
           B == IF on THEN Batch(eager[k].next, count) ELSE {}
       IN  eager' = [eager EXCEPT ![k].asked = (@ \ {p}) \cup B,
                                  ![k].next = @ + Cardinality(B)]
    /\ UNCHANGED <<timer, links, copy, counts>>

\* #copyCallback: the user copies with everything selected.  One copy at a
\* time; the pages are asked for one after the other.
CopyAll ==
    /\ Input /\ s.pages # Empty /\ eager[Len(eager)].next # 0
    /\ copy' = IF copy # Empty THEN copy
               ELSE [began |-> s.doc, count |-> Docs[s.doc], page |-> 1, doc |-> s.doc,
                     read |-> {}, interrupted |-> FALSE]
    /\ UNCHANGED <<s, timer, eager, links, loaded, throws>>

\* Escape.
InterruptCopy ==
    /\ copy # Empty
    /\ copy' = [copy EXCEPT !.interrupted = TRUE]
    /\ UNCHANGED <<s, timer, eager, links, counts>>

\* getAllText has the text of a page: the next page is asked of the document
\* that is shown by now.  (A destroyed document may still answer once.)
TextAnswer ==
    /\ copy # Empty /\ copy.page <= copy.count /\ copy.page <= Docs[copy.doc]
    /\ copy' = IF copy.interrupted /\ copy.page < copy.count THEN Empty
               ELSE [copy EXCEPT !.page = @ + 1, !.doc = s.doc, !.read = @ \cup {copy.doc}]
    /\ UNCHANGED <<s, timer, eager, links, counts>>

\* Or an error: there is no such page, or the document is destroyed.
TextFails ==
    /\ copy # Empty /\ copy.page <= copy.count
    /\ copy.page > Docs[copy.doc] \/ ~Alive(copy.doc)
    /\ copy' = Empty
    /\ UNCHANGED <<s, timer, eager, links, counts>>

\* The text is in the clipboard.
CopyWritten ==
    /\ copy # Empty /\ copy.page > copy.count
    /\ copy' = Empty
    /\ UNCHANGED <<s, timer, eager, links, counts>>

ViewNext ==
    \/ CopyAll \/ InterruptCopy \/ TextAnswer \/ TextFails \/ CopyWritten
    \/ Commit \/ Rollback \/ RollbackFails \/ Frame \/ ScrollTimeout \/ NamedAction
    \/ \E n \in {s.page - 1, s.page + 1, Docs[1]} : ShowPage(n)
    \/ \E v \in Values : SetZoom(v)
    \/ \E y \in 0 .. MaxTop(s) : Scroll(y)
    \/ \E n \in 1 .. PagesCount(s), v \in LinkValues \cup {Empty}, y \in 0 .. Points : FollowLink(n, v, y)
    \/ \E l \in links : DestinationKnown(l) \/ GoToDestination(l) \/ LinkLost(l)
    \/ \E k \in DOMAIN eager : BeginEager(k) \/ \E p \in eager[k].asked : EagerAnswer(k, p)

ViewSpec == ViewInit /\ [][ViewNext]_viewVars

-----------------------------------------------------------------------------
(***************************************************************************)
(* Properties.                                                             *)
(***************************************************************************)

\* The types; and the page numbers exist: whatever late destination, scroll
\* or shorter document came in between, the viewer's page is one of the
\* document it shows and the controller's one of the document it took over.
ViewTypeOK ==
    /\ {s.doc, s.active} \subseteq 0 .. Len(Docs)
    /\ s.cur \in 1 .. Max({1, PagesCount(s)})
    /\ s.page \in 1 .. ActivePages(s)
    /\ s.loc # Empty => s.loc.page \in 1 .. PagesCount(s)
    /\ s.mode = "page" /\ s.pages # Empty => s.shown = {s.cur}
    /\ s.top \in 0 .. MaxTop(s) \/ s.pages = Empty
    /\ s.zoom \in Values /\ s.value \in Values \cup {Empty}
    /\ ~s.installing

\* The controller knows, and its controls say, what the viewer shows:
\* document, page and zoom, with the percentage of a zoom that is not one of
\* the options, after any interleaving of controls, scrolls, links and updates.  (A rollback that
\* fails leaves a document without pages.)
InStep ==
    s.pages # Empty =>
        /\ s.active = s.doc /\ s.page = s.cur /\ s.zoom = s.value
        /\ s.shows = [page |-> s.cur, pages |-> Docs[s.doc], zoom |-> MatchingZoom(s, s.value)]

\* No page of a replaced document gets into the views of its successor,
\* although setDocument's answers do not ask which document is shown.  The
\* text of a copy has the pages the document had when it began, which all
\* exist, none of a document before that, and is of that document alone
\* while it is shown: only a document put in its place can mix two.
PagesBelong ==
    /\ \A p \in DOMAIN s.pages : s.pages[p] \in {0, s.doc}
    /\ copy # Empty =>
          /\ \A d \in copy.read : d >= copy.began
          /\ copy.page > 1 => Docs[Max(copy.read)] >= copy.page - 1
          /\ s.doc = copy.began => copy.read \subseteq {s.doc}

\* The number shown is that of a page that can be seen, once the frame after
\* a scroll has run; or the page ends exactly at the upper edge of the view.
\* So it is when a link to the lower edge of a page is followed with the view
\* there already: the page becomes the current one, nothing scrolls, and no
\* event corrects it.
EndsAbove(w, p) == Top(w, p) + Scale(w) = w.top
PageInView == s.pages # Empty /\ ~s.moved => s.cur \in Visible(s) \/ EndsAbove(s, s.cur)

\* Both: what the controls say is true of what can be seen.
ControlsTrue == InStep /\ PageInView

\* README: the displayed page is kept across rebuilds or clamped to the last
\* one, and so is the zoom: also by a rollback, and when nothing else of the
\* viewer's state survives.  A zoom keeps the first page of the view in view,
\* if half a point of it or more was there: the location, in whole points, is
\* the lower edge of the page otherwise.
HalfAPoint(w, p) == 2 * Points * (Top(w, p) + Scale(w) - w.top) >= Scale(w)
KeepsPlace ==
    [][/\ s'.pages # Empty /\ Len(eager') > Len(eager) =>
             s'.cur = ClampPage(s.page, Docs[s'.doc]) /\ s'.value = s.zoom
       /\ s.pages # Empty /\ ~s.moved /\ s'.scale # s.scale /\ s'.doc = s.doc /\ links' = links
          /\ Len(eager') = Len(eager) /\ loaded' = loaded
          /\ HalfAPoint(s, Least(Visible(s))) =>
             Least(Visible(s)) \in Visible(s')]_viewVars
=============================================================================
