----------------------------- MODULE PageLayers -----------------------------
(***************************************************************************)
(* The layers over one page of the PDF.js viewer: text (TextLayerBuilder,  *)
(* with the page's TextHighlighter and TextAccessibilityManager and the    *)
(* listener for selections), structure, annotations, drawings and the      *)
(* annotation editor.  The editor's layer stays hidden: it is empty and no  *)
(* editor is chosen on the live page, so its show() returns at once.       *)
(*                                                                         *)
(* Each draw of the page ends with a chain of awaits that renders the      *)
(* layers.  A zoom or an eviction resets the page while chains of earlier  *)
(* draws still wait: they go on with whatever the page holds by then.      *)
(*                                                                         *)
(* A builder, a structure tree and a canvas carry the number of the draw   *)
(* that made them; 0 is none.  The page has text and an annotation, whose  *)
(* id is the same in every annotation layer.  An await of a settled        *)
(* promise is no step.                                                     *)
(***************************************************************************)
EXTENDS Integers, FiniteSets

CONSTANTS
    MaxDraws,       \* model bound: draws of the page
    MaxZooms,       \* model bound: changes of the scale
    MaxEvicts       \* model bound: times the page loses its place in the buffer

ASSUME PageLayersAssumption ==
    MaxDraws \in Nat \ {0} /\ MaxZooms \in Nat /\ MaxEvicts \in Nat

VARIABLES
    state,      \* renderingState: initial, running, finished
    failed,     \* the last drawing ended with an error: no layers follow
    gen,        \* the number of the last draw
    page,       \* the page's fields: text, annot, struct, draw, editor, canvas
    text,       \* TextLayerBuilder: [tries, streaming, done, hidden]
    annot,      \* AnnotationLayerBuilder: [div, built, cancelled, hidden]
    mind,       \* the page's highlighter (highlight), its accessibility manager
                \* (access, waiting elements, nodes, and whether a text div owns the
                \* annotation), and the static map of text layers that can be
                \* selected, with its listener
    dom,        \* the layers in the page's div: text, annot, editor
    trees,      \* structure trees in the canvas
    waits,      \* structure trees a #renderStructTreeLayer waits for
    calls,      \* renders of an annotation layer: [b, by, stage]
    chain,      \* what each draw's chain waits for: [at, try]
    thrown,     \* an enable() found its manager enabled already
    zooms, evicts

env == <<zooms, evicts>>
layers == <<page, text, annot, mind, dom, trees>>
vars == <<state, failed, gen, layers, waits, calls, chain, thrown, env>>

Draws == 1 .. MaxDraws
NoText == [tries |-> 0, streaming |-> FALSE, done |-> FALSE, hidden |-> FALSE]
NoAnnot == [div |-> FALSE, built |-> FALSE, cancelled |-> FALSE, hidden |-> FALSE]

(***************************************************************************)
(* The layers as one record, for the operators on them.                    *)
(***************************************************************************)
Now == [page |-> page, text |-> text, annot |-> annot, mind |-> mind, dom |-> dom,
        trees |-> trees]

Become(w) ==
    /\ page' = w.page /\ text' = w.text /\ annot' = w.annot
    /\ mind' = w.mind /\ dom' = w.dom /\ trees' = w.trees

(***************************************************************************)
(* What a page's text layers share.                                        *)
(***************************************************************************)

\* TextHighlighter.enable and disable.
EnableHighlight(w) == [w EXCEPT !.mind.highlight = TRUE]
DisableHighlight(w) == [w EXCEPT !.mind.highlight = FALSE]

\* Mutant: the elements that came before the text wait for ever.
EnableNodesOnly(w) ==
    LET there == w.mind.nodes /\ w.dom.annot # 0 /\ w.annot[w.dom.annot].built
    IN  [w EXCEPT !.mind = [@ EXCEPT !.access = TRUE, !.nodes = there, !.owned = there]]

\* TextAccessibilityManager.enable: a text div owns each element that was
\* owned before and is in the page, and those that waited.
EnableAccess(w) ==
    LET there == w.mind.nodes /\ w.dom.annot # 0 /\ w.annot[w.dom.annot].built
        own == there \/ w.mind.waiting # {}
    IN  [w EXCEPT !.mind = [@ EXCEPT !.access = TRUE, !.nodes = own, !.owned = own,
                                     !.waiting = {}]]

\* disable.
DisableAccess(w) ==
    IF ~w.mind.access THEN w
    ELSE [w EXCEPT !.mind = [@ EXCEPT !.access = FALSE, !.owned = FALSE, !.waiting = {}]]

\* addPointerInTextLayer for the annotation of layer b.
AddPointer(w, b) ==
    IF w.mind.access THEN [w EXCEPT !.mind = [@ EXCEPT !.nodes = TRUE, !.owned = TRUE]]
    ELSE [w EXCEPT !.mind.waiting = @ \cup {b}]

\* #bindMouse and #enableGlobalSelectionListener, which does nothing if there
\* is a listener.
BindMouse(w, b) ==
    [w EXCEPT !.mind.selectable = @ \cup {b}, !.mind.listening = TRUE]

\* #removeGlobalSelectionListener.
UnbindMouse(w, b) ==
    LET rest == w.mind.selectable \ {b}
    IN  [w EXCEPT !.mind.selectable = rest, !.mind.listening = @ /\ rest # {}]

\* #addLayer: the node of builder b takes the place of the layer's node before.
AddLayer(w, name, b) == [w EXCEPT !.dom[name] = b]

\* TextLayerBuilder.cancel.
CancelText(w, b) ==
    UnbindMouse(DisableAccess(DisableHighlight([w EXCEPT !.text[b].streaming = FALSE])), b)

\* Mutant: the highlighter stays with a hidden layer.
HideDivOnly(w, b) == [w EXCEPT !.text[b].hidden = w.text[b].done]

\* TextLayerBuilder.hide: only a layer that is done can be hidden.
HideText(w, b) ==
    IF w.text[b].hidden \/ ~w.text[b].done THEN w
    ELSE DisableHighlight([w EXCEPT !.text[b].hidden = TRUE])

\* TextLayerBuilder.render: a layer that is done is updated, any other starts
\* anew.
RenderText(w, b) ==
    IF w.text[b].done
    THEN EnableHighlight([w EXCEPT !.text[b].hidden = FALSE])
    ELSE [CancelText(w, b) EXCEPT !.text[b].tries = @ + 1, !.text[b].streaming = TRUE]

\* PDFPageView.cancelRendering: without "keep" every layer is cancelled and
\* dropped, with it those that have no div yet; the structure tree goes with
\* the text layer, the drawings with the editor.  The canvas of a drawing
\* under way goes in any case.
CancelLayers(w, keep) ==
    LET p == w.page
        dropText == p.text # 0 /\ ~keep
        dropAnnot == p.annot # 0 /\ ~(keep /\ w.annot[p.annot].div)
        dropEditor == p.editor # 0 /\ ~keep
        quiet == IF dropText THEN CancelText(w, p.text) ELSE w
        left == [p EXCEPT
                    !.text = IF dropText THEN 0 ELSE @,
                    !.struct = IF dropText \/ p.text = 0 THEN 0 ELSE @,
                    !.annot = IF dropAnnot THEN 0 ELSE @,
                    !.draw = @ /\ ~dropEditor,
                    !.editor = IF dropEditor THEN 0 ELSE @,
                    !.canvas = IF state = "running" THEN 0 ELSE @]
    IN  [quiet EXCEPT
            !.page = left,
            !.annot = [b \in Draws |-> IF dropAnnot /\ b = p.annot
                                       THEN [@[b] EXCEPT !.cancelled = TRUE] ELSE @[b]],
            !.trees = IF state = "running" THEN {} ELSE @]

\* PDFPageView.reset: the nodes of layers that are not kept are removed, the
\* others are hidden.
ResetLayers(w, keep) ==
    LET c == CancelLayers(w, keep)
        p == c.page
        hidden == IF p.text # 0 THEN HideText(c, p.text) ELSE c
    IN  [hidden EXCEPT
            !.annot = [b \in Draws |-> IF b = p.annot /\ @[b].div
                                       THEN [@[b] EXCEPT !.hidden = TRUE] ELSE @[b]],
            !.dom = [text |-> IF @.text = p.text THEN @.text ELSE 0,
                     annot |-> IF @.annot = p.annot THEN @.annot ELSE 0,
                     editor |-> IF @.editor = p.editor THEN @.editor ELSE 0],
            !.page.canvas = IF keep THEN @ ELSE 0,
            !.trees = IF keep THEN @ ELSE {}]

\* #renderAnnotationLayer of builder b: one that has its div is updated and
\* unhidden, else its data are asked for.
UpdateAnnot(w, b) ==
    IF b # 0 /\ w.annot[b].div THEN [w EXCEPT !.annot[b].hidden = FALSE] ELSE w

AskAnnot(w, b, by) ==
    IF b # 0 /\ ~w.annot[b].div THEN {[b |-> b, by |-> by, stage |-> "data"]} ELSE {}

\* #renderTextLayer when it does not wait: #renderStructTreeLayer follows.
TreeWait(w) ==
    IF w.page.text # 0 /\ w.text[w.page.text].done THEN {w.page.struct} \ {0} ELSE {}

(***************************************************************************)
(* The page.                                                               *)
(***************************************************************************)
Init ==
    /\ state = "initial" /\ failed = FALSE /\ gen = 0
    /\ page = [text |-> 0, annot |-> 0, struct |-> 0, draw |-> FALSE, editor |-> 0,
               canvas |-> 0]
    /\ text = [b \in Draws |-> NoText] /\ annot = [b \in Draws |-> NoAnnot]
    /\ mind = [highlight |-> FALSE, access |-> FALSE, waiting |-> {}, nodes |-> FALSE,
               owned |-> FALSE, selectable |-> {}, listening |-> FALSE]
    /\ dom = [text |-> 0, annot |-> 0, editor |-> 0]
    /\ trees = {} /\ waits = {} /\ calls = {}
    /\ chain = [g \in Draws |-> [at |-> "none", try |-> 0, of |-> 0]]
    /\ thrown = FALSE
    /\ zooms = 0 /\ evicts = 0

\* draw up to its return: builders the page does not have, and a canvas.
Draw ==
    /\ state = "initial" /\ gen < MaxDraws
    /\ state' = "running" /\ gen' = gen + 1 /\ failed' = FALSE
    /\ page' = [page EXCEPT !.text = IF @ = 0 THEN gen + 1 ELSE @,
                            !.annot = IF @ = 0 THEN gen + 1 ELSE @,
                            !.canvas = gen + 1]
    /\ trees' = {}
    /\ UNCHANGED <<text, annot, mind, dom, waits, calls, chain, thrown, env>>

\* What a chain waits for once the annotations are rendered: the text layer
\* its draw began to render, for the links in the text, if there is one.
AfterAnnot(g, w) ==
    IF w.page.annot # 0 /\ w.page.text # 0 THEN "text" ELSE "draw"

\* The drawing ends and its chain begins: the structure the text layer
\* and the annotation layer are rendered.
Finish ==
    /\ state = "running"
    /\ state' = "finished"
    /\ LET b == page.text
           w == [Now EXCEPT !.page.struct = IF @ = 0 THEN gen ELSE @]
           r == IF b # 0 THEN RenderText(w, b) ELSE w
           ask == AskAnnot(r, page.annot, gen)
       IN  /\ Become(UpdateAnnot(r, page.annot))
           /\ calls' = calls \cup ask
           /\ waits' = waits \cup TreeWait(r)
           /\ chain' = [chain EXCEPT ![gen] =
                [at |-> IF ask # {} THEN "annot" ELSE AfterAnnot(gen, r),
                 of |-> IF b # 0 /\ ~r.text[b].done THEN b ELSE 0,
                 try |-> IF b # 0 THEN r.text[b].tries ELSE 0]]
    /\ UNCHANGED <<failed, gen, thrown, env>>

\* The drawing ends with an error: no chain.
FinishWithError ==
    /\ state = "running"
    /\ state' = "finished" /\ failed' = TRUE
    /\ UNCHANGED <<gen, layers, waits, calls, chain, thrown, env>>

\* update at a new scale, the layers kept.
Zoom ==
    /\ zooms < MaxZooms /\ zooms' = zooms + 1
    /\ state' = "initial"
    /\ Become(ResetLayers(Now, TRUE))
    /\ UNCHANGED <<failed, gen, waits, calls, chain, thrown, evicts>>

\* update when the canvas is only scaled: cssTransform renders the layers the
\* page has at the new scale, also while the page is being drawn.
ZoomCanvas ==
    /\ zooms < MaxZooms /\ zooms' = zooms + 1
    /\ page.canvas # 0
    /\ LET b == page.text
           r == IF b # 0 THEN RenderText(Now, b) ELSE Now
       IN  /\ Become(UpdateAnnot(r, page.annot))
           /\ calls' = calls \cup AskAnnot(r, page.annot, -zooms')
           /\ waits' = waits \cup TreeWait(r)
    /\ UNCHANGED <<state, failed, gen, chain, thrown, evicts>>

\* The buffer destroys the page's canvas and layers.
Evict ==
    /\ evicts < MaxEvicts /\ evicts' = evicts + 1
    /\ state' = "initial"
    /\ Become(ResetLayers(Now, FALSE))
    /\ UNCHANGED <<failed, gen, waits, calls, chain, thrown, zooms>>

(***************************************************************************)
(* What the layers wait for.                                               *)
(***************************************************************************)

\* TextLayer.render ends: the layer enters the page, is highlighted and
\* becomes selectable, and #renderStructTreeLayer follows if the page still
\* has a text layer.
TextDone(b) ==
    /\ text[b].streaming
    /\ LET shown == [BindMouse(Now, b) EXCEPT
                        !.text[b].streaming = FALSE, !.text[b].done = TRUE]
           w == EnableAccess(EnableHighlight(AddLayer(shown, "text", b)))
       IN  /\ Become(w)
           /\ waits' = waits \cup TreeWait(w)
    /\ thrown' = (thrown \/ mind.highlight \/ mind.access)
    /\ UNCHANGED <<state, failed, gen, calls, chain, env>>

\* StructTreeLayerBuilder.render, and the rest of a #renderStructTreeLayer
\* that waited for it: the tree goes to the canvas the page has by now.
TreeDone(s) ==
    /\ s \in waits
    /\ waits' = waits \ {s}
    /\ trees' = IF page.canvas # 0 THEN trees \cup {s} ELSE trees
    /\ UNCHANGED <<state, failed, gen, page, text, annot, mind, dom, calls, chain,
                   thrown, env>>

\* The chain that waits for this render of the annotations goes on.
ChainOn(c, w) ==
    IF c.by > 0 THEN [chain EXCEPT ![c.by].at = AfterAnnot(c.by, w)] ELSE chain

\* Mutant: whether the layer was cancelled is not asked.
AnnotDataAnyway(c) ==
    /\ c \in calls /\ c.stage = "data"
    /\ calls' = (calls \ {c}) \cup {[c EXCEPT !.stage = "build"]}
    /\ Become(AddLayer([Now EXCEPT !.annot[c.b].div = TRUE], "annot", c.b))
    /\ UNCHANGED <<state, failed, gen, waits, chain, thrown, env>>

\* The annotations' data are there.  A cancelled layer is not built; a layer
\* that two renders asked for is built twice, the second in place of the
\* first.
AnnotData(c) ==
    /\ c \in calls /\ c.stage = "data"
    /\ LET built == AddLayer([Now EXCEPT !.annot[c.b].div = TRUE], "annot", c.b)
       IN  IF annot[c.b].cancelled
           THEN /\ calls' = calls \ {c}
                /\ chain' = ChainOn(c, Now)
                /\ UNCHANGED layers
           ELSE /\ calls' = (calls \ {c}) \cup {[c EXCEPT !.stage = "build"]}
                /\ Become(built)
                /\ UNCHANGED chain
    /\ UNCHANGED <<state, failed, gen, waits, thrown, env>>

\* AnnotationLayer.render ends: the annotation is in its layer, and a text
\* div is to own it.
AnnotBuilt(c) ==
    /\ c \in calls /\ c.stage = "build"
    /\ calls' = calls \ {c}
    /\ Become(AddPointer([Now EXCEPT !.annot[c.b].built = TRUE], c.b))
    /\ chain' = ChainOn(c, Now)
    /\ UNCHANGED <<state, failed, gen, waits, thrown, env>>

\* #injectLinkAnnotations once the text promise is settled: the links of the
\* text are added to the annotations (or, if those are not rendered yet, an
\* error is logged), and the chain goes on.
InjectLinks(g) ==
    /\ chain[g].at = "text"
    /\ chain[g].of # 0 =>
         ~(text[chain[g].of].streaming /\ text[chain[g].of].tries = chain[g].try)
    /\ chain' = [chain EXCEPT ![g].at = "draw"]
    /\ UNCHANGED <<state, failed, gen, layers, waits, calls, thrown, env>>

\* DrawLayerBuilder.render.
RenderDraw(w) == [w EXCEPT !.page.draw = TRUE]

\* AnnotationEditorLayerBuilder.render, of a builder that draw g makes if the
\* page has none: a new div enters the page, hidden; show() leaves it so.
RenderEditorLayer(w, g) ==
    IF w.page.editor # 0 THEN w ELSE AddLayer([w EXCEPT !.page.editor = g], "editor", g)

\* The rest of the chain: the draw layer, and the editor layer if the page
\* has an annotation layer.
RenderEditor(g) ==
    /\ chain[g].at = "draw"
    /\ chain' = [chain EXCEPT ![g].at = "over"]
    /\ Become(IF page.annot # 0 THEN RenderEditorLayer(RenderDraw(Now), g) ELSE RenderDraw(Now))
    /\ UNCHANGED <<state, failed, gen, waits, calls, thrown, env>>

Next ==
    \/ Draw \/ Finish \/ FinishWithError \/ Zoom \/ ZoomCanvas \/ Evict
    \/ \E b \in Draws : TextDone(b)
    \/ \E s \in waits : TreeDone(s)
    \/ \E c \in calls : AnnotData(c) \/ AnnotBuilt(c)
    \/ \E g \in Draws : InjectLinks(g) \/ RenderEditor(g)

Spec == Init /\ [][Next]_vars

-----------------------------------------------------------------------------
(***************************************************************************)
(* Properties.                                                             *)
(***************************************************************************)

\* A node in the page is of a layer the page holds, whatever was late: the
\* layers of a draw that a zoom or an eviction dropped never appear, and
\* nothing shown has been cancelled.
LayersOwned ==
    /\ dom.text \in {0, page.text} /\ dom.annot \in {0, page.annot}
    /\ dom.editor \in {0, page.editor}
    /\ page.annot # 0 => ~annot[page.annot].cancelled
    /\ \A b \in Draws \ {page.text} : ~text[b].streaming
    /\ page.canvas = 0 => trees = {}

\* The page's one highlighter and one accessibility manager follow the text
\* layer it shows: enable() never finds them enabled (it would throw, and the
\* layer's events would not be sent), a highlighter that is enabled has a
\* finished, visible layer, and only such layers, hidden or not, can be
\* selected, which the document's listener is there for.
HighlighterFollows ==
    /\ ~thrown
    /\ mind.highlight <=> (page.text # 0 /\ text[page.text].done /\ ~text[page.text].hidden)
    /\ mind.access <=> (page.text # 0 /\ text[page.text].done)
    /\ mind.selectable = {b \in {page.text} \cap Draws : text[b].done}
    /\ mind.listening <=> mind.selectable # {}

\* When nothing is under way, a page that was drawn without an error shows
\* its text, its annotation and the tree of its structure, its editor's layer
\* is in place, and a div of its text owns the annotation, whatever chains of
\* earlier draws went on in between and whichever of text and annotations
\* came first.
RestsLayered ==
    (/\ state = "finished" /\ ~failed /\ calls = {} /\ waits = {}
     /\ \A b \in Draws : ~text[b].streaming
     /\ \A g \in Draws : chain[g].at \in {"none", "over"})
    => /\ page.text # 0 /\ dom.text = page.text /\ ~text[page.text].hidden
       /\ page.annot # 0 /\ dom.annot = page.annot /\ ~annot[page.annot].hidden
       /\ page.editor # 0 /\ dom.editor = page.editor
       /\ page.struct \in trees
       /\ mind.owned
=============================================================================
