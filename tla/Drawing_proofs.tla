--------------------------- MODULE Drawing_proofs ---------------------------
(***************************************************************************)
(* Proofs about what PDF.js draws on the live page: which pages and detail *)
(* views (Rendering), and the layers over one page (PageLayers).           *)
(*                                                                         *)
(* PageLayers.  The page shows layers it holds and no others, and what its *)
(* text layers share follows the one that is shown, however many draws,    *)
(* zooms and evictions there are.  The invariant is one on the record of   *)
(* the layers, Sound(w, n): n draws have been begun and w is what the page *)
(* holds.  The lemmas say what each operator makes of a sound record; the  *)
(* steps then follow from them.  A second invariant, LayeredInv, says what *)
(* a page that was drawn has already and what it waits for, so that a page *)
(* at rest lacks no layer.                                                 *)
(*                                                                         *)
(* Rendering.  The invariant is again one on the record of the views,      *)
(* ViewerSound: each view's state is what its drawing does (ViewSound), a  *)
(* page whose detail view has a canvas or still asks for one is in the     *)
(* buffer, once (BufferSound); unless a frame will come, the detail views  *)
(* are those of the visible pages and cover what is shown (Covered); and   *)
(* unless a frame or a timer will come, all that is visible is drawn or    *)
(* something is under way that will ask for the rest (Awaited).  The       *)
(* lemmas follow the operators a record passes through, from Cancel to     *)
(* Update.  VisibleExact rests on the layout alone: the pages are in rows. *)
(***************************************************************************)
EXTENDS PageLayers, Rendering, FiniteSetTheorems, WellFoundedInduction, TLAPS

(***************************************************************************)
(* The layers of a page                                                    *)
(***************************************************************************)

PageRecords(n) ==
    [text : 0 .. n, annot : 0 .. n, struct : Nat, draw : BOOLEAN, editor : Nat, canvas : Nat]
Texts == [tries : Nat, streaming : BOOLEAN, done : BOOLEAN, hidden : BOOLEAN]
Annots == [div : BOOLEAN, built : BOOLEAN, cancelled : BOOLEAN, hidden : BOOLEAN]
Minds == [highlight : BOOLEAN, access : BOOLEAN, waiting : SUBSET Draws, nodes : BOOLEAN,
          owned : BOOLEAN, selectable : SUBSET Draws, listening : BOOLEAN]
Doms == [text : Nat, annot : Nat, editor : Nat]
Calls == [b : Draws, by : Int, stage : {"data", "build"}]

LayersOf(n) ==
    [page : PageRecords(n), text : [Draws -> Texts], annot : [Draws -> Annots], mind : Minds,
     dom : Doms, trees : SUBSET Nat]

\* LayersOwned of a record: where the nodes are, and the rest.
Placed(w) ==
    /\ w.dom.text \in {0, w.page.text} /\ w.dom.annot \in {0, w.page.annot}
    /\ w.dom.editor \in {0, w.page.editor}

Owned(w) ==
    /\ w.page.annot # 0 => ~w.annot[w.page.annot].cancelled
    /\ \A b \in Draws \ {w.page.text} : ~w.text[b].streaming
    /\ w.page.canvas = 0 => w.trees = {}

\* HighlighterFollows of a record.
Follows(w) ==
    LET b == w.page.text
    IN  /\ w.mind.highlight <=> (b # 0 /\ w.text[b].done /\ ~w.text[b].hidden)
        /\ w.mind.access <=> (b # 0 /\ w.text[b].done)
        /\ w.mind.selectable = {a \in {b} \cap Draws : w.text[a].done}
        /\ w.mind.listening <=> w.mind.selectable # {}

\* A layer is not rendered again once it is done, nor hidden before.
TextsSound(w) ==
    \A b \in Draws : /\ w.text[b].streaming => ~w.text[b].done
                     /\ w.text[b].hidden => w.text[b].done

\* The builders of draws to come.
Unmade(w, n) == \A b \in Draws : b > n => w.text[b] = NoText /\ w.annot[b] = NoAnnot

\* All that holds of a page, also of one whose nodes are still to be removed.
Kept(w, n) ==
    w \in LayersOf(n) /\ Owned(w) /\ Follows(w) /\ TextsSound(w) /\ Unmade(w, n)

Sound(w, n) == Kept(w, n) /\ Placed(w)

\* A render of an annotation layer that the page has dropped is of one that
\* was cancelled.
CallsSound(C, w, n) ==
    \A c \in C : c.b <= n /\ (c.b # w.page.annot => w.annot[c.b].cancelled)

\* c is w with its annotation layer, if it went, cancelled.
Drops(w, c) ==
    /\ c.page.annot \in {0, w.page.annot}
    /\ \A b \in Draws :
          w.annot[b].cancelled \/ (b = w.page.annot /\ b # c.page.annot) => c.annot[b].cancelled

\* A text div owns the annotation, or will once the text is shown.
Shared(m) == IF m.access THEN m.owned /\ m.nodes ELSE m.waiting # {} \/ m.nodes

\* c is w with at most some layers dropped: those that stay keep their nodes,
\* and what has been rendered of them.
Keeps(w, c) ==
    /\ c.page.text \in {0, w.page.text} /\ c.page.annot \in {0, w.page.annot}
    /\ c.page.editor \in {0, w.page.editor}
    /\ c.page.text # 0 /\ w.dom.text = c.page.text => c.dom.text = c.page.text
    /\ c.page.annot # 0 /\ w.dom.annot = c.page.annot => c.dom.annot = c.page.annot
    /\ c.page.editor # 0 /\ w.dom.editor = c.page.editor => c.dom.editor = c.page.editor
    /\ \A b \in Draws :
          /\ c.text[b].done <=> w.text[b].done
          /\ c.annot[b].div <=> w.annot[b].div
          /\ c.annot[b].built <=> w.annot[b].built
          /\ c.annot[b].hidden => w.annot[b].hidden \/ w.annot[b].div
    /\ Shared(w.mind) => Shared(c.mind)

\* u is w with its layers rendered: C and W are the renders and the trees that
\* are waited for then.
Renders(w, u, C, W) ==
    LET x == u.text[w.page.text]
        a == u.annot[w.page.annot]
    IN  /\ Keeps(w, u) /\ u.page = w.page /\ u.dom = w.dom /\ u.trees = w.trees
        /\ w.page.text # 0 =>
             /\ x.streaming \/ (x.done /\ ~x.hidden)
             /\ x.streaming \/ {w.page.struct} \ {0} \subseteq W
        /\ w.page.annot # 0 =>
             IF a.div THEN ~a.hidden
             ELSE \E c \in C : c.b = w.page.annot /\ c.stage = "data"
        /\ \A c \in C : c.stage = "data"

IInv ==
    /\ gen \in 0 .. MaxDraws /\ waits \subseteq Nat /\ zooms \in Nat /\ calls \subseteq Calls
    /\ Sound(Now, gen) /\ CallsSound(calls, Now, gen)
    /\ ~thrown

-----------------------------------------------------------------------------
(***************************************************************************)
(* What the operators make of a record.                                    *)
(***************************************************************************)

\* The variables become the record.
LEMMA BecomeIsNow ==
    ASSUME NEW n \in Nat, NEW w \in LayersOf(n), Become(w)
    PROVE  Now' = w
BY SMT DEF Become, Now, LayersOf

LEMMA NowType == IInv => Now \in LayersOf(gen)
BY DEF IInv, Sound, Kept

\* A record with one field changed.
LEMMA Changes ==
    ASSUME NEW n \in Nat, NEW w \in LayersOf(n)
    PROVE  /\ \A t \in [Draws -> Texts] :
                LET c == [w EXCEPT !.text = t]
                IN  /\ c \in LayersOf(n) /\ c.page = w.page /\ c.text = t /\ c.annot = w.annot
                    /\ c.mind = w.mind /\ c.dom = w.dom /\ c.trees = w.trees
           /\ \A a \in [Draws -> Annots] :
                LET c == [w EXCEPT !.annot = a]
                IN  /\ c \in LayersOf(n) /\ c.page = w.page /\ c.text = w.text /\ c.annot = a
                    /\ c.mind = w.mind /\ c.dom = w.dom /\ c.trees = w.trees
           /\ \A m \in Minds :
                LET c == [w EXCEPT !.mind = m]
                IN  /\ c \in LayersOf(n) /\ c.page = w.page /\ c.text = w.text
                    /\ c.annot = w.annot /\ c.mind = m /\ c.dom = w.dom /\ c.trees = w.trees
           /\ \A d \in Doms :
                LET c == [w EXCEPT !.dom = d]
                IN  /\ c \in LayersOf(n) /\ c.page = w.page /\ c.text = w.text
                    /\ c.annot = w.annot /\ c.mind = w.mind /\ c.dom = d /\ c.trees = w.trees
BY SMT DEF LayersOf

\* A text layer that starts or ends to stream, is done, or is hidden.
LEMMA TextFields ==
    ASSUME NEW x \in Texts, NEW v \in BOOLEAN, NEW k \in Nat
    PROVE  /\ [x EXCEPT !.streaming = v] \in Texts
           /\ [x EXCEPT !.hidden = v] \in Texts
           /\ [x EXCEPT !.streaming = v, !.done = v] \in Texts
BY DEF Texts

\* Changes of what the text layers share: the highlighter, the accessibility
\* manager.
LEMMA HighlightField ==
    ASSUME NEW m \in Minds, NEW v \in BOOLEAN
    PROVE  LET c == [m EXCEPT !.highlight = v]
           IN  /\ c \in Minds /\ c.highlight = v /\ c.access = m.access
               /\ c.selectable = m.selectable /\ c.listening = m.listening
               /\ c.nodes = m.nodes /\ c.owned = m.owned /\ c.waiting = m.waiting
BY DEF Minds

LEMMA AccessOff ==
    ASSUME NEW m \in Minds
    PROVE  LET c == [m EXCEPT !.access = FALSE, !.owned = FALSE, !.waiting = {}]
           IN  /\ c \in Minds /\ c.highlight = m.highlight /\ ~c.access
               /\ c.selectable = m.selectable /\ c.listening = m.listening
               /\ c.nodes = m.nodes
BY DEF Minds

\* Cancelling a text layer: it does not stream, and what the text layers
\* share is off.
LEMMA CancelTextEffect ==
    ASSUME NEW n \in Nat, NEW w \in LayersOf(n), NEW b \in Draws
    PROVE  LET c == CancelText(w, b)
           IN  /\ c \in LayersOf(n)
               /\ c.page = w.page /\ c.annot = w.annot /\ c.dom = w.dom /\ c.trees = w.trees
               /\ c.text = [w.text EXCEPT ![b].streaming = FALSE]
               /\ ~c.mind.highlight /\ ~c.mind.access
               /\ c.mind.selectable = w.mind.selectable \ {b}
               /\ c.mind.listening <=> (w.mind.listening /\ c.mind.selectable # {})
               /\ Shared(w.mind) => Shared(c.mind)
<1> DEFINE t == [w.text EXCEPT ![b] = [w.text[b] EXCEPT !.streaming = FALSE]]
           s == [w EXCEPT !.text = t]
           mh == [s.mind EXCEPT !.highlight = FALSE]
           h == [s EXCEPT !.mind = mh]
           ma == IF ~h.mind.access THEN h.mind
                 ELSE [h.mind EXCEPT !.access = FALSE, !.owned = FALSE, !.waiting = {}]
           a == DisableAccess(h)
           mu == [a.mind EXCEPT !.selectable = a.mind.selectable \ {b},
                                !.listening = a.mind.listening /\ a.mind.selectable \ {b} # {}]
           u == UnbindMouse(a, b)
<1>1. t \in [Draws -> Texts]
  <2>1. w.text \in [Draws -> Texts]
    BY DEF LayersOf
  <2>2. [w.text[b] EXCEPT !.streaming = FALSE] \in Texts
    BY <2>1, TextFields
  <2> QED BY <2>1, <2>2
<1>2. /\ s \in LayersOf(n) /\ s.page = w.page /\ s.text = t /\ s.annot = w.annot
      /\ s.mind = w.mind /\ s.dom = w.dom /\ s.trees = w.trees
  <2> HIDE DEF t
  <2> QED BY <1>1, Changes
<1> HIDE DEF s, t
<1>3. /\ mh \in Minds /\ ~mh.highlight
      /\ mh.selectable = s.mind.selectable /\ mh.listening = s.mind.listening
      /\ Shared(s.mind) => Shared(mh)
  <2>1. s.mind \in Minds
    BY <1>2 DEF LayersOf
  <2>2. /\ mh \in Minds /\ ~mh.highlight
        /\ mh.selectable = s.mind.selectable /\ mh.listening = s.mind.listening
        /\ mh.access = s.mind.access /\ mh.nodes = s.mind.nodes
        /\ mh.owned = s.mind.owned /\ mh.waiting = s.mind.waiting
    BY <2>1, HighlightField
  <2> HIDE DEF mh
  <2> QED BY <2>2 DEF Shared
<1> HIDE DEF mh
<1>4. /\ h \in LayersOf(n) /\ h.page = s.page /\ h.text = s.text /\ h.annot = s.annot
      /\ h.mind = mh /\ h.dom = s.dom /\ h.trees = s.trees
  BY <1>2, <1>3, Changes
<1> HIDE DEF h
<1>5. /\ ma \in Minds /\ ~ma.access /\ ma.highlight = h.mind.highlight
      /\ ma.selectable = h.mind.selectable /\ ma.listening = h.mind.listening
      /\ Shared(h.mind) => Shared(ma)
  <2>1. h.mind \in Minds
    BY <1>4 DEF LayersOf
  <2>2. CASE ~h.mind.access
    BY <2>1, <2>2
  <2>3. CASE h.mind.access
    <3>1. ma = [h.mind EXCEPT !.access = FALSE, !.owned = FALSE, !.waiting = {}]
      BY <2>3
    <3> HIDE DEF ma
    <3> QED BY <2>1, <2>3, <3>1, AccessOff DEF Shared
  <2> QED BY <2>2, <2>3
<1>6. /\ a \in LayersOf(n) /\ a.page = h.page /\ a.text = h.text /\ a.annot = h.annot
      /\ a.mind = ma /\ a.dom = h.dom /\ a.trees = h.trees
  <2>1. CASE ~h.mind.access
    BY <2>1, <1>4 DEF DisableAccess
  <2>2. CASE h.mind.access
    <3>1. a = [h EXCEPT !.mind = ma]
      BY <2>2 DEF DisableAccess
    <3> HIDE DEF a, ma
    <3> QED BY <3>1, <1>4, <1>5, Changes
  <2> QED BY <2>1, <2>2
<1> HIDE DEF a, ma
<1>7. /\ mu \in Minds /\ mu.highlight = a.mind.highlight /\ mu.access = a.mind.access
      /\ mu.selectable = a.mind.selectable \ {b}
      /\ mu.listening <=> (a.mind.listening /\ mu.selectable # {})
      /\ Shared(a.mind) => Shared(mu)
  <2> DEFINE S == a.mind.selectable \ {b}
             v == a.mind.listening /\ S # {}
  <2>1. a.mind \in Minds
    BY <1>6 DEF LayersOf
  <2>2. S \in SUBSET Draws /\ v \in BOOLEAN
    BY <2>1 DEF Minds
  <2>3. mu = [a.mind EXCEPT !.selectable = S, !.listening = v]
    BY DEF mu
  <2> HIDE DEF S, v, mu
  <2>4. /\ mu \in Minds /\ mu.highlight = a.mind.highlight /\ mu.access = a.mind.access
        /\ mu.selectable = S /\ mu.listening = v
        /\ mu.nodes = a.mind.nodes /\ mu.owned = a.mind.owned /\ mu.waiting = a.mind.waiting
    BY <2>1, <2>2, <2>3 DEF Minds
  <2> QED BY <2>4 DEF S, v, Shared
<1>8. u = [a EXCEPT !.mind = mu]
  BY DEF UnbindMouse
<1>9. CancelText(w, b) = u
  BY DEF CancelText, DisableHighlight, u, a, h, mh, s, t
<1> HIDE DEF u, mu
<1>10. /\ u \in LayersOf(n) /\ u.page = a.page /\ u.text = a.text /\ u.annot = a.annot
       /\ u.mind = mu /\ u.dom = a.dom /\ u.trees = a.trees
  BY <1>6, <1>7, <1>8, Changes
<1> QED BY <1>2, <1>3, <1>4, <1>5, <1>6, <1>7, <1>9, <1>10 DEF t

\* Hiding the page's text layer.
LEMMA HideTextKept ==
    ASSUME NEW n \in 0 .. MaxDraws, NEW w, Kept(w, n), w.page.text # 0
    PROVE  LET c == HideText(w, w.page.text)
           IN  /\ Kept(c, n)
               /\ c.page = w.page /\ c.annot = w.annot /\ c.dom = w.dom /\ c.trees = w.trees
               /\ \A a \in Draws : c.text[a].done <=> w.text[a].done
               /\ Shared(w.mind) => Shared(c.mind)
<1> DEFINE b == w.page.text
           t == [w.text EXCEPT ![b] = [w.text[b] EXCEPT !.hidden = TRUE]]
           s == [w EXCEPT !.text = t]
           m == [s.mind EXCEPT !.highlight = FALSE]
           c == [s EXCEPT !.mind = m]
<1>0. n \in Nat /\ w \in LayersOf(n) /\ b \in Draws
  BY PageLayersAssumption DEF Kept, LayersOf, PageRecords, Draws
<1>1. CASE w.text[b].hidden \/ ~w.text[b].done
  BY <1>1 DEF HideText
<1>2. CASE ~w.text[b].hidden /\ w.text[b].done
  <2>1. HideText(w, b) = c
    BY <1>2 DEF HideText, DisableHighlight
  <2> HIDE DEF b
  <2>2. w.text \in [Draws -> Texts] /\ w.text[b] \in Texts /\ w.mind \in Minds
    BY <1>0 DEF LayersOf
  <2>3. t \in [Draws -> Texts]
    BY <2>2, TextFields
  <2>4. /\ t[b].done /\ t[b].hidden /\ ~t[b].streaming
        /\ \A a \in Draws \ {b} : t[a] = w.text[a]
    BY <1>0, <1>2, <2>2 DEF Kept, TextsSound, Texts
  <2> HIDE DEF t
  <2>5. /\ s \in LayersOf(n) /\ s.page = w.page /\ s.text = t /\ s.annot = w.annot
        /\ s.mind = w.mind /\ s.dom = w.dom /\ s.trees = w.trees
    BY <1>0, <2>3, Changes
  <2> HIDE DEF s
  <2>6. /\ m \in Minds /\ ~m.highlight /\ m.access = w.mind.access
        /\ m.selectable = w.mind.selectable /\ m.listening = w.mind.listening
        /\ m.nodes = w.mind.nodes /\ m.owned = w.mind.owned /\ m.waiting = w.mind.waiting
    BY <2>2, <2>5, HighlightField
  <2> HIDE DEF m
  <2>7. /\ c \in LayersOf(n) /\ c.page = w.page /\ c.text = t /\ c.annot = w.annot
        /\ c.mind = m /\ c.dom = w.dom /\ c.trees = w.trees
    BY <1>0, <2>5, <2>6, Changes
  <2> HIDE DEF c
  <2>8. Owned(c)
    BY <2>4, <2>7 DEF Kept, Owned
  <2>9. Follows(c)
    BY <1>0, <1>2, <2>4, <2>6, <2>7 DEF Kept, Follows, b
  <2>10. TextsSound(c)
    BY <2>4, <2>7 DEF Kept, TextsSound
  <2>11. Unmade(c, n)
    <3>1. b <= n
      BY <1>0 DEF LayersOf, PageRecords, b
    <3> QED BY <1>0, <2>4, <2>7, <3>1 DEF Kept, Unmade, Draws
  <2>12. Shared(w.mind) => Shared(c.mind)
    BY <2>6, <2>7 DEF Shared
  <2>13. \A a \in Draws : c.text[a].done <=> w.text[a].done
    BY <1>2, <2>4, <2>7
  <2> QED BY <2>1, <2>7, <2>8, <2>9, <2>10, <2>11, <2>12, <2>13 DEF Kept, b
<1> QED BY <1>1, <1>2

\* Rendering the page's text layer.
LEMMA RenderTextKept ==
    ASSUME NEW n \in 0 .. MaxDraws, NEW w, Kept(w, n), w.page.text # 0
    PROVE  LET c == RenderText(w, w.page.text)
               x == c.text[w.page.text]
           IN  /\ Kept(c, n)
               /\ c.page = w.page /\ c.annot = w.annot /\ c.dom = w.dom /\ c.trees = w.trees
               /\ \A a \in Draws : c.text[a].done <=> w.text[a].done
               /\ Shared(w.mind) => Shared(c.mind)
               /\ x.streaming \/ (x.done /\ ~x.hidden)
<1> DEFINE b == w.page.text
           c == RenderText(w, b)
<1>0. /\ n \in Nat /\ w \in LayersOf(n) /\ b \in Draws /\ b <= n
      /\ w.text \in [Draws -> Texts] /\ w.text[b] \in Texts /\ w.mind \in Minds
  BY PageLayersAssumption DEF Kept, LayersOf, PageRecords, Draws
<1>1. CASE w.text[b].done
  <2> DEFINE t == [w.text EXCEPT ![b] = [w.text[b] EXCEPT !.hidden = FALSE]]
             s == [w EXCEPT !.text = t]
             m == [s.mind EXCEPT !.highlight = TRUE]
  <2>1. c = [s EXCEPT !.mind = m]
    BY <1>1 DEF RenderText, EnableHighlight
  <2> HIDE DEF b, c
  <2>2. t \in [Draws -> Texts]
    BY <1>0, TextFields
  <2>3. /\ t[b].done /\ ~t[b].hidden /\ ~t[b].streaming
        /\ \A a \in Draws \ {b} : t[a] = w.text[a]
    BY <1>0, <1>1 DEF Kept, TextsSound, Texts
  <2> HIDE DEF t
  <2>4. /\ s \in LayersOf(n) /\ s.page = w.page /\ s.text = t /\ s.annot = w.annot
        /\ s.mind = w.mind /\ s.dom = w.dom /\ s.trees = w.trees
    BY <1>0, <2>2, Changes
  <2> HIDE DEF s
  <2>5. /\ m \in Minds /\ m.highlight /\ m.access = w.mind.access
        /\ m.selectable = w.mind.selectable /\ m.listening = w.mind.listening
        /\ m.nodes = w.mind.nodes /\ m.owned = w.mind.owned /\ m.waiting = w.mind.waiting
    BY <1>0, <2>4, HighlightField
  <2> HIDE DEF m
  <2>6. /\ c \in LayersOf(n) /\ c.page = w.page /\ c.text = t /\ c.annot = w.annot
        /\ c.mind = m /\ c.dom = w.dom /\ c.trees = w.trees
    BY <1>0, <2>1, <2>4, <2>5, Changes
  <2>7. Owned(c)
    BY <2>3, <2>6 DEF Kept, Owned
  <2>8. Follows(c)
    BY <1>0, <1>1, <2>3, <2>5, <2>6 DEF Kept, Follows, b
  <2>9. TextsSound(c)
    BY <2>3, <2>6 DEF Kept, TextsSound
  <2>10. Unmade(c, n)
    BY <1>0, <2>3, <2>6 DEF Kept, Unmade, Draws
  <2>11. Shared(w.mind) => Shared(c.mind)
    BY <2>5, <2>6 DEF Shared
  <2>12. /\ \A a \in Draws : c.text[a].done <=> w.text[a].done
         /\ c.text[b].done /\ ~c.text[b].hidden
    BY <1>1, <2>3, <2>6
  <2> QED BY <2>6, <2>7, <2>8, <2>9, <2>10, <2>11, <2>12 DEF Kept, b, c
<1>2. CASE ~w.text[b].done
  <2> DEFINE s == CancelText(w, b)
             t == [s.text EXCEPT ![b] = [s.text[b] EXCEPT !.tries = s.text[b].tries + 1,
                                                         !.streaming = TRUE]]
  <2>1. c = [s EXCEPT !.text = t]
    BY <1>2 DEF RenderText
  <2> HIDE DEF b, c
  <2>2. /\ s \in LayersOf(n)
        /\ s.page = w.page /\ s.annot = w.annot /\ s.dom = w.dom /\ s.trees = w.trees
        /\ s.text = [w.text EXCEPT ![b].streaming = FALSE]
        /\ ~s.mind.highlight /\ ~s.mind.access
        /\ s.mind.selectable = w.mind.selectable \ {b}
        /\ s.mind.listening <=> (w.mind.listening /\ s.mind.selectable # {})
        /\ Shared(w.mind) => Shared(s.mind)
    BY <1>0, CancelTextEffect
  <2> HIDE DEF s
  <2>3. /\ s.text \in [Draws -> Texts] /\ s.text[b] \in Texts
        /\ ~s.text[b].done /\ ~s.text[b].hidden
        /\ \A a \in Draws \ {b} : s.text[a] = w.text[a]
    <3>1. s.text \in [Draws -> Texts] /\ s.text[b] \in Texts
      BY <1>0, <2>2 DEF LayersOf
    <3>2. s.text[b] = [w.text[b] EXCEPT !.streaming = FALSE]
      BY <1>0, <2>2
    <3>3. ~s.text[b].done /\ ~s.text[b].hidden
      BY <1>0, <1>2, <3>2 DEF Kept, TextsSound, Texts
    <3> QED BY <1>0, <2>2, <3>1, <3>3
  <2>4. /\ t \in [Draws -> Texts] /\ ~t[b].done /\ ~t[b].hidden /\ t[b].streaming
        /\ \A a \in Draws \ {b} : t[a] = w.text[a]
    <3> DEFINE k == s.text[b].tries + 1
               x == [s.text[b] EXCEPT !.tries = k, !.streaming = TRUE]
    <3>1. k \in Nat
      BY <2>3 DEF Texts
    <3> HIDE DEF k
    <3>2. x \in Texts /\ ~x.done /\ ~x.hidden /\ x.streaming
      BY <2>3, <3>1 DEF Texts
    <3>3. t = [s.text EXCEPT ![b] = x]
      BY DEF t, k
    <3> HIDE DEF x
    <3> QED BY <1>0, <2>3, <3>2, <3>3
  <2> HIDE DEF t
  <2>5. /\ c \in LayersOf(n) /\ c.page = w.page /\ c.text = t /\ c.annot = w.annot
        /\ c.mind = s.mind /\ c.dom = w.dom /\ c.trees = w.trees
    BY <1>0, <2>1, <2>2, <2>4, Changes
  <2>6. Owned(c)
    BY <2>4, <2>5 DEF Kept, Owned, b
  <2>7. Follows(c)
    BY <1>0, <1>2, <2>2, <2>4, <2>5 DEF Kept, Follows, b
  <2>8. TextsSound(c)
    BY <2>4, <2>5 DEF Kept, TextsSound
  <2>9. Unmade(c, n)
    BY <1>0, <2>4, <2>5 DEF Kept, Unmade, Draws
  <2>10. /\ \A a \in Draws : c.text[a].done <=> w.text[a].done
         /\ c.text[b].streaming
    BY <1>2, <2>4, <2>5
  <2> QED BY <2>2, <2>5, <2>6, <2>7, <2>8, <2>9, <2>10 DEF Kept, b, c
<1> QED BY <1>1, <1>2

\* The layers that are cancelled are dropped with what they share.
LEMMA CancelLayersKept ==
    ASSUME NEW n \in 0 .. MaxDraws, NEW w, Kept(w, n), NEW keep \in BOOLEAN
    PROVE  LET c == CancelLayers(w, keep)
           IN  Kept(c, n) /\ Drops(w, c) /\ Keeps(w, c) /\ c.dom = w.dom
<1> DEFINE p == w.page
           dropText == p.text # 0 /\ ~keep
           dropAnnot == p.annot # 0 /\ ~(keep /\ w.annot[p.annot].div)
           dropEditor == p.editor # 0 /\ ~keep
           s == IF dropText THEN CancelText(w, p.text) ELSE w
           A == [b \in Draws |-> IF dropAnnot /\ b = p.annot
                                 THEN [s.annot[b] EXCEPT !.cancelled = TRUE] ELSE s.annot[b]]
           P == [p EXCEPT !.text = IF dropText THEN 0 ELSE @,
                          !.struct = IF dropText \/ p.text = 0 THEN 0 ELSE @,
                          !.annot = IF dropAnnot THEN 0 ELSE @,
                          !.draw = @ /\ ~dropEditor,
                          !.editor = IF dropEditor THEN 0 ELSE @,
                          !.canvas = IF state = "running" THEN 0 ELSE @]
           T == IF state = "running" THEN {} ELSE s.trees
           c == CancelLayers(w, keep)
<1>0. n \in Nat /\ w \in LayersOf(n)
  BY PageLayersAssumption DEF Kept
<1>1. c = [s EXCEPT !.page = P, !.annot = A, !.trees = T]
  BY DEF CancelLayers
<1>2. /\ p \in PageRecords(n) /\ w.annot \in [Draws -> Annots] /\ w.text \in [Draws -> Texts]
      /\ w.trees \in SUBSET Nat
  BY <1>0 DEF LayersOf
<1>3. 0 .. n = {0} \cup {b \in Draws : b <= n}
  BY <1>0, PageLayersAssumption DEF Draws
<1>4. p.text \in 0 .. n /\ p.annot \in 0 .. n
  BY <1>2 DEF PageRecords
<1> HIDE DEF c, p
<1>5. /\ s \in LayersOf(n)
      /\ s.page = p /\ s.annot = w.annot /\ s.dom = w.dom /\ s.trees = w.trees
      /\ \A b \in Draws \ {p.text} : s.text[b] = w.text[b]
      /\ ~dropText => s = w
  <2>1. CASE dropText
    <3>1. p.text \in Draws
      BY <1>3, <1>4, <2>1
    <3>2. s = CancelText(w, p.text)
      BY <2>1
    <3> HIDE DEF s
    <3> DEFINE b == p.text
    <3> HIDE DEF b
    <3>3. /\ s \in LayersOf(n)
          /\ s.page = w.page /\ s.annot = w.annot /\ s.dom = w.dom /\ s.trees = w.trees
          /\ s.text = [w.text EXCEPT ![b].streaming = FALSE]
      <4>1. b \in Draws /\ s = CancelText(w, b)
        BY <3>1, <3>2 DEF b
      <4> QED BY ONLY <1>0, <4>1, CancelTextEffect
    <3> QED BY <1>2, <2>1, <3>3 DEF p, b
  <2>2. CASE ~dropText
    BY <1>0, <2>2 DEF p
  <2> QED BY <2>1, <2>2
<1>6. ASSUME dropText
      PROVE  /\ p.text \in Draws
             /\ s.text[p.text].done = w.text[p.text].done
             /\ s.text[p.text].hidden = w.text[p.text].hidden
             /\ ~s.text[p.text].streaming
             /\ ~s.mind.highlight /\ ~s.mind.access
             /\ s.mind.selectable = w.mind.selectable \ {p.text}
             /\ s.mind.listening <=> (w.mind.listening /\ s.mind.selectable # {})
             /\ Shared(w.mind) => Shared(s.mind)
  <2>1. p.text \in Draws /\ w.text[p.text] \in Texts
    BY <1>2, <1>3, <1>4, <1>6
  <2>2. s = CancelText(w, p.text)
    BY <1>6
  <2> HIDE DEF s, dropText
  <2>3. /\ s.text = [w.text EXCEPT ![p.text].streaming = FALSE]
        /\ ~s.mind.highlight /\ ~s.mind.access
        /\ s.mind.selectable = w.mind.selectable \ {p.text}
        /\ s.mind.listening <=> (w.mind.listening /\ s.mind.selectable # {})
        /\ Shared(w.mind) => Shared(s.mind)
    BY <1>0, <2>1, <2>2, CancelTextEffect
  <2>4. s.text[p.text] = [w.text[p.text] EXCEPT !.streaming = FALSE]
    BY <1>2, <2>1, <2>3
  <2>5. /\ s.text[p.text].done = w.text[p.text].done
        /\ s.text[p.text].hidden = w.text[p.text].hidden
        /\ ~s.text[p.text].streaming
    BY <2>1, <2>4 DEF Texts
  <2> QED BY <2>1, <2>3, <2>5
<1> HIDE DEF s
<1>7. /\ A \in [Draws -> Annots]
      /\ \A b \in Draws : A[b].cancelled <=>
            (w.annot[b].cancelled \/ (dropAnnot /\ b = p.annot))
      /\ \A b \in Draws : b # p.annot => A[b] = w.annot[b]
      /\ \A b \in Draws : /\ A[b].div = w.annot[b].div /\ A[b].built = w.annot[b].built
                          /\ A[b].hidden = w.annot[b].hidden
  <2>1. \A x \in Annots : LET y == [x EXCEPT !.cancelled = TRUE]
                          IN  /\ y \in Annots /\ y.cancelled
                              /\ y.div = x.div /\ y.built = x.built /\ y.hidden = x.hidden
    BY DEF Annots
  <2> HIDE DEF dropAnnot
  <2> QED BY <1>2, <1>5, <2>1
<1>8. /\ P \in PageRecords(n)
      /\ P.text = IF dropText THEN 0 ELSE p.text
      /\ P.annot = IF dropAnnot THEN 0 ELSE p.annot
      /\ P.editor = IF dropEditor THEN 0 ELSE p.editor
      /\ P.canvas = IF state = "running" THEN 0 ELSE p.canvas
  <2> DEFINE x == IF dropText THEN 0 ELSE p.text
             u == IF dropText \/ p.text = 0 THEN 0 ELSE p.struct
             a == IF dropAnnot THEN 0 ELSE p.annot
             d == p.draw /\ ~dropEditor
             e == IF dropEditor THEN 0 ELSE p.editor
             k == IF state = "running" THEN 0 ELSE p.canvas
  <2>1. P = [p EXCEPT !.text = x, !.struct = u, !.annot = a, !.draw = d, !.editor = e,
                      !.canvas = k]
    BY DEF P
  <2> HIDE DEF P, dropText, dropAnnot, dropEditor
  <2>2. x \in 0 .. n /\ u \in Nat /\ a \in 0 .. n /\ d \in BOOLEAN /\ e \in Nat /\ k \in Nat
    BY <1>0, <1>2 DEF PageRecords
  <2> HIDE DEF x, u, a, d, e, k
  <2>3. P \in PageRecords(n) /\ P.text = x /\ P.annot = a /\ P.editor = e /\ P.canvas = k
    BY ONLY <1>0, <1>2, <2>1, <2>2 DEF PageRecords
  <2> QED BY <2>3 DEF x, a, e, k
<1>9. T \in SUBSET Nat
  <2>1. s.trees \in SUBSET Nat
    BY <1>2, <1>5
  <2>2. CASE state = "running"
    BY <2>2
  <2>3. CASE state # "running"
    <3>1. T = s.trees
      BY <2>3
    <3> QED BY <2>1, <3>1
  <2> QED BY <2>2, <2>3
<1> HIDE DEF A, P, T
<1>10. /\ c \in LayersOf(n) /\ c.page = P /\ c.text = s.text /\ c.annot = A
       /\ c.mind = s.mind /\ c.dom = w.dom /\ c.trees = T
  <2>1. /\ n \in Nat /\ s \in LayersOf(n) /\ P \in PageRecords(n) /\ A \in [Draws -> Annots]
        /\ T \in SUBSET Nat /\ s.dom = w.dom
    BY <1>0, <1>5, <1>7, <1>8, <1>9
  <2> QED BY ONLY <1>1, <2>1 DEF LayersOf
<1>11. Drops(w, c)
  BY <1>7, <1>8, <1>10 DEF Drops, p
<1>12. Owned(c)
  <2>1. P.annot # 0 => ~A[P.annot].cancelled
    BY <1>3, <1>4, <1>7, <1>8 DEF Kept, Owned, p
  <2>2. \A b \in Draws \ {P.text} : ~s.text[b].streaming
    BY <1>5, <1>6, <1>8 DEF Kept, Owned, p
  <2>3. P.canvas = 0 => T = {}
    BY <1>5, <1>8 DEF Kept, Owned, p, T
  <2> QED BY <1>10, <2>1, <2>2, <2>3 DEF Owned
<1>13. Follows(c)
  <2>1. CASE dropText
    BY <1>6, <1>8, <1>10, <2>1 DEF Kept, Follows, Draws, p
  <2>2. CASE ~dropText
    BY <1>5, <1>8, <1>10, <2>2 DEF Kept, Follows, p
  <2> QED BY <2>1, <2>2
<1>14. TextsSound(c)
  BY <1>5, <1>6, <1>10 DEF Kept, TextsSound
<1>15. Unmade(c, n)
  BY <1>0, <1>4, <1>5, <1>7, <1>10 DEF Kept, Unmade, Draws
<1>16. Keeps(w, c)
  <2>1. \A b \in Draws : s.text[b].done <=> w.text[b].done
    BY <1>5, <1>6
  <2>2. Shared(w.mind) => Shared(s.mind)
    BY <1>5, <1>6
  <2>3. /\ P.text \in {0, p.text} /\ P.annot \in {0, p.annot} /\ P.editor \in {0, p.editor}
    BY <1>8
  <2> QED BY ONLY <1>7, <1>10, <2>1, <2>2, <2>3 DEF Keeps, p
<1> QED BY <1>10, <1>11, <1>12, <1>13, <1>14, <1>15, <1>16 DEF Kept, c

\* A page that is reset, with the layers kept or not.
LEMMA ResetLayersSound ==
    ASSUME NEW n \in 0 .. MaxDraws, NEW w, Kept(w, n), NEW keep \in BOOLEAN
    PROVE  LET r == ResetLayers(w, keep)
           IN  Sound(r, n) /\ Drops(w, r) /\ Keeps(w, r)
<1> DEFINE c == CancelLayers(w, keep)
           p == c.page
           h == IF p.text # 0 THEN HideText(c, p.text) ELSE c
           A == [b \in Draws |-> IF b = p.annot /\ h.annot[b].div
                                 THEN [h.annot[b] EXCEPT !.hidden = TRUE] ELSE h.annot[b]]
           D == [text |-> IF h.dom.text = p.text THEN h.dom.text ELSE 0,
                 annot |-> IF h.dom.annot = p.annot THEN h.dom.annot ELSE 0,
                 editor |-> IF h.dom.editor = p.editor THEN h.dom.editor ELSE 0]
           k == IF keep THEN h.page.canvas ELSE 0
           P == [h.page EXCEPT !.canvas = k]
           T == IF keep THEN h.trees ELSE {}
           r == ResetLayers(w, keep)
<1>0. n \in Nat
  BY PageLayersAssumption
<1>1. r = [h EXCEPT !.annot = A, !.dom = D, !.page = P, !.trees = T]
  BY DEF ResetLayers
<1>2. Kept(c, n) /\ Drops(w, c) /\ Keeps(w, c) /\ c.dom = w.dom
  BY CancelLayersKept
<1> HIDE DEF r, c
<1>3. /\ Kept(h, n) /\ h.page = p /\ h.annot = c.annot /\ h.dom = c.dom
      /\ \A a \in Draws : h.text[a].done <=> c.text[a].done
      /\ Shared(c.mind) => Shared(h.mind)
  <2>1. CASE p.text # 0
    <3>1. h = HideText(c, p.text)
      BY <2>1
    <3> HIDE DEF h
    <3> QED BY <1>2, <2>1, <3>1, HideTextKept
  <2>2. CASE p.text = 0
    BY <1>2, <2>2
  <2> QED BY <2>1, <2>2
<1> HIDE DEF h
<1>4. /\ h \in LayersOf(n) /\ h.page \in PageRecords(n) /\ h.annot \in [Draws -> Annots]
      /\ h.dom \in Doms /\ h.trees \in SUBSET Nat
  BY <1>3 DEF Kept, LayersOf
<1>5. /\ A \in [Draws -> Annots]
      /\ \A b \in Draws : A[b].cancelled = h.annot[b].cancelled
      /\ \A b \in Draws : b # p.annot => A[b] = h.annot[b]
      /\ \A b \in Draws : /\ A[b].div = h.annot[b].div /\ A[b].built = h.annot[b].built
                          /\ A[b].hidden => h.annot[b].hidden \/ h.annot[b].div
  <2>1. \A x \in Annots : LET y == [x EXCEPT !.hidden = TRUE]
                          IN  /\ y \in Annots /\ y.cancelled = x.cancelled
                              /\ y.div = x.div /\ y.built = x.built
    BY DEF Annots
  <2> QED BY <1>4, <2>1
<1>6. /\ D \in Doms
      /\ D.text \in {0, p.text} /\ D.annot \in {0, p.annot} /\ D.editor \in {0, p.editor}
      /\ h.dom.text = p.text => D.text = p.text
      /\ h.dom.annot = p.annot => D.annot = p.annot
      /\ h.dom.editor = p.editor => D.editor = p.editor
  BY <1>4 DEF Doms
<1>7. /\ P \in PageRecords(n) /\ P.text = p.text /\ P.annot = p.annot /\ P.editor = p.editor
      /\ P.canvas = k
  <2>1. k \in Nat
    BY <1>4 DEF PageRecords
  <2> HIDE DEF k
  <2> QED BY <1>3, <1>4, <2>1 DEF PageRecords
<1>8. T \in SUBSET Nat /\ (k = 0 => T = {})
  <2>1. h.page.canvas = 0 => h.trees = {}
    BY <1>3 DEF Kept, Owned
  <2>2. CASE keep
    BY <1>4, <2>1, <2>2
  <2>3. CASE ~keep
    BY <2>3
  <2> QED BY <2>2, <2>3
<1> HIDE DEF A, D, P, T, k
<1>9. /\ r \in LayersOf(n) /\ r.page = P /\ r.text = h.text /\ r.annot = A
      /\ r.mind = h.mind /\ r.dom = D /\ r.trees = T
  BY ONLY <1>1, <1>4, <1>5, <1>6, <1>7, <1>8 DEF LayersOf
<1>10. Drops(w, r)
  BY <1>2, <1>3, <1>5, <1>7, <1>9 DEF Drops
<1>11. Placed(r)
  BY <1>6, <1>7, <1>9 DEF Placed
<1>12. Owned(r)
  <2>1. P.annot # 0 => P.annot \in Draws /\ ~A[P.annot].cancelled
    <3>1. p.annot # 0 => p.annot \in Draws
      BY <1>0, <1>3, <1>4, PageLayersAssumption DEF PageRecords, Draws
    <3> QED BY <1>3, <1>5, <1>7, <3>1 DEF Kept, Owned
  <2>2. \A b \in Draws \ {P.text} : ~h.text[b].streaming
    BY <1>3, <1>7 DEF Kept, Owned
  <2> QED BY <1>7, <1>8, <1>9, <2>1, <2>2 DEF Owned
<1>13. Follows(r)
  BY <1>3, <1>7, <1>9 DEF Kept, Follows
<1>14. TextsSound(r)
  BY <1>3, <1>9 DEF Kept, TextsSound
<1>15. Unmade(r, n)
  <2>1. p.annot <= n
    BY <1>0, <1>3, <1>4 DEF PageRecords
  <2> QED BY <1>0, <1>3, <1>4, <1>5, <1>9, <2>1 DEF Kept, Unmade, Draws
<1>16. Keeps(w, r)
  BY <1>2, <1>3, <1>5, <1>6, <1>7, <1>9 DEF Keeps
<1> QED BY <1>9, <1>10, <1>11, <1>12, <1>13, <1>14, <1>15, <1>16 DEF Kept, Sound, r

\* Changes that leave alone which layers there are, whether they were
\* cancelled, and what the text layers share.
LEMMA OtherChanges ==
    ASSUME NEW n \in 0 .. MaxDraws, NEW w, Sound(w, n), NEW c \in LayersOf(n),
           c.page.text = w.page.text, c.page.annot = w.page.annot,
           c.page.canvas = w.page.canvas, c.text = w.text, c.trees = w.trees,
           \A b \in Draws : c.annot[b].cancelled = w.annot[b].cancelled,
           \A b \in Draws : b > n => c.annot[b] = w.annot[b],
           c.mind.highlight = w.mind.highlight, c.mind.access = w.mind.access,
           c.mind.selectable = w.mind.selectable, c.mind.listening = w.mind.listening,
           Placed(c)
    PROVE  Sound(c, n) /\ Drops(w, c)
<1>1. w.page \in PageRecords(n)
  BY DEF Sound, Kept, LayersOf
<1>2. w.page.annot # 0 => w.page.annot \in Draws
  BY <1>1, PageLayersAssumption DEF PageRecords, Draws
<1>3. Owned(c)
  BY <1>2 DEF Sound, Kept, Owned
<1>4. Follows(c)
  BY DEF Sound, Kept, Follows
<1>5. TextsSound(c) /\ Unmade(c, n)
  BY DEF Sound, Kept, TextsSound, Unmade
<1>6. Drops(w, c)
  BY <1>1 DEF Drops
<1> QED BY <1>3, <1>4, <1>5, <1>6 DEF Sound, Kept

LEMMA DropsTransitive ==
    ASSUME NEW w, NEW c, NEW d, Drops(w, c), Drops(c, d)
    PROVE  Drops(w, d)
BY DEF Drops

LEMMA KeepsTransitive ==
    ASSUME NEW w, NEW c, NEW d, Keeps(w, c), Keeps(c, d)
    PROVE  Keeps(w, d)
<1>1. /\ d.page.text \in {0, w.page.text} /\ d.page.annot \in {0, w.page.annot}
      /\ d.page.editor \in {0, w.page.editor}
      /\ Shared(w.mind) => Shared(d.mind)
  BY DEF Keeps
<1>2. /\ d.page.text # 0 /\ w.dom.text = d.page.text => d.dom.text = d.page.text
      /\ d.page.annot # 0 /\ w.dom.annot = d.page.annot => d.dom.annot = d.page.annot
      /\ d.page.editor # 0 /\ w.dom.editor = d.page.editor => d.dom.editor = d.page.editor
  BY DEF Keeps
<1>3. \A b \in Draws :
          /\ d.text[b].done <=> w.text[b].done
          /\ d.annot[b].div <=> w.annot[b].div
          /\ d.annot[b].built <=> w.annot[b].built
          /\ d.annot[b].hidden => w.annot[b].hidden \/ w.annot[b].div
  BY DEF Keeps
<1> QED BY <1>1, <1>2, <1>3 DEF Keeps

\* A record with other fields of its page, and the same layers.
LEMMA SameLayers ==
    ASSUME NEW w, NEW c,
           c.page.text = w.page.text, c.page.annot = w.page.annot,
           c.page.editor = w.page.editor, c.text = w.text, c.annot = w.annot,
           c.mind = w.mind, c.dom = w.dom
    PROVE  Keeps(w, c)
BY DEF Keeps

LEMMA CallsFollow ==
    ASSUME NEW n \in Nat, NEW C \in SUBSET Calls, NEW w, NEW c,
           CallsSound(C, w, n), Drops(w, c)
    PROVE  CallsSound(C, c, n)
BY DEF CallsSound, Drops, Calls

\* The text layer and the annotation layer at a new scale, or after a draw.
LEMMA RenderTextSound ==
    ASSUME NEW n \in 0 .. MaxDraws, NEW w, Sound(w, n), w.page.text # 0
    PROVE  LET c == RenderText(w, w.page.text)
               x == c.text[w.page.text]
           IN  /\ Sound(c, n) /\ Drops(w, c) /\ Keeps(w, c)
               /\ c.page = w.page /\ c.dom = w.dom /\ c.trees = w.trees
               /\ x.streaming \/ (x.done /\ ~x.hidden)
<1> DEFINE c == RenderText(w, w.page.text)
           x == c.text[w.page.text]
<1>1. /\ Kept(c, n)
      /\ c.page = w.page /\ c.annot = w.annot /\ c.dom = w.dom /\ c.trees = w.trees
      /\ \A a \in Draws : c.text[a].done <=> w.text[a].done
      /\ Shared(w.mind) => Shared(c.mind)
      /\ x.streaming \/ (x.done /\ ~x.hidden)
  BY RenderTextKept DEF Sound
<1> HIDE DEF c
<1>2. Placed(c)
  BY <1>1 DEF Sound, Placed
<1>3. Drops(w, c)
  BY <1>1 DEF Drops
<1>4. Keeps(w, c)
  BY <1>1 DEF Keeps
<1> QED BY <1>1, <1>2, <1>3, <1>4 DEF Sound, c

LEMMA UpdateAnnotSound ==
    ASSUME NEW n \in 0 .. MaxDraws, NEW w, Sound(w, n)
    PROVE  LET c == UpdateAnnot(w, w.page.annot)
               a == c.annot[w.page.annot]
           IN  /\ Sound(c, n) /\ Drops(w, c) /\ Keeps(w, c)
               /\ c.page = w.page /\ c.text = w.text /\ c.dom = w.dom /\ c.trees = w.trees
               /\ w.page.annot # 0 /\ a.div => ~a.hidden
<1> DEFINE b == w.page.annot
           A == [w.annot EXCEPT ![b] = [w.annot[b] EXCEPT !.hidden = FALSE]]
           c == [w EXCEPT !.annot = A]
<1>0. /\ n \in Nat /\ w \in LayersOf(n) /\ w.page \in PageRecords(n)
      /\ w.annot \in [Draws -> Annots]
  BY PageLayersAssumption DEF Sound, Kept, LayersOf
<1>1. CASE b # 0 /\ w.annot[b].div
  <2>1. UpdateAnnot(w, b) = c
    BY <1>1 DEF UpdateAnnot
  <2>2. b \in Draws /\ b <= n
    BY <1>0, <1>1, PageLayersAssumption DEF PageRecords, Draws
  <2> HIDE DEF b
  <2>3. /\ A \in [Draws -> Annots]
        /\ \A a \in Draws : A[a].cancelled = w.annot[a].cancelled
        /\ \A a \in Draws : a # b => A[a] = w.annot[a]
        /\ A[b].div = w.annot[b].div /\ A[b].built = w.annot[b].built /\ ~A[b].hidden
    <3>1. LET x == [w.annot[b] EXCEPT !.hidden = FALSE]
          IN  /\ x \in Annots /\ x.cancelled = w.annot[b].cancelled
              /\ x.div = w.annot[b].div /\ x.built = w.annot[b].built /\ ~x.hidden
      BY <1>0, <2>2 DEF Annots
    <3> QED BY <1>0, <2>2, <3>1
  <2> HIDE DEF A
  <2>4. /\ c \in LayersOf(n) /\ c.page = w.page /\ c.text = w.text /\ c.annot = A
        /\ c.mind = w.mind /\ c.dom = w.dom /\ c.trees = w.trees
    BY <1>0, <2>3, Changes
  <2> HIDE DEF c
  <2>5. Placed(c)
    BY <2>4 DEF Sound, Placed
  <2>6. \A a \in Draws : a > n => c.annot[a] = w.annot[a]
    BY <1>0, <2>2, <2>3, <2>4 DEF Draws
  <2>7. Sound(c, n) /\ Drops(w, c)
    BY <2>3, <2>4, <2>5, <2>6, OtherChanges
  <2>8. Keeps(w, c)
    BY <2>2, <2>3, <2>4 DEF Keeps
  <2> QED BY <2>1, <2>3, <2>4, <2>7, <2>8 DEF b
<1>2. CASE ~(b # 0 /\ w.annot[b].div)
  <2>1. UpdateAnnot(w, b) = w
    BY <1>2 DEF UpdateAnnot
  <2>2. Drops(w, w)
    BY <1>0 DEF Drops
  <2>3. Keeps(w, w)
    BY SameLayers
  <2> QED BY <1>2, <2>1, <2>2, <2>3
<1> QED BY <1>1, <1>2

\* What a render waits for.
LEMMA AsksSound ==
    ASSUME NEW n \in 0 .. MaxDraws, NEW w, NEW c \in LayersOf(n), NEW by \in Int
    PROVE  LET C == AskAnnot(w, c.page.annot, by)
           IN  C \subseteq Calls /\ CallsSound(C, c, n)
<1>1. c.page.annot \in 0 .. n
  BY DEF LayersOf, PageRecords
<1>2. c.page.annot # 0 => c.page.annot \in Draws /\ c.page.annot <= n
  BY <1>1, PageLayersAssumption DEF Draws
<1> QED BY <1>2 DEF AskAnnot, Calls, CallsSound

LEMMA TreesAreNumbers ==
    ASSUME NEW n \in Nat, NEW w \in LayersOf(n)
    PROVE  TreeWait(w) \subseteq Nat
BY DEF TreeWait, LayersOf, PageRecords

\* The layers rendered after a draw or at a new scale.
LEMMA RenderLayers ==
    ASSUME NEW n \in 0 .. MaxDraws, NEW w, Sound(w, n), NEW by \in Int
    PROVE  LET r == IF w.page.text # 0 THEN RenderText(w, w.page.text) ELSE w
               u == UpdateAnnot(r, w.page.annot)
               C == AskAnnot(r, w.page.annot, by)
               W == TreeWait(r)
           IN  /\ Sound(u, n) /\ Drops(w, u) /\ Renders(w, u, C, W)
               /\ C \subseteq Calls /\ CallsSound(C, u, n) /\ W \subseteq Nat
<1> DEFINE r == IF w.page.text # 0 THEN RenderText(w, w.page.text) ELSE w
           u == UpdateAnnot(r, w.page.annot)
           C == AskAnnot(r, w.page.annot, by)
           W == TreeWait(r)
           x == r.text[w.page.text]
           a == u.annot[w.page.annot]
<1>0. /\ n \in Nat /\ w.page \in PageRecords(n)
      /\ w.page.annot # 0 => w.page.annot \in Draws
  <2>1. n \in Nat /\ w.page \in PageRecords(n)
    BY PageLayersAssumption DEF Sound, Kept, LayersOf
  <2> QED BY <2>1, PageLayersAssumption DEF PageRecords, Draws
<1>1. /\ Sound(r, n) /\ Drops(w, r) /\ Keeps(w, r)
      /\ r.page = w.page /\ r.dom = w.dom /\ r.trees = w.trees
      /\ w.page.text # 0 => x.streaming \/ (x.done /\ ~x.hidden)
  <2>1. CASE w.page.text # 0
    BY <2>1, RenderTextSound
  <2>2. CASE w.page.text = 0
    <3>1. Drops(w, w)
      BY <1>0 DEF Drops, PageRecords
    <3>2. Keeps(w, w)
      BY SameLayers
    <3> QED BY <2>2, <3>1, <3>2
  <2> QED BY <2>1, <2>2
<1> HIDE DEF r
<1>2. /\ Sound(u, n) /\ Drops(r, u) /\ Keeps(r, u)
      /\ u.page = r.page /\ u.text = r.text /\ u.dom = r.dom /\ u.trees = r.trees
      /\ w.page.annot # 0 /\ a.div => ~a.hidden
  BY <1>1, UpdateAnnotSound
<1> HIDE DEF u
<1>3. Drops(w, u)
  BY <1>1, <1>2, DropsTransitive
<1>4. Keeps(w, u)
  BY <1>1, <1>2, KeepsTransitive
<1>5. C \subseteq Calls /\ CallsSound(C, u, n)
  <2>1. u \in LayersOf(n) /\ u.page.annot = w.page.annot
    BY <1>1, <1>2 DEF Sound, Kept
  <2> QED BY <2>1, AsksSound
<1>6. W \subseteq Nat
  BY <1>0, <1>1, TreesAreNumbers DEF Sound, Kept
<1>7. w.page.text # 0 => x.streaming \/ {w.page.struct} \ {0} \subseteq W
  BY <1>1 DEF TreeWait
<1>8. \A c \in C : c.stage = "data"
  BY DEF AskAnnot
<1>9. w.page.annot # 0 /\ ~a.div => \E c \in C : c.b = w.page.annot /\ c.stage = "data"
  <2> SUFFICES ASSUME w.page.annot # 0, ~a.div
               PROVE  \E c \in C : c.b = w.page.annot /\ c.stage = "data"
    OBVIOUS
  <2>1. ~r.annot[w.page.annot].div
    BY <1>0, <1>2 DEF Keeps
  <2> QED BY <2>1 DEF AskAnnot
<1> HIDE DEF C, W
<1>10. Renders(w, u, C, W)
  BY <1>1, <1>2, <1>4, <1>7, <1>8, <1>9 DEF Renders
<1> QED BY <1>2, <1>3, <1>5, <1>6, <1>10 DEF r, u, C, W

-----------------------------------------------------------------------------
(***************************************************************************)
(* The steps.                                                              *)
(***************************************************************************)

\* A step that leaves a sound record which drops what it should.
LEMMA BecomeSound ==
    ASSUME IInv, NEW w, Sound(w, gen), Drops(Now, w), Become(w), gen' = gen
    PROVE  Now' = w /\ Sound(Now', gen') /\ CallsSound(calls, Now', gen')
<1>1. gen \in Nat /\ w \in LayersOf(gen)
  BY PageLayersAssumption DEF IInv, Sound, Kept
<1>2. Now' = w
  BY <1>1, BecomeIsNow
<1>3. CallsSound(calls, w, gen)
  BY <1>1, CallsFollow DEF IInv
<1> QED BY <1>2, <1>3

LEMMA LayersUnchanged == UNCHANGED layers => Now' = Now
BY DEF layers, Now

LEMMA InitIInv == Init => IInv
<1> SUFFICES ASSUME Init
             PROVE  IInv
  OBVIOUS
<1>1. /\ Now.page = [text |-> 0, annot |-> 0, struct |-> 0, draw |-> FALSE, editor |-> 0,
                     canvas |-> 0]
      /\ Now.text = [b \in Draws |-> NoText] /\ Now.annot = [b \in Draws |-> NoAnnot]
      /\ Now.mind = [highlight |-> FALSE, access |-> FALSE, waiting |-> {}, nodes |-> FALSE,
                     owned |-> FALSE, selectable |-> {}, listening |-> FALSE]
      /\ Now.dom = [text |-> 0, annot |-> 0, editor |-> 0]
      /\ Now.trees = {}
  BY DEF Init, Now
<1>2. gen = 0 /\ waits = {} /\ zooms = 0 /\ calls = {} /\ ~thrown
  BY DEF Init
<1>3. NoText \in Texts /\ NoAnnot \in Annots
  BY DEF NoText, NoAnnot, Texts, Annots
<1>4. Now.page \in PageRecords(0)
  BY <1>1 DEF PageRecords
<1>5. Now.mind \in Minds
  BY <1>1 DEF Minds
<1>6. Now.dom \in Doms
  BY <1>1 DEF Doms
<1>7. Now \in LayersOf(0)
  <2>1. /\ Now.text \in [Draws -> Texts] /\ Now.annot \in [Draws -> Annots]
        /\ Now.trees \in SUBSET Nat
    BY <1>1, <1>3
  <2> QED BY <1>4, <1>5, <1>6, <2>1 DEF LayersOf, Now
<1>8. Owned(Now) /\ Placed(Now) /\ Follows(Now) /\ TextsSound(Now) /\ Unmade(Now, 0)
  BY <1>1 DEF Owned, Placed, Follows, TextsSound, Unmade, NoText, NoAnnot, Draws
<1> QED BY <1>2, <1>7, <1>8, PageLayersAssumption DEF IInv, Sound, Kept, CallsSound

LEMMA DrawStep == IInv /\ Draw => IInv'
<1> SUFFICES ASSUME IInv, Draw
             PROVE  IInv'
  OBVIOUS
<1> DEFINE n == gen + 1
           p == [page EXCEPT !.text = IF @ = 0 THEN n ELSE @,
                             !.annot = IF @ = 0 THEN n ELSE @, !.canvas = n]
<1>1. /\ gen \in Nat /\ n \in 0 .. MaxDraws /\ n \in Draws /\ gen' = n /\ page' = p
      /\ trees' = {} /\ UNCHANGED <<text, annot, mind, dom, waits, zooms, calls, thrown>>
  BY PageLayersAssumption DEF IInv, Draw, Draws, env
<1>2. /\ page \in PageRecords(gen) /\ text \in [Draws -> Texts] /\ annot \in [Draws -> Annots]
      /\ mind \in Minds /\ dom \in Doms
  BY DEF IInv, Sound, Kept, LayersOf, Now
<1>3. /\ p \in PageRecords(n) /\ p.text = (IF page.text = 0 THEN n ELSE page.text)
      /\ p.annot = (IF page.annot = 0 THEN n ELSE page.annot) /\ p.canvas = n
      /\ p.editor = page.editor
  <2> DEFINE x == IF page.text = 0 THEN n ELSE page.text
             a == IF page.annot = 0 THEN n ELSE page.annot
  <2>1. p = [page EXCEPT !.text = x, !.annot = a, !.canvas = n]
    OBVIOUS
  <2>2. x \in 0 .. n /\ a \in 0 .. n /\ n \in Nat
    BY <1>1, <1>2 DEF PageRecords
  <2>3. \A k \in 0 .. gen : k \in 0 .. n
    BY <1>1
  <2> HIDE DEF p, x, a, n
  <2>4. p \in PageRecords(n) /\ p.text = x /\ p.annot = a /\ p.canvas = n /\ p.editor = page.editor
    BY ONLY <1>2, <2>1, <2>2, <2>3 DEF PageRecords
  <2> QED BY <2>4 DEF x, a
<1>4. page.text \in 0 .. gen /\ page.annot \in 0 .. gen
  BY <1>2 DEF PageRecords
<1>5. /\ Now.page = page /\ Now.text = text /\ Now.annot = annot /\ Now.mind = mind
      /\ Now.dom = dom
  BY DEF Now
<1> HIDE DEF p
<1>6. /\ Now'.page = p /\ Now'.text = text /\ Now'.annot = annot /\ Now'.mind = mind
      /\ Now'.dom = dom /\ Now'.trees = {}
  BY <1>1 DEF Now
<1>7. Now' \in LayersOf(n)
  BY <1>1, <1>2, <1>3, <1>6 DEF LayersOf, Now
<1>8. /\ Owned(Now) /\ Placed(Now) /\ Follows(Now) /\ TextsSound(Now) /\ Unmade(Now, gen)
      /\ CallsSound(calls, Now, gen) /\ calls \subseteq Calls
  BY DEF IInv, Sound, Kept
<1>9. text[n] = NoText /\ annot[n] = NoAnnot
  BY <1>1, <1>5, <1>8 DEF Unmade
<1>10. ~text[n].done /\ ~text[n].hidden /\ ~text[n].streaming /\ ~annot[n].cancelled
  BY <1>9 DEF NoText, NoAnnot
<1> HIDE DEF n
<1>11. Placed(Now')
  BY <1>3, <1>5, <1>6, <1>8 DEF Placed
<1>12. Owned(Now')
  <2>1. p.annot # 0 => ~annot[p.annot].cancelled
    BY <1>3, <1>5, <1>8, <1>10 DEF Owned
  <2>2. \A b \in Draws \ {p.text} : ~text[b].streaming
    <3>1. \A b \in Draws : b # page.text => ~text[b].streaming
      BY <1>5, <1>8 DEF Owned
    <3>2. \A b \in Draws : b # 0
      BY DEF Draws
    <3> QED BY <1>3, <3>1, <3>2
  <2> QED BY <1>1, <1>3, <1>6, <2>1, <2>2 DEF Owned, Draws
<1>13. Follows(Now')
  <2>1. CASE page.text = 0
    BY <1>1, <1>3, <1>5, <1>6, <1>8, <1>10, <2>1 DEF Follows, Draws
  <2>2. CASE page.text # 0
    BY <1>3, <1>5, <1>6, <1>8, <2>2 DEF Follows
  <2> QED BY <2>1, <2>2
<1>14. TextsSound(Now')
  BY <1>5, <1>6, <1>8 DEF TextsSound
<1>15. Unmade(Now', n)
  BY <1>1, <1>5, <1>6, <1>8 DEF Unmade, n, Draws
<1>16. CallsSound(calls, Now', n)
  <2>1. ASSUME NEW c \in calls
        PROVE  c.b <= n /\ (c.b # p.annot => annot[c.b].cancelled)
    <3>1. c.b \in Draws /\ c.b <= gen /\ (c.b # page.annot => annot[c.b].cancelled)
      BY <1>5, <1>8 DEF CallsSound, Calls
    <3> QED BY <1>1, <1>3, <3>1 DEF n, Draws
  <2> QED BY <1>6, <2>1 DEF CallsSound
<1>17. n \in 0 .. MaxDraws
  BY <1>1 DEF n
<1>18. gen' = n /\ waits' \subseteq Nat /\ zooms' \in Nat /\ calls' = calls /\ thrown' = thrown
  BY <1>1 DEF IInv, n
<1> QED BY <1>7, <1>8, <1>11, <1>12, <1>13, <1>14, <1>15, <1>16, <1>17, <1>18
        DEF IInv, Sound, Kept

\* The record a step begins with.
LEMMA Before ==
    ASSUME IInv
    PROVE  /\ gen \in 0 .. MaxDraws /\ gen \in Nat /\ Now \in LayersOf(gen)
           /\ Sound(Now, gen) /\ Kept(Now, gen) /\ Drops(Now, Now)
           /\ page \in PageRecords(gen) /\ text \in [Draws -> Texts] /\ annot \in [Draws -> Annots]
           /\ mind \in Minds /\ dom \in Doms /\ trees \in SUBSET Nat
           /\ Now.page = page /\ Now.text = text /\ Now.annot = annot /\ Now.mind = mind
           /\ Now.dom = dom /\ Now.trees = trees
<1>1. gen \in 0 .. MaxDraws /\ Sound(Now, gen) /\ Kept(Now, gen) /\ Now \in LayersOf(gen)
  BY DEF IInv, Sound, Kept
<1>2. /\ Now.page = page /\ Now.text = text /\ Now.annot = annot /\ Now.mind = mind
      /\ Now.dom = dom /\ Now.trees = trees
  BY DEF Now
<1>3. /\ page \in PageRecords(gen) /\ text \in [Draws -> Texts] /\ annot \in [Draws -> Annots]
      /\ mind \in Minds /\ dom \in Doms /\ trees \in SUBSET Nat
  BY <1>1, <1>2 DEF LayersOf
<1>4. Drops(Now, Now)
  BY <1>2, <1>3 DEF Drops, PageRecords
<1> QED BY <1>1, <1>2, <1>3, <1>4, PageLayersAssumption

\* A step that asks for more, or for less, of what the page has then.
LEMMA StepSound ==
    ASSUME IInv, NEW w, Sound(w, gen), Drops(Now, w), Become(w), gen' = gen,
           waits' \subseteq Nat, zooms' \in Nat, thrown' = FALSE,
           NEW C, calls' \subseteq calls \cup C, C \subseteq Calls, CallsSound(C, w, gen)
    PROVE  IInv'
<1>1. Now' = w /\ Sound(Now', gen') /\ CallsSound(calls, w, gen)
  BY BecomeSound
<1>2. calls' \subseteq Calls
  BY DEF IInv
<1>3. CallsSound(calls', w, gen)
  BY <1>1 DEF CallsSound
<1> QED BY <1>1, <1>2, <1>3 DEF IInv

\* The record that the end of a drawing renders: the page has a structure.
Structured ==
    [Now EXCEPT !.page = [page EXCEPT !.struct = IF page.struct = 0 THEN gen ELSE page.struct]]

LEMMA StructuredSound ==
    ASSUME IInv
    PROVE  LET w == Structured
           IN  /\ Sound(w, gen) /\ Drops(Now, w) /\ Keeps(Now, w)
               /\ w.page.text = page.text /\ w.page.annot = page.annot
               /\ w.page.struct = (IF page.struct = 0 THEN gen ELSE page.struct)
               /\ w.page.canvas = page.canvas /\ w.trees = trees
<1> USE Before
<1> DEFINE s == IF page.struct = 0 THEN gen ELSE page.struct
           P == [page EXCEPT !.struct = s]
           w == Structured
<1>1. s \in Nat
  BY DEF PageRecords
<1>2. w = [Now EXCEPT !.page = P]
  BY DEF Structured
<1> HIDE DEF s
<1>3. /\ P \in PageRecords(gen) /\ P.text = page.text /\ P.annot = page.annot
      /\ P.canvas = page.canvas /\ P.editor = page.editor /\ P.struct = s
  BY <1>1 DEF PageRecords
<1> HIDE DEF P, w
<1>4. /\ w \in LayersOf(gen) /\ w.page = P /\ w.text = text /\ w.annot = annot
      /\ w.mind = mind /\ w.dom = dom /\ w.trees = trees
  BY <1>2, <1>3 DEF LayersOf
<1>5. Placed(w)
  BY <1>3, <1>4 DEF Sound, Placed
<1>6. Sound(w, gen) /\ Drops(Now, w)
  BY <1>3, <1>4, <1>5, OtherChanges
<1>7. Keeps(Now, w)
  BY <1>3, <1>4, SameLayers
<1> QED BY <1>3, <1>4, <1>6, <1>7 DEF s, w

LEMMA FinishStep ==
    ASSUME IInv, Finish
    PROVE  /\ IInv'
           /\ \E C, W : /\ Renders(Structured, Now', C, W)
                        /\ calls' = calls \cup C /\ waits' = waits \cup W
           /\ \E x : /\ chain' = [chain EXCEPT ![gen] = x]
                    /\ "at" \in DOMAIN x /\ x.at \in {"annot", "text", "draw"}
<1> USE Before
<1> DEFINE w == Structured
           r == IF w.page.text # 0 THEN RenderText(w, w.page.text) ELSE w
           u == UpdateAnnot(r, w.page.annot)
           C == AskAnnot(r, w.page.annot, gen)
           W == TreeWait(r)
           x == [at |-> IF C # {} THEN "annot" ELSE AfterAnnot(gen, r),
                 of |-> IF w.page.text # 0 /\ ~r.text[w.page.text].done
                        THEN w.page.text ELSE 0,
                 try |-> IF w.page.text # 0 THEN r.text[w.page.text].tries ELSE 0]
<1>1. /\ Sound(w, gen) /\ Drops(Now, w)
      /\ w.page.text = page.text /\ w.page.annot = page.annot
  BY StructuredSound
<1>2. [Now EXCEPT !.page.struct = IF @ = 0 THEN gen ELSE @] = w
  BY DEF Structured, Now
<1> HIDE DEF w
<1>3. /\ Become(u) /\ calls' = calls \cup C /\ waits' = waits \cup W
      /\ gen' = gen /\ thrown' = thrown /\ zooms' = zooms
      /\ chain' = [chain EXCEPT ![gen] = x]
  BY <1>1, <1>2 DEF Finish, env
<1>4. /\ Sound(u, gen) /\ Drops(w, u) /\ Renders(w, u, C, W)
      /\ C \subseteq Calls /\ CallsSound(C, u, gen) /\ W \subseteq Nat
  <2>1. gen \in Int
    OBVIOUS
  <2> QED BY <1>1, <2>1, RenderLayers
<1>5. "at" \in DOMAIN x /\ x.at \in {"annot", "text", "draw"}
  BY DEF AfterAnnot
<1> HIDE DEF u, C, W, r, x
<1>6. Drops(Now, u)
  BY <1>1, <1>4, DropsTransitive
<1>7. waits' \subseteq Nat /\ thrown' = FALSE /\ zooms' \in Nat
  BY <1>3, <1>4 DEF IInv
<1>8. Now' = u
  BY <1>3, <1>4, <1>6, BecomeSound
<1> QED BY <1>3, <1>4, <1>5, <1>6, <1>7, <1>8, StepSound DEF w

LEMMA ResetStep ==
    ASSUME IInv, NEW keep \in BOOLEAN, Become(ResetLayers(Now, keep)),
           UNCHANGED <<gen, waits, calls, thrown>>, zooms' \in Nat
    PROVE  IInv' /\ Keeps(Now, Now')
<1> USE Before
<1> DEFINE w == ResetLayers(Now, keep)
           C == {}
<1>1. Sound(w, gen) /\ Drops(Now, w) /\ Keeps(Now, w)
  BY ResetLayersSound
<1> HIDE DEF w
<1>2. /\ Become(w) /\ gen' = gen /\ waits' \subseteq Nat /\ thrown' = FALSE
      /\ calls' \subseteq calls \cup C
  BY DEF IInv, w
<1>3. C \subseteq Calls /\ CallsSound(C, w, gen)
  BY DEF CallsSound
<1>4. Now' = w
  BY <1>1, <1>2, BecomeSound
<1> HIDE DEF C
<1> QED BY <1>1, <1>2, <1>3, <1>4, StepSound

LEMMA ZoomStep ==
    ASSUME IInv, Zoom
    PROVE  IInv' /\ Keeps(Now, Now')
<1>1. Become(ResetLayers(Now, TRUE)) /\ UNCHANGED <<gen, waits, calls, thrown>>
  BY DEF Zoom
<1>2. zooms' \in Nat
  BY DEF IInv, Zoom
<1> QED BY <1>1, <1>2, ResetStep

LEMMA EvictStep ==
    ASSUME IInv, Evict
    PROVE  IInv' /\ Keeps(Now, Now')
<1>1. Become(ResetLayers(Now, FALSE)) /\ UNCHANGED <<gen, waits, calls, thrown, zooms>>
  BY DEF Evict
<1>2. zooms' \in Nat
  BY <1>1 DEF IInv
<1> QED BY <1>1, <1>2, ResetStep

LEMMA ZoomCanvasStep ==
    ASSUME IInv, ZoomCanvas
    PROVE  /\ IInv'
           /\ \E C, W : /\ Renders(Now, Now', C, W)
                        /\ calls' = calls \cup C /\ waits' = waits \cup W
<1> USE Before
<1> DEFINE r == IF Now.page.text # 0 THEN RenderText(Now, Now.page.text) ELSE Now
           v == UpdateAnnot(r, Now.page.annot)
           C == AskAnnot(r, Now.page.annot, -zooms')
           W == TreeWait(r)
<1>1. /\ Become(v) /\ calls' = calls \cup C /\ waits' = waits \cup W
      /\ gen' = gen /\ thrown' = thrown /\ zooms' = zooms + 1
  BY DEF ZoomCanvas
<1>2. thrown' = FALSE /\ zooms' \in Nat
  BY <1>1 DEF IInv
<1>3. /\ Sound(v, gen) /\ Drops(Now, v) /\ Renders(Now, v, C, W)
      /\ C \subseteq Calls /\ CallsSound(C, v, gen) /\ W \subseteq Nat
  <2>1. -zooms' \in Int
    BY <1>2
  <2> QED BY <2>1, RenderLayers
<1> HIDE DEF C, W, v, r
<1>4. waits' \subseteq Nat
  BY <1>1, <1>3 DEF IInv
<1>5. Now' = v
  BY <1>1, <1>3, BecomeSound
<1>6. IInv'
  BY <1>1, <1>2, <1>3, <1>4, StepSound
<1> QED BY <1>1, <1>3, <1>5, <1>6

LEMMA AnnotDataStep ==
    ASSUME NEW c \in calls, IInv, AnnotData(c)
    PROVE  /\ IInv'
           /\ \/ /\ annot[c.b].cancelled
                 /\ Now' = Now /\ calls' = calls \ {c}
              \/ /\ c.b = page.annot /\ c.b # 0
                 /\ page' = page /\ text' = text /\ mind' = mind /\ trees' = trees
                 /\ dom'.text = dom.text /\ dom'.annot = c.b /\ dom'.editor = dom.editor
                 /\ \A b \in Draws : b # c.b => annot'[b] = annot[b]
                 /\ annot'[c.b].div /\ annot'[c.b].built = annot[c.b].built
                 /\ annot'[c.b].hidden = annot[c.b].hidden
                 /\ \E e : e.b = c.b /\ e.stage = "build" /\ calls' = (calls \ {c}) \cup {e}
<1> USE Before
<1>0. c \in Calls /\ c.b \in Draws /\ c.b <= gen
  BY DEF IInv, CallsSound, Calls
<1>1. gen' = gen /\ waits' \subseteq Nat /\ thrown' = FALSE /\ zooms' \in Nat
  BY DEF IInv, AnnotData, env
<1>2. CASE annot[c.b].cancelled
  <2>1. Now' = Now /\ calls' = calls \ {c}
    BY <1>2, LayersUnchanged DEF AnnotData
  <2>2. IInv'
    BY <1>1, <2>1 DEF IInv, CallsSound
  <2> QED BY <1>2, <2>1, <2>2
<1>3. CASE ~annot[c.b].cancelled
  <2> DEFINE A == [annot EXCEPT ![c.b] = [annot[c.b] EXCEPT !.div = TRUE]]
             v == [Now EXCEPT !.annot = A]
             d == [v.dom EXCEPT !.annot = c.b]
             u == [v EXCEPT !.dom = d]
             e == [c EXCEPT !.stage = "build"]
  <2>1. Become(u) /\ calls' = (calls \ {c}) \cup {e}
    BY <1>3 DEF AnnotData, AddLayer, Now
  <2>2. c.b = page.annot
    BY <1>0, <1>3 DEF IInv, CallsSound
  <2>3. /\ A \in [Draws -> Annots] /\ \A b \in Draws : A[b].cancelled = annot[b].cancelled
        /\ \A b \in Draws : b # c.b => A[b] = annot[b]
        /\ A[c.b].div /\ A[c.b].built = annot[c.b].built
        /\ A[c.b].hidden = annot[c.b].hidden
    <3>1. LET x == [annot[c.b] EXCEPT !.div = TRUE]
          IN  /\ x \in Annots /\ x.cancelled = annot[c.b].cancelled
              /\ x.div /\ x.built = annot[c.b].built /\ x.hidden = annot[c.b].hidden
      BY <1>0 DEF Annots
    <3> QED BY <1>0, <3>1
  <2> HIDE DEF A
  <2>4. /\ v \in LayersOf(gen) /\ v.page = page /\ v.text = text /\ v.annot = A
        /\ v.mind = mind /\ v.dom = dom /\ v.trees = trees
    BY <2>3, Changes
  <2> HIDE DEF v
  <2>5. /\ d \in Doms /\ d.text = dom.text /\ d.annot = c.b /\ d.editor = dom.editor
    BY <1>0, <2>4 DEF Doms, Draws
  <2> HIDE DEF d
  <2>6. /\ u \in LayersOf(gen) /\ u.page = page /\ u.text = text /\ u.annot = A
        /\ u.mind = mind /\ u.dom = d /\ u.trees = trees
    BY <2>4, <2>5, Changes
  <2> HIDE DEF u
  <2>7. Placed(u)
    BY <2>2, <2>5, <2>6 DEF Sound, Placed
  <2>8. \A b \in Draws : b > gen => u.annot[b] = annot[b]
    BY <1>0, <2>3, <2>6 DEF Draws
  <2>9. Sound(u, gen) /\ Drops(Now, u)
    BY <2>3, <2>6, <2>7, <2>8, OtherChanges
  <2>10. {e} \subseteq Calls /\ e.b = c.b /\ e.stage = "build"
    BY <1>0 DEF Calls
  <2> HIDE DEF e
  <2>11. CallsSound({e}, u, gen)
    BY <1>0, <2>2, <2>6, <2>10 DEF CallsSound
  <2>12. calls' \subseteq calls \cup {e}
    BY <2>1
  <2>13. IInv'
    BY <1>1, <2>1, <2>9, <2>10, <2>11, <2>12, StepSound
  <2>14. /\ page' = page /\ text' = text /\ mind' = mind /\ trees' = trees
         /\ dom' = d /\ annot' = A
    BY <2>1, <2>6 DEF Become
  <2>15. c.b # 0
    BY <1>0 DEF Draws
  <2> QED BY <2>1, <2>2, <2>3, <2>5, <2>10, <2>13, <2>14, <2>15
<1> QED BY <1>2, <1>3

LEMMA AnnotBuiltStep ==
    ASSUME NEW c \in calls, IInv, AnnotBuilt(c)
    PROVE  /\ IInv'
           /\ page' = page /\ text' = text /\ dom' = dom /\ trees' = trees
           /\ \A b \in Draws : b # c.b => annot'[b] = annot[b]
           /\ annot'[c.b].built /\ annot'[c.b].div = annot[c.b].div
           /\ annot'[c.b].hidden = annot[c.b].hidden
           /\ Shared(mind')
<1> USE Before
<1> DEFINE A == [annot EXCEPT ![c.b] = [annot[c.b] EXCEPT !.built = TRUE]]
           v == [Now EXCEPT !.annot = A]
           m == IF v.mind.access THEN [v.mind EXCEPT !.nodes = TRUE, !.owned = TRUE]
                ELSE [v.mind EXCEPT !.waiting = v.mind.waiting \cup {c.b}]
           u == [v EXCEPT !.mind = m]
           C == {}
<1>0. c.b \in Draws /\ c.b <= gen
  BY DEF IInv, CallsSound, Calls
<1>1. /\ gen' = gen /\ waits' \subseteq Nat /\ thrown' = FALSE /\ zooms' \in Nat
      /\ calls' \subseteq calls \cup C
  BY DEF IInv, AnnotBuilt, env
<1>2. Become(u)
  BY DEF AnnotBuilt, AddPointer, Now
<1>3. /\ A \in [Draws -> Annots] /\ \A b \in Draws : A[b].cancelled = annot[b].cancelled
      /\ \A b \in Draws : b # c.b => A[b] = annot[b]
      /\ A[c.b].built /\ A[c.b].div = annot[c.b].div /\ A[c.b].hidden = annot[c.b].hidden
  <2>1. LET x == [annot[c.b] EXCEPT !.built = TRUE]
        IN  /\ x \in Annots /\ x.cancelled = annot[c.b].cancelled
            /\ x.built /\ x.div = annot[c.b].div /\ x.hidden = annot[c.b].hidden
    BY <1>0 DEF Annots
  <2> QED BY <1>0, <2>1
<1> HIDE DEF A
<1>4. /\ v \in LayersOf(gen) /\ v.page = page /\ v.text = text /\ v.annot = A
      /\ v.mind = mind /\ v.dom = dom /\ v.trees = trees
  BY <1>3, Changes
<1> HIDE DEF v
<1>5. /\ m \in Minds /\ m.highlight = mind.highlight /\ m.access = mind.access
      /\ m.selectable = mind.selectable /\ m.listening = mind.listening
      /\ Shared(m)
  <2>1. CASE mind.access
    <3>1. m = [mind EXCEPT !.nodes = TRUE, !.owned = TRUE]
      BY <1>4, <2>1
    <3> HIDE DEF m
    <3> QED BY <2>1, <3>1 DEF Minds, Shared
  <2>2. CASE ~mind.access
    <3> DEFINE W == mind.waiting \cup {c.b}
    <3>1. m = [mind EXCEPT !.waiting = W]
      BY <1>4, <2>2
    <3>2. W \in SUBSET Draws
      BY <1>0 DEF Minds
    <3>3. W # {}
      OBVIOUS
    <3> HIDE DEF m, W
    <3> QED BY <2>2, <3>1, <3>2, <3>3 DEF Minds, Shared
  <2> QED BY <2>1, <2>2
<1> HIDE DEF m
<1>6. /\ u \in LayersOf(gen) /\ u.page = page /\ u.text = text /\ u.annot = A
      /\ u.mind = m /\ u.dom = dom /\ u.trees = trees
  BY <1>4, <1>5, Changes
<1> HIDE DEF u
<1>7. Placed(u)
  BY <1>6 DEF Sound, Placed
<1>8. \A b \in Draws : b > gen => u.annot[b] = annot[b]
  BY <1>0, <1>3, <1>6 DEF Draws
<1>9. Sound(u, gen) /\ Drops(Now, u)
  BY <1>3, <1>5, <1>6, <1>7, <1>8, OtherChanges
<1>10. C \subseteq Calls /\ CallsSound(C, u, gen)
  BY DEF CallsSound
<1> HIDE DEF C
<1>11. IInv'
  BY <1>1, <1>2, <1>9, <1>10, StepSound
<1>12. /\ page' = page /\ text' = text /\ annot' = A /\ mind' = m /\ dom' = dom
       /\ trees' = trees
  BY <1>2, <1>6 DEF Become
<1> QED BY <1>3, <1>5, <1>11, <1>12

LEMMA RenderEditorStep ==
    ASSUME NEW g \in Draws, IInv, RenderEditor(g)
    PROVE  /\ IInv'
           /\ text' = text /\ annot' = annot /\ mind' = mind /\ trees' = trees
           /\ page'.text = page.text /\ page'.annot = page.annot
           /\ page'.canvas = page.canvas /\ page'.struct = page.struct
           /\ dom'.text = dom.text /\ dom'.annot = dom.annot
           /\ IF page.editor = 0 /\ page.annot # 0
              THEN page'.editor = g /\ dom'.editor = g
              ELSE page'.editor = page.editor /\ dom'.editor = dom.editor
<1> USE Before
<1> DEFINE P == [page EXCEPT !.draw = TRUE]
           w == RenderDraw(Now)
           u == IF page.annot # 0 THEN RenderEditorLayer(w, g) ELSE w
           C == {}
<1>1. /\ gen' = gen /\ waits' \subseteq Nat /\ thrown' = FALSE /\ zooms' \in Nat
      /\ calls' \subseteq calls \cup C /\ Become(u)
  BY DEF IInv, RenderEditor, env
<1>2. /\ P \in PageRecords(gen) /\ P.text = page.text /\ P.annot = page.annot
      /\ P.canvas = page.canvas /\ P.editor = page.editor /\ P.struct = page.struct
  BY DEF PageRecords
<1> HIDE DEF P
<1>3. /\ w \in LayersOf(gen) /\ w.page = P /\ w.text = text /\ w.annot = annot
      /\ w.mind = mind /\ w.dom = dom /\ w.trees = trees
  <2>1. w = [Now EXCEPT !.page = P]
    BY DEF RenderDraw, P
  <2> HIDE DEF w
  <2> QED BY <1>2, <2>1 DEF LayersOf
<1> HIDE DEF w
<1>4. /\ u \in LayersOf(gen) /\ u.page.text = page.text /\ u.page.annot = page.annot
      /\ u.page.canvas = page.canvas /\ u.text = text /\ u.annot = annot /\ u.mind = mind
      /\ u.trees = trees /\ Placed(u)
      /\ u.page.struct = page.struct
      /\ u.dom.text = dom.text /\ u.dom.annot = dom.annot
      /\ IF page.editor = 0 /\ page.annot # 0
         THEN u.page.editor = g /\ u.dom.editor = g
         ELSE u.page.editor = page.editor /\ u.dom.editor = dom.editor
  <2>1. CASE page.annot = 0
    BY <1>2, <1>3, <2>1 DEF Sound, Placed
  <2>2. CASE page.annot # 0 /\ P.editor # 0
    <3>1. u = w
      BY <1>3, <2>2 DEF RenderEditorLayer
    <3> QED BY <1>2, <1>3, <2>2, <3>1 DEF Sound, Placed
  <2>3. CASE page.annot # 0 /\ P.editor = 0
    <3> DEFINE Q == [w.page EXCEPT !.editor = g]
               v == [w EXCEPT !.page = Q]
               d == [v.dom EXCEPT !.editor = g]
    <3>1. u = [v EXCEPT !.dom = d]
      BY <1>3, <2>3 DEF RenderEditorLayer, AddLayer
    <3>2. /\ Q \in PageRecords(gen) /\ Q.text = page.text /\ Q.annot = page.annot
          /\ Q.canvas = page.canvas /\ Q.editor = g /\ Q.struct = page.struct
      BY <1>2, <1>3 DEF PageRecords, Draws
    <3> HIDE DEF u, d, Q
    <3>4. /\ v \in LayersOf(gen) /\ v.page = Q /\ v.text = text /\ v.annot = annot
          /\ v.mind = mind /\ v.dom = dom /\ v.trees = trees
      BY ONLY <1>3, <3>2 DEF LayersOf
    <3> HIDE DEF v
    <3>5. d \in Doms /\ d.text = dom.text /\ d.annot = dom.annot /\ d.editor = g
      BY <3>4 DEF Doms, Draws, d
    <3>6. /\ u \in LayersOf(gen) /\ u.page = Q /\ u.text = text /\ u.annot = annot
          /\ u.mind = mind /\ u.dom = d /\ u.trees = trees
      BY <3>1, <3>4, <3>5, Changes
    <3> QED BY <1>2, <2>3, <3>2, <3>5, <3>6 DEF Sound, Placed
  <2> QED BY <2>1, <2>2, <2>3
<1> HIDE DEF u
<1>5. Sound(u, gen) /\ Drops(Now, u)
  BY <1>4, OtherChanges
<1>6. C \subseteq Calls /\ CallsSound(C, u, gen)
  BY DEF CallsSound
<1> HIDE DEF C
<1>7. IInv'
  BY <1>1, <1>5, <1>6, StepSound
<1>8. /\ page' = u.page /\ text' = u.text /\ annot' = u.annot /\ mind' = u.mind
      /\ dom' = u.dom /\ trees' = u.trees
  BY <1>1 DEF Become
<1> QED BY <1>4, <1>7, <1>8

LEMMA TextDoneStep ==
    ASSUME NEW b \in Draws, IInv, TextDone(b)
    PROVE  /\ IInv'
           /\ b = page.text /\ page' = page /\ annot' = annot /\ trees' = trees
           /\ text'[b].done /\ ~text'[b].hidden
           /\ \A a \in Draws \ {b} : text'[a] = text[a]
           /\ dom'.text = b /\ dom'.annot = dom.annot /\ dom'.editor = dom.editor
           /\ Shared(mind) /\ (dom.annot # 0 /\ annot[dom.annot].built) => Shared(mind')
           /\ waits' = waits \cup ({page.struct} \ {0})
<1> USE Before
<1> DEFINE S == mind.selectable \cup {b}
           m1 == [mind EXCEPT !.selectable = S, !.listening = TRUE]
           v1 == [Now EXCEPT !.mind = m1]
           t == [v1.text EXCEPT ![b] = [v1.text[b] EXCEPT !.streaming = FALSE, !.done = TRUE]]
           v2 == [v1 EXCEPT !.text = t]
           d == [v2.dom EXCEPT !.text = b]
           v3 == [v2 EXCEPT !.dom = d]
           m2 == [v3.mind EXCEPT !.highlight = TRUE]
           v4 == [v3 EXCEPT !.mind = m2]
           own == (v4.mind.nodes /\ v4.dom.annot # 0 /\ v4.annot[v4.dom.annot].built)
                     \/ v4.mind.waiting # {}
           m3 == [v4.mind EXCEPT !.access = TRUE, !.nodes = own, !.owned = own, !.waiting = {}]
           u == [v4 EXCEPT !.mind = m3]
           C == {}
<1>1. Become(u) /\ waits' = waits \cup TreeWait(u)
  <2>1. BindMouse(Now, b) = v1
    BY DEF BindMouse, Now
  <2>2. [BindMouse(Now, b) EXCEPT !.text[b].streaming = FALSE, !.text[b].done = TRUE] = v2
    <3> HIDE DEF v1
    <3>1. [v1.text EXCEPT ![b] = [[v1.text[b] EXCEPT !.streaming = FALSE] EXCEPT !.done = TRUE]]
            = t
      OBVIOUS
    <3> QED BY <2>1, <3>1
  <2>3. AddLayer(v2, "text", b) = v3
    BY DEF AddLayer
  <2>4. EnableHighlight(v3) = v4
    BY DEF EnableHighlight
  <2>5. EnableAccess(v4) = u
    BY DEF EnableAccess
  <2> HIDE DEF u, v4, v3, v2, v1
  <2> QED BY <2>1, <2>2, <2>3, <2>4, <2>5 DEF TextDone
<1>2. /\ b # 0 /\ b <= gen /\ b = page.text
      /\ text[b] \in Texts /\ text[b].streaming /\ ~text[b].done /\ ~text[b].hidden
  <2>1. text[b].streaming
    BY DEF TextDone
  <2>2. b = page.text
    BY <2>1 DEF Sound, Kept, Owned
  <2>3. ~text[b].done /\ ~text[b].hidden
    BY <2>1 DEF Sound, Kept, TextsSound
  <2>4. b # 0 /\ b <= gen
    BY <2>2 DEF PageRecords, Draws
  <2> QED BY <2>1, <2>2, <2>3, <2>4
<1>3. ~mind.highlight /\ ~mind.access /\ mind.selectable = {}
  BY <1>2 DEF Sound, Kept, Follows
<1>4. gen' = gen /\ thrown' = FALSE /\ zooms' \in Nat /\ calls' \subseteq calls \cup C
  BY <1>3 DEF IInv, TextDone, env
<1>5. S = {b} /\ S \in SUBSET Draws
  BY <1>3
<1> HIDE DEF S
<1>6. /\ m1 \in Minds /\ m1.selectable = S /\ m1.listening
      /\ m1.nodes = mind.nodes /\ m1.waiting = mind.waiting
  BY <1>5 DEF Minds
<1> HIDE DEF m1
<1>7. /\ v1 \in LayersOf(gen) /\ v1.page = page /\ v1.text = text /\ v1.annot = annot
      /\ v1.mind = m1 /\ v1.dom = dom /\ v1.trees = trees
  BY <1>6, Changes
<1> HIDE DEF v1
<1>8. /\ t \in [Draws -> Texts] /\ t[b].done /\ ~t[b].streaming /\ ~t[b].hidden
      /\ \A a \in Draws \ {b} : t[a] = text[a]
  <2>1. LET x == [text[b] EXCEPT !.streaming = FALSE, !.done = TRUE]
        IN  x \in Texts /\ x.done /\ ~x.streaming /\ ~x.hidden
    BY <1>2 DEF Texts
  <2> QED BY <1>7, <2>1
<1> HIDE DEF t
<1>9. /\ v2 \in LayersOf(gen) /\ v2.page = page /\ v2.text = t /\ v2.annot = annot
      /\ v2.mind = m1 /\ v2.dom = dom /\ v2.trees = trees
  BY <1>7, <1>8, Changes
<1> HIDE DEF v2
<1>10. /\ d \in Doms /\ d.text = b /\ d.annot = dom.annot /\ d.editor = dom.editor
  BY <1>9 DEF Doms, Draws
<1> HIDE DEF d
<1>11. /\ v3 \in LayersOf(gen) /\ v3.page = page /\ v3.text = t /\ v3.annot = annot
       /\ v3.mind = m1 /\ v3.dom = d /\ v3.trees = trees
  BY <1>9, <1>10, Changes
<1> HIDE DEF v3
<1>12. /\ m2 \in Minds /\ m2.highlight /\ m2.selectable = S /\ m2.listening
       /\ m2.nodes = mind.nodes /\ m2.waiting = mind.waiting
  BY <1>6, <1>11, HighlightField
<1> HIDE DEF m2
<1>13. /\ v4 \in LayersOf(gen) /\ v4.page = page /\ v4.text = t /\ v4.annot = annot
       /\ v4.mind = m2 /\ v4.dom = d /\ v4.trees = trees
  BY <1>11, <1>12, Changes
<1> HIDE DEF v4
<1>14. /\ own \in BOOLEAN
       /\ Shared(mind) /\ (dom.annot # 0 /\ annot[dom.annot].built) => own
  BY <1>3, <1>10, <1>12, <1>13 DEF Shared
<1> HIDE DEF own
<1>15. /\ m3 \in Minds /\ m3.highlight /\ m3.access /\ m3.selectable = S /\ m3.listening
       /\ m3.owned = own /\ m3.nodes = own
  BY <1>12, <1>13, <1>14 DEF Minds
<1> HIDE DEF m3
<1>16. /\ u \in LayersOf(gen) /\ u.page = page /\ u.text = t /\ u.annot = annot
       /\ u.mind = m3 /\ u.dom = d /\ u.trees = trees
  BY <1>13, <1>15, Changes
<1> HIDE DEF u
<1>17. Placed(u)
  BY <1>2, <1>10, <1>16 DEF Sound, Placed
<1>18. Owned(u)
  BY <1>2, <1>8, <1>16 DEF Sound, Kept, Owned
<1>19. Follows(u)
  BY <1>2, <1>5, <1>8, <1>15, <1>16 DEF Follows
<1>20. TextsSound(u)
  BY <1>8, <1>16 DEF Sound, Kept, TextsSound
<1>21. Unmade(u, gen)
  <2>1. \A a \in Draws : a > gen => a # b
    BY <1>2 DEF Draws
  <2>2. Unmade(Now, gen)
    BY DEF Sound, Kept
  <2> QED BY <1>8, <1>16, <2>1, <2>2 DEF Unmade
<1>22. Sound(u, gen) /\ Drops(Now, u)
  <2>1. Drops(Now, u)
    BY <1>16 DEF Drops, PageRecords
  <2> QED BY <1>16, <1>17, <1>18, <1>19, <1>20, <1>21, <2>1 DEF Sound, Kept
<1>23. waits' \subseteq Nat
  BY <1>1, <1>16, TreesAreNumbers DEF IInv
<1>24. C \subseteq Calls /\ CallsSound(C, u, gen)
  BY DEF CallsSound
<1> HIDE DEF C
<1>25. IInv'
  BY <1>1, <1>4, <1>22, <1>23, <1>24, StepSound
<1>26. /\ page' = page /\ text' = t /\ annot' = annot /\ mind' = m3 /\ dom' = d
       /\ trees' = trees
  BY <1>1, <1>16 DEF Become
<1>27. TreeWait(u) = {page.struct} \ {0}
  BY <1>2, <1>8, <1>16 DEF TreeWait
<1>28. Shared(mind) /\ (dom.annot # 0 /\ annot[dom.annot].built) => Shared(mind')
  BY <1>14, <1>15, <1>26 DEF Shared
<1> QED BY <1>1, <1>2, <1>8, <1>10, <1>25, <1>26, <1>27, <1>28

LEMMA TreeDoneStep == ASSUME NEW s \in waits PROVE IInv /\ TreeDone(s) => IInv'
<1> SUFFICES ASSUME IInv, TreeDone(s)
             PROVE  IInv'
  OBVIOUS
<1> USE Before
<1>1. /\ UNCHANGED <<gen, page, text, annot, mind, dom, calls, thrown, zooms>>
      /\ waits' \subseteq waits /\ trees' \in SUBSET Nat
      /\ page.canvas = 0 => trees' = trees
  <2>1. s \in Nat
    BY DEF IInv
  <2>2. trees' = IF page.canvas # 0 THEN trees \cup {s} ELSE trees
    BY DEF TreeDone
  <2>3. trees \in SUBSET Nat
    OBVIOUS
  <2> QED BY ONLY TreeDone(s), <2>1, <2>2, <2>3 DEF TreeDone, env
<1>2. /\ Now'.page = page /\ Now'.text = text /\ Now'.annot = annot /\ Now'.mind = mind
      /\ Now'.dom = dom /\ Now'.trees = trees'
  BY <1>1 DEF Now
<1>3. Now' \in LayersOf(gen)
  BY <1>1, <1>2 DEF LayersOf, Now
<1>4. Owned(Now')
  BY <1>1, <1>2 DEF Sound, Kept, Owned
<1>5. Placed(Now') /\ Follows(Now') /\ TextsSound(Now') /\ Unmade(Now', gen)
  BY <1>2 DEF Sound, Kept, Placed, Follows, TextsSound, Unmade
<1>6. CallsSound(calls, Now', gen)
  BY <1>2 DEF IInv, CallsSound
<1> QED BY <1>1, <1>3, <1>4, <1>5, <1>6 DEF IInv, Sound, Kept

\* The steps that leave the layers as they are.
LEMMA OtherSteps ==
    ASSUME IInv, UNCHANGED <<gen, layers, waits, calls, thrown, zooms>>
    PROVE  IInv'
BY LayersUnchanged DEF IInv

LEMMA NextIInv == IInv /\ [Next]_vars => IInv'
<1> SUFFICES ASSUME IInv, [Next]_vars
             PROVE  IInv'
  OBVIOUS
<1>1. CASE Draw
  BY <1>1, DrawStep
<1>2. CASE Finish
  BY <1>2, FinishStep
<1>3. CASE FinishWithError
  BY <1>3, OtherSteps DEF FinishWithError, env
<1>4. CASE Zoom
  BY <1>4, ZoomStep
<1>5. CASE ZoomCanvas
  BY <1>5, ZoomCanvasStep
<1>6. CASE Evict
  BY <1>6, EvictStep
<1>7. ASSUME NEW b \in Draws, TextDone(b)
      PROVE  IInv'
  BY <1>7, TextDoneStep
<1>8. ASSUME NEW s \in waits, TreeDone(s)
      PROVE  IInv'
  BY <1>8, TreeDoneStep
<1>9. ASSUME NEW c \in calls, AnnotData(c) \/ AnnotBuilt(c)
      PROVE  IInv'
  BY <1>9, AnnotDataStep, AnnotBuiltStep
<1>10. ASSUME NEW g \in Draws, InjectLinks(g)
       PROVE  IInv'
  BY <1>10, OtherSteps DEF InjectLinks, env
<1>11. ASSUME NEW g \in Draws, RenderEditor(g)
       PROVE  IInv'
  BY <1>11, RenderEditorStep
<1>12. CASE UNCHANGED vars
  BY <1>12, OtherSteps DEF vars, env
<1> QED BY <1>1, <1>2, <1>3, <1>4, <1>5, <1>6, <1>7, <1>8, <1>9, <1>10, <1>11, <1>12
        DEF Next

-----------------------------------------------------------------------------
(***************************************************************************)
(* The second invariant: what a page that is drawn has, and what it waits  *)
(* for.                                                                    *)
(***************************************************************************)

\* A layer that is there has its node in the page, and an annotation that is
\* in the page is owned by a text div or waits for the text.
Layered(w) ==
    LET p == w.page
    IN  /\ p.text # 0 /\ w.text[p.text].done => w.dom.text = p.text
        /\ p.annot # 0 /\ w.annot[p.annot].div => w.dom.annot = p.annot
        /\ p.editor # 0 => w.dom.editor = p.editor
        /\ \A b \in Draws : w.annot[b].hidden \/ w.annot[b].built => w.annot[b].div
        /\ p.annot # 0 /\ w.annot[p.annot].built => Shared(w.mind)

\* A layer with a div is built, or a render is about to build it.
Builds(C, w) ==
    LET a == w.page.annot
    IN  /\ \A c \in C : c.stage = "build" => w.annot[c.b].div
        /\ a # 0 /\ w.annot[a].div =>
             w.annot[a].built \/ \E c \in C : c.b = a /\ c.stage = "build"

Begun == state # "initial" => gen # 0 /\ page.text # 0 /\ page.annot # 0 /\ page.canvas # 0

\* A page that was drawn has each layer, or waits for what brings it.
Drawn ==
    state = "finished" /\ ~failed =>
        /\ text[page.text].streaming \/ (text[page.text].done /\ ~text[page.text].hidden)
        /\ IF annot[page.annot].div THEN ~annot[page.annot].hidden
           ELSE \E c \in calls : c.b = page.annot /\ c.stage = "data"
        /\ page.struct # 0
        /\ page.struct \in trees \cup waits \/ text[page.text].streaming
        /\ chain[gen].at # "none"
        /\ chain[gen].at = "over" => page.editor # 0

Chained == DOMAIN chain = Draws /\ \A g \in Draws : "at" \in DOMAIN chain[g]

LayeredInv ==
    /\ state \in {"initial", "running", "finished"} /\ Chained
    /\ Layered(Now) /\ Builds(calls, Now) /\ Begun /\ Drawn

LEMMA LayeredKept ==
    ASSUME NEW n \in Nat, NEW w \in LayersOf(n), n <= MaxDraws, NEW c, Layered(w), Keeps(w, c)
    PROVE  Layered(c)
<1>1. /\ w.page.text # 0 => w.page.text \in Draws
      /\ w.page.annot # 0 => w.page.annot \in Draws
  BY PageLayersAssumption DEF LayersOf, PageRecords, Draws
<1> QED BY <1>1 DEF Layered, Keeps

LEMMA BuildsKept ==
    ASSUME NEW n \in Nat, NEW w \in LayersOf(n), n <= MaxDraws, NEW c, Keeps(w, c),
           NEW C \in SUBSET Calls, NEW D, Builds(C, w), C \subseteq D,
           \A d \in D \ C : d.stage = "data"
    PROVE  Builds(D, c)
<1>1. w.page.annot # 0 => w.page.annot \in Draws
  BY PageLayersAssumption DEF LayersOf, PageRecords, Draws
<1>2. \A d \in C : d.b \in Draws
  BY DEF Calls
<1> QED BY <1>1, <1>2 DEF Builds, Keeps

\* A chain goes on to another stage.
LEMMA ChainGoesOn ==
    ASSUME Chained, NEW g, NEW at
    PROVE  LET f == [chain EXCEPT ![g].at = at]
           IN  /\ DOMAIN f = Draws
               /\ \A h \in Draws : /\ "at" \in DOMAIN f[h]
                                   /\ f[h].at = IF h = g THEN at ELSE chain[h].at
<1> DEFINE x == [chain[g] EXCEPT !.at = at]
           f == [chain EXCEPT ![g] = x]
<1>1. g \in Draws => DOMAIN x = DOMAIN chain[g] /\ x.at = at
  BY DEF Chained
<1> HIDE DEF x
<1>2. DOMAIN f = Draws /\ \A h \in Draws : f[h] = IF h = g THEN x ELSE chain[h]
  BY DEF Chained
<1> HIDE DEF f
<1>3. DOMAIN f = Draws /\ \A h \in Draws : /\ "at" \in DOMAIN f[h]
                                           /\ f[h].at = IF h = g THEN at ELSE chain[h].at
  BY <1>1, <1>2 DEF Chained
<1> QED BY <1>3 DEF f, x

LEMMA ChainOnGoesOn ==
    ASSUME Chained, NEW c, NEW w, chain' = ChainOn(c, w)
    PROVE  /\ Chained'
           /\ \A h \in Draws : chain'[h].at \in {chain[h].at, "text", "draw"}
<1>1. CASE c.by > 0
  <2> DEFINE g == c.by
             at == AfterAnnot(g, w)
             f == [chain EXCEPT ![g].at = at]
  <2>1. chain' = f
    BY <1>1 DEF ChainOn
  <2>2. at \in {"text", "draw"}
    BY DEF AfterAnnot
  <2> HIDE DEF g, at
  <2>3. DOMAIN f = Draws /\ \A h \in Draws : /\ "at" \in DOMAIN f[h]
                                             /\ f[h].at = IF h = g THEN at ELSE chain[h].at
    BY ChainGoesOn
  <2> HIDE DEF f
  <2> QED BY <2>1, <2>2, <2>3 DEF Chained
<1>2. CASE ~(c.by > 0)
  BY <1>2 DEF ChainOn, Chained
<1> QED BY <1>1, <1>2

LEMMA InitLayered == Init => LayeredInv
<1> SUFFICES ASSUME Init
             PROVE  LayeredInv
  OBVIOUS
<1>1. state = "initial" /\ calls = {}
      /\ chain = [g \in Draws |-> [at |-> "none", try |-> 0, of |-> 0]]
  BY DEF Init
<1>2. /\ Now.page.text = 0 /\ Now.page.annot = 0 /\ Now.page.editor = 0
      /\ \A b \in Draws : Now.annot[b] = NoAnnot
  BY DEF Init, Now
<1>3. Chained
  BY <1>1 DEF Chained
<1>4. Layered(Now) /\ Builds(calls, Now)
  BY <1>1, <1>2 DEF Layered, Builds, NoAnnot
<1> QED BY <1>1, <1>3, <1>4 DEF LayeredInv, Begun, Drawn

\* What a step begins with, once the page was begun.
LEMMA BeforeLayered ==
    ASSUME IInv, LayeredInv
    PROVE  /\ gen \in Nat /\ gen <= MaxDraws /\ calls \in SUBSET Calls
           /\ page.text \in 0 .. gen /\ page.annot \in 0 .. gen
           /\ page.text # 0 => page.text \in Draws
           /\ page.annot # 0 => page.annot \in Draws
           /\ state # "initial" => gen \in Draws /\ page.text \in Draws /\ page.annot \in Draws
<1> USE Before
<1>1. page.text \in 0 .. gen /\ page.annot \in 0 .. gen
  BY DEF PageRecords
<1>2. \A k \in 0 .. gen : k # 0 => k \in Draws
  BY PageLayersAssumption DEF Draws
<1>3. state # "initial" => gen # 0 /\ page.text # 0 /\ page.annot # 0
  BY DEF LayeredInv, Begun
<1> QED BY <1>1, <1>2, <1>3 DEF IInv

LEMMA DrawLayered ==
    ASSUME IInv, LayeredInv, Draw
    PROVE  LayeredInv'
<1> USE Before
<1> DEFINE n == gen + 1
<1>1. /\ state = "initial" /\ state' = "running" /\ n \in Draws /\ n # 0
      /\ UNCHANGED <<text, annot, mind, dom, waits, calls, chain>>
  BY PageLayersAssumption DEF Draw, Draws
<1>2. /\ gen' = n /\ page'.text = (IF page.text = 0 THEN n ELSE page.text)
      /\ page'.annot = (IF page.annot = 0 THEN n ELSE page.annot)
      /\ page'.canvas = n /\ page'.editor = page.editor
  BY DEF Draw, PageRecords
<1>3. ~text[n].done /\ ~annot[n].div /\ ~annot[n].built
  BY <1>1 DEF Sound, Kept, Unmade, NoText, NoAnnot
<1>4. /\ Now'.page = page' /\ Now'.text = text /\ Now'.annot = annot /\ Now'.mind = mind
      /\ Now'.dom = dom
  BY <1>1 DEF Now
<1>5. Layered(Now) /\ Builds(calls, Now) /\ Chained
  BY DEF LayeredInv
<1> HIDE DEF n
<1>6. Layered(Now')
  BY <1>2, <1>3, <1>4, <1>5 DEF Layered
<1>7. Builds(calls, Now')
  BY <1>2, <1>3, <1>4, <1>5 DEF Builds
<1> QED BY <1>1, <1>2, <1>5, <1>6, <1>7 DEF LayeredInv, Begun, Drawn, Chained

LEMMA FinishLayered ==
    ASSUME IInv, LayeredInv, Finish
    PROVE  LayeredInv'
<1> USE Before
<1> DEFINE w == Structured
<1>1. state = "running" /\ state' = "finished" /\ gen' = gen
  BY DEF Finish
<1>2. PICK C, W : /\ Renders(w, Now', C, W)
                  /\ calls' = calls \cup C /\ waits' = waits \cup W
  BY FinishStep
<1>3. PICK x : /\ chain' = [chain EXCEPT ![gen] = x]
               /\ "at" \in DOMAIN x /\ x.at \in {"annot", "text", "draw"}
  BY FinishStep
<1>4. /\ Keeps(Now, w) /\ w.page.text = page.text /\ w.page.annot = page.annot
      /\ w.page.struct = (IF page.struct = 0 THEN gen ELSE page.struct)
      /\ w.page.canvas = page.canvas
  BY StructuredSound
<1>5. gen \in Draws /\ page.text \in Draws /\ page.annot \in Draws /\ calls \in SUBSET Calls
  BY <1>1, BeforeLayered
<1>6. gen # 0 /\ page.text # 0 /\ page.annot # 0 /\ page.canvas # 0
  BY <1>1 DEF LayeredInv, Begun
<1> HIDE DEF w
<1>7. /\ Keeps(Now, Now') /\ page' = w.page
      /\ \A c \in C : c.stage = "data"
  <2>1. Keeps(w, Now') /\ Now'.page = w.page /\ \A c \in C : c.stage = "data"
    BY <1>2 DEF Renders
  <2>2. Now'.page = page'
    BY DEF Now
  <2> QED BY <1>4, <2>1, <2>2, KeepsTransitive
<1>8. Layered(Now') /\ Builds(calls', Now')
  <2>1. Layered(Now')
    BY <1>7, LayeredKept DEF LayeredInv
  <2>2. Builds(calls', Now')
    BY <1>2, <1>5, <1>7, BuildsKept DEF LayeredInv
  <2> QED BY <2>1, <2>2
<1>9. Chained' /\ chain'[gen].at \notin {"none", "over"}
  BY <1>3, <1>5 DEF LayeredInv, Chained
<1>10. Drawn'
  <2>1. Now'.text = text' /\ Now'.annot = annot' /\ Now'.page = page'
    BY DEF Now
  <2>2. page'.text = page.text /\ page'.annot = page.annot /\ page'.struct # 0
    BY <1>4, <1>6, <1>7
  <2>3. /\ text'[page'.text].streaming \/ (text'[page'.text].done /\ ~text'[page'.text].hidden)
        /\ text'[page'.text].streaming \/ {page'.struct} \ {0} \subseteq W
        /\ IF annot'[page'.annot].div THEN ~annot'[page'.annot].hidden
           ELSE \E c \in C : c.b = page'.annot /\ c.stage = "data"
    BY <1>2, <1>4, <1>6, <1>7, <2>1, <2>2 DEF Renders
  <2> QED BY <1>1, <1>2, <1>9, <2>2, <2>3 DEF Drawn
<1> QED BY <1>1, <1>4, <1>6, <1>7, <1>8, <1>9, <1>10 DEF LayeredInv, Begun

\* The error leaves the layers as they are.
LEMMA FinishWithErrorLayered ==
    ASSUME IInv, LayeredInv, FinishWithError
    PROVE  LayeredInv'
<1>1. /\ state = "running" /\ state' = "finished" /\ failed'
      /\ UNCHANGED <<gen, page, calls, chain>> /\ Now' = Now
  BY LayersUnchanged DEF FinishWithError, layers
<1> QED BY <1>1 DEF LayeredInv, Chained, Begun, Drawn

LEMMA ResetLayered ==
    ASSUME IInv, LayeredInv, Keeps(Now, Now'), state' = "initial", UNCHANGED <<calls, chain>>
    PROVE  LayeredInv'
<1>1. Layered(Now')
  BY Before, LayeredKept DEF LayeredInv
<1>2. Builds(calls, Now')
  <2>1. calls \in SUBSET Calls
    BY DEF IInv
  <2> QED BY Before, BuildsKept, <2>1 DEF LayeredInv
<1> QED BY <1>1, <1>2 DEF LayeredInv, Chained, Begun, Drawn

LEMMA ZoomCanvasLayered ==
    ASSUME IInv, LayeredInv, ZoomCanvas
    PROVE  LayeredInv'
<1> USE Before
<1>1. UNCHANGED <<state, failed, gen, chain>>
  BY DEF ZoomCanvas
<1>2. PICK C, W : /\ Renders(Now, Now', C, W)
                  /\ calls' = calls \cup C /\ waits' = waits \cup W
  BY ZoomCanvasStep
<1>3. /\ Keeps(Now, Now') /\ page' = page /\ trees' = trees
      /\ Now'.text = text' /\ Now'.annot = annot' /\ \A c \in C : c.stage = "data"
  BY <1>2 DEF Renders, Now
<1>4. Layered(Now') /\ Builds(calls', Now')
  <2>1. Layered(Now')
    BY <1>3, LayeredKept DEF LayeredInv
  <2>2. Builds(calls', Now')
    BY <1>2, <1>3, BuildsKept, BeforeLayered DEF LayeredInv
  <2> QED BY <2>1, <2>2
<1>5. ASSUME state = "finished", ~failed
      PROVE  Drawn'
  <2>1. /\ page.text # 0 /\ page.annot # 0 /\ page.struct # 0 /\ chain[gen].at # "none"
        /\ chain[gen].at = "over" => page.editor # 0
    BY <1>5 DEF LayeredInv, Begun, Drawn
  <2>2. /\ text'[page.text].streaming \/ (text'[page.text].done /\ ~text'[page.text].hidden)
        /\ text'[page.text].streaming \/ {page.struct} \ {0} \subseteq W
        /\ IF annot'[page.annot].div THEN ~annot'[page.annot].hidden
           ELSE \E c \in C : c.b = page.annot /\ c.stage = "data"
    BY <1>2, <1>3, <2>1 DEF Renders
  <2> QED BY <1>1, <1>2, <1>3, <2>1, <2>2 DEF Drawn
<1>6. Drawn' /\ Begun' /\ Chained'
  BY <1>1, <1>2, <1>3, <1>5 DEF LayeredInv, Begun, Drawn, Chained
<1> QED BY <1>1, <1>4, <1>6 DEF LayeredInv

LEMMA TextDoneLayered ==
    ASSUME NEW b \in Draws, IInv, LayeredInv, TextDone(b)
    PROVE  LayeredInv'
<1> USE Before
<1>1. UNCHANGED <<state, failed, gen, calls, chain>>
  BY DEF TextDone
<1>2. /\ b = page.text /\ page' = page /\ annot' = annot /\ trees' = trees
      /\ text'[b].done /\ ~text'[b].hidden
      /\ \A a \in Draws \ {b} : text'[a] = text[a]
      /\ dom'.text = b /\ dom'.annot = dom.annot /\ dom'.editor = dom.editor
      /\ Shared(mind) /\ (dom.annot # 0 /\ annot[dom.annot].built) => Shared(mind')
      /\ waits' = waits \cup ({page.struct} \ {0})
  BY TextDoneStep
<1>3. /\ Now'.page = page /\ Now'.text = text' /\ Now'.annot = annot /\ Now'.mind = mind'
      /\ Now'.dom = dom'
  BY <1>2 DEF Now
<1>4. page.annot # 0 => page.annot \in Draws
  BY BeforeLayered
<1>5. Layered(Now')
  BY <1>2, <1>3, <1>4 DEF LayeredInv, Layered
<1>6. Builds(calls', Now')
  BY <1>1, <1>3 DEF LayeredInv, Builds
<1>7. Drawn'
  BY <1>1, <1>2 DEF LayeredInv, Drawn
<1> QED BY <1>1, <1>2, <1>5, <1>6, <1>7 DEF LayeredInv, Begun, Chained

LEMMA TreeDoneLayered ==
    ASSUME NEW s \in waits, IInv, LayeredInv, TreeDone(s)
    PROVE  LayeredInv'
<1> USE Before
<1>1. /\ UNCHANGED <<state, failed, gen, page, text, annot, mind, dom, calls, chain>>
      /\ waits' = waits \ {s}
      /\ page.canvas # 0 => trees' = trees \cup {s}
  BY DEF TreeDone
<1>2. /\ Now'.page = page /\ Now'.text = text /\ Now'.annot = annot /\ Now'.mind = mind
      /\ Now'.dom = dom
  BY <1>1 DEF Now
<1>3. Layered(Now') /\ Builds(calls', Now')
  BY <1>1, <1>2 DEF LayeredInv, Layered, Builds
<1>4. state = "finished" => trees \cup waits \subseteq trees' \cup waits'
  BY <1>1 DEF LayeredInv, Begun
<1>5. Drawn'
  BY <1>1, <1>4 DEF LayeredInv, Drawn
<1> QED BY <1>1, <1>3, <1>5 DEF LayeredInv, Begun, Chained

LEMMA AnnotDataLayered ==
    ASSUME NEW c \in calls, IInv, LayeredInv, AnnotData(c)
    PROVE  LayeredInv'
<1> USE Before
<1>1. UNCHANGED <<state, failed, gen, waits>> /\ c.stage = "data" /\ c.b \in Draws
  BY DEF AnnotData, IInv, Calls
<1>2. Chained' /\ \A h \in Draws : chain'[h].at \in {chain[h].at, "text", "draw"}
  <2>1. chain' = ChainOn(c, Now) \/ chain' = chain
    BY DEF AnnotData
  <2> QED BY <2>1, ChainOnGoesOn DEF LayeredInv, Chained
<1>3. /\ page.annot # 0 => page.annot \in Draws
      /\ state # "initial" => gen \in Draws /\ page.annot \in Draws
  BY BeforeLayered
<1>4. CASE annot[c.b].cancelled /\ Now' = Now /\ calls' = calls \ {c}
  <2>1. /\ UNCHANGED <<page, text, annot, dom, trees>>
    BY <1>4 DEF Now
  <2>2. page.annot # 0 => c.b # page.annot
    BY <1>4 DEF Sound, Kept, Owned
  <2>3. Builds(calls', Now')
    BY <1>1, <1>4 DEF LayeredInv, Builds
  <2>4. Drawn'
    BY <1>1, <1>2, <1>3, <1>4, <2>1, <2>2 DEF LayeredInv, Begun, Drawn
  <2> QED BY <1>1, <1>2, <1>4, <2>1, <2>3, <2>4 DEF LayeredInv, Begun
<1>5. CASE /\ c.b = page.annot /\ c.b # 0
           /\ page' = page /\ text' = text /\ mind' = mind /\ trees' = trees
           /\ dom'.text = dom.text /\ dom'.annot = c.b /\ dom'.editor = dom.editor
           /\ \A b \in Draws : b # c.b => annot'[b] = annot[b]
           /\ annot'[c.b].div /\ annot'[c.b].built = annot[c.b].built
           /\ annot'[c.b].hidden = annot[c.b].hidden
           /\ \E e : e.b = c.b /\ e.stage = "build" /\ calls' = (calls \ {c}) \cup {e}
  <2>1. /\ Now'.page = page /\ Now'.text = text /\ Now'.annot = annot' /\ Now'.mind = mind
        /\ Now'.dom = dom'
    BY <1>5 DEF Now
  <2>2. Layered(Now')
    BY <1>1, <1>3, <1>5, <2>1 DEF LayeredInv, Layered
  <2>3. Builds(calls', Now')
    <3>1. PICK e : e.b = c.b /\ e.stage = "build" /\ calls' = (calls \ {c}) \cup {e}
      BY <1>5
    <3>2. \A d \in calls : d.b \in Draws
      BY DEF IInv, Calls
    <3> QED BY <1>1, <1>5, <2>1, <3>1, <3>2 DEF LayeredInv, Builds
  <2>4. Drawn'
    <3>1. ~annot[c.b].div => ~annot[c.b].hidden
      BY <1>1 DEF LayeredInv, Layered
    <3> QED BY <1>1, <1>2, <1>3, <1>5, <3>1 DEF LayeredInv, Begun, Drawn
  <2> QED BY <1>1, <1>2, <1>5, <2>2, <2>3, <2>4 DEF LayeredInv, Begun
<1> QED BY <1>4, <1>5, AnnotDataStep

LEMMA AnnotBuiltLayered ==
    ASSUME NEW c \in calls, IInv, LayeredInv, AnnotBuilt(c)
    PROVE  LayeredInv'
<1> USE Before
<1>1. /\ UNCHANGED <<state, failed, gen, waits>> /\ c.stage = "build"
      /\ c.b \in Draws /\ calls' = calls \ {c} /\ chain' = ChainOn(c, Now)
  BY DEF AnnotBuilt, IInv, Calls
<1>2. Chained' /\ \A h \in Draws : chain'[h].at \in {chain[h].at, "text", "draw"}
  BY <1>1, ChainOnGoesOn DEF LayeredInv
<1>3. /\ page.annot # 0 => page.annot \in Draws
      /\ state # "initial" => gen \in Draws /\ page.annot \in Draws
  BY BeforeLayered
<1>4. /\ page' = page /\ text' = text /\ dom' = dom /\ trees' = trees
      /\ \A b \in Draws : b # c.b => annot'[b] = annot[b]
      /\ annot'[c.b].built /\ annot'[c.b].div = annot[c.b].div
      /\ annot'[c.b].hidden = annot[c.b].hidden
      /\ Shared(mind')
  BY AnnotBuiltStep
<1>5. /\ Now'.page = page /\ Now'.text = text /\ Now'.annot = annot' /\ Now'.mind = mind'
      /\ Now'.dom = dom
  BY <1>4 DEF Now
<1>6. annot[c.b].div
  BY <1>1 DEF LayeredInv, Builds
<1>7. Layered(Now')
  BY <1>1, <1>3, <1>4, <1>5, <1>6 DEF LayeredInv, Layered
<1>8. Builds(calls', Now')
  <2>1. \A d \in calls : d.b \in Draws
    BY DEF IInv, Calls
  <2>2. \A b \in Draws : annot'[b].div <=> annot[b].div
    BY <1>4
  <2>3. \A d \in calls' : d.stage = "build" => annot'[d.b].div
    BY <1>1, <2>1, <2>2 DEF LayeredInv, Builds
  <2>4. CASE c.b = page.annot
    BY <1>4, <1>5, <2>3, <2>4 DEF Builds
  <2>5. CASE c.b # page.annot
    <3>1. page.annot # 0 /\ annot[page.annot].div =>
            annot[page.annot].built \/ \E d \in calls' : d.b = page.annot /\ d.stage = "build"
      BY <1>1, <2>5 DEF LayeredInv, Builds
    <3> QED BY <1>3, <1>4, <1>5, <2>3, <2>5, <3>1 DEF Builds
  <2> QED BY <2>4, <2>5
<1>9. Drawn'
  BY <1>1, <1>2, <1>3, <1>4, <1>6 DEF LayeredInv, Begun, Drawn
<1> QED BY <1>1, <1>2, <1>4, <1>7, <1>8, <1>9 DEF LayeredInv, Begun

LEMMA InjectLinksLayered ==
    ASSUME NEW g \in Draws, IInv, LayeredInv, InjectLinks(g)
    PROVE  LayeredInv'
<1>1. /\ UNCHANGED <<state, failed, gen, page, text, annot, dom, trees, waits, calls>>
      /\ Now' = Now
  BY LayersUnchanged DEF InjectLinks, layers
<1>2. Chained' /\ \A h \in Draws : chain'[h].at \in {chain[h].at, "draw"}
  <2> DEFINE f == [chain EXCEPT ![g].at = "draw"]
  <2>1. chain' = f
    BY DEF InjectLinks
  <2>2. DOMAIN f = Draws /\ \A h \in Draws : /\ "at" \in DOMAIN f[h]
                                             /\ f[h].at = IF h = g THEN "draw" ELSE chain[h].at
    BY ChainGoesOn DEF LayeredInv
  <2> HIDE DEF f
  <2> QED BY <2>1, <2>2 DEF Chained
<1>3. state # "initial" => gen \in Draws
  BY BeforeLayered
<1>4. Drawn'
  BY <1>1, <1>2, <1>3 DEF LayeredInv, Begun, Drawn
<1> QED BY <1>1, <1>2, <1>4 DEF LayeredInv, Begun

LEMMA RenderEditorLayered ==
    ASSUME NEW g \in Draws, IInv, LayeredInv, RenderEditor(g)
    PROVE  LayeredInv'
<1> USE Before
<1>1. UNCHANGED <<state, failed, gen, waits, calls>>
  BY DEF RenderEditor
<1>2. Chained' /\ \A h \in Draws : chain'[h].at = IF h = g THEN "over" ELSE chain[h].at
  <2> DEFINE f == [chain EXCEPT ![g].at = "over"]
  <2>1. chain' = f
    BY DEF RenderEditor
  <2>2. DOMAIN f = Draws /\ \A h \in Draws : /\ "at" \in DOMAIN f[h]
                                             /\ f[h].at = IF h = g THEN "over" ELSE chain[h].at
    BY ChainGoesOn DEF LayeredInv
  <2> HIDE DEF f
  <2> QED BY <2>1, <2>2 DEF Chained
<1>3. state # "initial" => gen \in Draws
  BY BeforeLayered
<1>4. /\ text' = text /\ annot' = annot /\ mind' = mind /\ trees' = trees
      /\ page'.text = page.text /\ page'.annot = page.annot
      /\ page'.canvas = page.canvas /\ page'.struct = page.struct
      /\ dom'.text = dom.text /\ dom'.annot = dom.annot
      /\ IF page.editor = 0 /\ page.annot # 0
         THEN page'.editor = g /\ dom'.editor = g
         ELSE page'.editor = page.editor /\ dom'.editor = dom.editor
  BY RenderEditorStep
<1>5. /\ Now'.page = page' /\ Now'.text = text /\ Now'.annot = annot /\ Now'.mind = mind
      /\ Now'.dom = dom'
  BY <1>4 DEF Now
<1>6. Layered(Now') /\ Builds(calls', Now')
  BY <1>1, <1>4, <1>5 DEF LayeredInv, Layered, Builds
<1>7. ASSUME state = "finished", ~failed
      PROVE  page'.editor # 0 \/ chain'[gen].at # "over"
  BY <1>2, <1>3, <1>4, <1>7 DEF LayeredInv, Begun, Drawn, Draws
<1>8. Drawn'
  BY <1>1, <1>2, <1>3, <1>4, <1>7 DEF LayeredInv, Begun, Drawn
<1> QED BY <1>1, <1>2, <1>4, <1>6, <1>8 DEF LayeredInv, Begun

LEMMA UnchangedLayered ==
    ASSUME LayeredInv, UNCHANGED vars
    PROVE  LayeredInv'
<1>1. /\ UNCHANGED <<state, failed, gen, page, text, annot, dom, trees, waits, calls, chain>>
      /\ Now' = Now
  BY LayersUnchanged DEF vars, layers
<1> QED BY <1>1 DEF LayeredInv, Chained, Begun, Drawn

LEMMA NextLayered ==
    ASSUME IInv, LayeredInv, [Next]_vars
    PROVE  LayeredInv'
<1>1. CASE Draw
  BY <1>1, DrawLayered
<1>2. CASE Finish
  BY <1>2, FinishLayered
<1>3. CASE FinishWithError
  BY <1>3, FinishWithErrorLayered
<1>4. CASE Zoom
  BY <1>4, ZoomStep, ResetLayered DEF Zoom
<1>5. CASE ZoomCanvas
  BY <1>5, ZoomCanvasLayered
<1>6. CASE Evict
  BY <1>6, EvictStep, ResetLayered DEF Evict
<1>7. ASSUME NEW b \in Draws, TextDone(b)
      PROVE  LayeredInv'
  BY <1>7, TextDoneLayered
<1>8. ASSUME NEW s \in waits, TreeDone(s)
      PROVE  LayeredInv'
  BY <1>8, TreeDoneLayered
<1>9. ASSUME NEW c \in calls, AnnotData(c) \/ AnnotBuilt(c)
      PROVE  LayeredInv'
  BY <1>9, AnnotDataLayered, AnnotBuiltLayered
<1>10. ASSUME NEW g \in Draws, InjectLinks(g)
       PROVE  LayeredInv'
  BY <1>10, InjectLinksLayered
<1>11. ASSUME NEW g \in Draws, RenderEditor(g)
       PROVE  LayeredInv'
  BY <1>11, RenderEditorLayered
<1>12. CASE UNCHANGED vars
  BY <1>12, UnchangedLayered
<1> QED BY <1>1, <1>2, <1>3, <1>4, <1>5, <1>6, <1>7, <1>8, <1>9, <1>10, <1>11, <1>12
        DEF Next

-----------------------------------------------------------------------------
(***************************************************************************)
(* What follows from it.                                                   *)
(***************************************************************************)

LEMMA InvariantHolds == Spec => []IInv
BY InitIInv, NextIInv, PTL DEF Spec

\* However draws, zooms and evictions interleave with the chains of earlier
\* draws, a node in the page's div is of a layer the page holds, that layer
\* was not cancelled, and no other text layer streams (cancelRendering, reset
\* and the layer builders of pdf_viewer.mjs).
THEOREM LayersAreOwned == Spec => []LayersOwned
<1>1. IInv => LayersOwned
  <2> SUFFICES ASSUME IInv
               PROVE  LayersOwned
    OBVIOUS
  <2> QED BY Before DEF Sound, Kept, Placed, Owned, LayersOwned
<1> QED BY <1>1, InvariantHolds, PTL

\* The highlighter, the accessibility manager and the listener for selections,
\* of which there is one each, follow the text layer the page shows, and
\* enable() never finds its manager enabled (TextHighlighter,
\* TextAccessibilityManager and TextLayerBuilder of pdf_viewer.mjs).
THEOREM HighlighterIsFollowing == Spec => []HighlighterFollows
<1>1. IInv => HighlighterFollows
  <2> SUFFICES ASSUME IInv
               PROVE  HighlighterFollows
    OBVIOUS
  <2>1. ~thrown /\ Follows(Now)
    BY Before DEF IInv, Kept
  <2> QED BY <2>1, Before DEF Follows, HighlighterFollows
<1> QED BY <1>1, InvariantHolds, PTL

LEMMA LayeredHolds == Spec => []LayeredInv
<1>1. IInv /\ LayeredInv /\ [Next]_vars => LayeredInv'
  BY NextLayered
<1> QED BY <1>1, InitLayered, InvariantHolds, PTL DEF Spec

\* When the chains have gone on and nothing is rendered or waited for, a page
\* that was drawn without an error shows its text and its annotations, its
\* editor's layer is in place, its canvas has the structure tree, and a div of
\* the text owns the annotation: no order of zooms, evictions and late renders
\* loses a layer
\* (draw, cancelRendering, reset and cssTransform of PDFPageView, and
\* TextAccessibilityManager of pdf_viewer.mjs).
THEOREM RestsWithItsLayers == Spec => []RestsLayered
<1>1. IInv /\ LayeredInv => RestsLayered
  <2> SUFFICES ASSUME IInv, LayeredInv, state = "finished", ~failed, calls = {},
                      waits = {}, \A b \in Draws : ~text[b].streaming,
                      \A g \in Draws : chain[g].at \in {"none", "over"}
               PROVE  /\ page.text # 0 /\ dom.text = page.text /\ ~text[page.text].hidden
                      /\ page.annot # 0 /\ dom.annot = page.annot
                      /\ ~annot[page.annot].hidden
                      /\ page.editor # 0 /\ dom.editor = page.editor
                      /\ page.struct \in trees
                      /\ mind.owned
    BY DEF RestsLayered
  <2> USE Before
  <2>1. gen \in Draws /\ page.text \in Draws /\ page.annot \in Draws
    BY BeforeLayered
  <2>2. page.text # 0 /\ page.annot # 0
    BY DEF LayeredInv, Begun
  <2>3. text[page.text].done /\ ~text[page.text].hidden /\ dom.text = page.text
    BY <2>1, <2>2 DEF LayeredInv, Drawn, Layered
  <2>4. /\ annot[page.annot].div /\ annot[page.annot].built
        /\ ~annot[page.annot].hidden /\ dom.annot = page.annot
    BY <2>1, <2>2 DEF LayeredInv, Drawn, Layered, Builds
  <2>5. chain[gen].at = "over"
    BY <2>1 DEF LayeredInv, Drawn
  <2>6. page.editor # 0 /\ dom.editor = page.editor
    BY <2>5 DEF LayeredInv, Drawn, Layered
  <2>7. page.struct \in trees
    BY <2>1 DEF LayeredInv, Drawn
  <2>8. mind.owned
    <3>1. mind.access
      BY <2>2, <2>3 DEF Sound, Kept, Follows
    <3> QED BY <2>2, <2>4, <3>1 DEF LayeredInv, Layered, Shared
  <2> QED BY <2>2, <2>3, <2>4, <2>6, <2>7, <2>8
<1> QED BY <1>1, InvariantHolds, LayeredHolds, PTL

-----------------------------------------------------------------------------
(***************************************************************************)
(* Rendering: numbers.                                                     *)
(***************************************************************************)

\* A set of numbers has a least one: the order of the numbers is well-founded.
LEMMA LeastNumber ==
    ASSUME NEW T \in SUBSET Nat, T # {}
    PROVE  \E n \in T : \A m \in T : n <= m
<1>1. \E x \in T : \A y \in T : ~(<<y, x>> \in OpToRel(<, Nat))
  BY WFMin, NatLessThanWellFounded, Zenon
<1>2. PICK x \in T : \A y \in T : ~(<<y, x>> \in OpToRel(<, Nat))
  BY <1>1
<1>3. \A y \in T : ~(y < x)
  BY <1>2 DEF OpToRel
<1> QED
  BY <1>3

\* Induction over the numbers, for a set of them.
LEMMA NumberInduction ==
    ASSUME NEW T \in SUBSET Nat, 0 \in T, \A n \in T : n + 1 \in T
    PROVE  T = Nat
<1> SUFFICES ASSUME Nat \ T # {}
             PROVE  FALSE
  OBVIOUS
<1>1. PICK n \in Nat \ T : \A m \in Nat \ T : n <= m
  BY LeastNumber
<1> QED
  BY <1>1

\* Of finitely many arguments one has the largest value.
LEMMA LargestValue ==
    ASSUME NEW n \in Nat, NEW f \in [1..n -> Int], NEW U \in SUBSET (1..n), U # {}
    PROVE  \E p \in U : \A o \in U : f[o] <= f[p]
<1> DEFINE Has(W) == \E p \in W : \A o \in W : f[o] <= f[p]
           T == {m \in Nat : m <= n => \A W \in SUBSET (1..m) : W # {} => Has(W)}
<1>1. 0 \in T
  <2>1. 1..0 = {}
    OBVIOUS
  <2> QED
    BY <2>1
<1>2. ASSUME NEW m \in T
      PROVE  m + 1 \in T
  <2> SUFFICES ASSUME m + 1 <= n, NEW W \in SUBSET (1..(m + 1)), W # {}
               PROVE  Has(W)
    OBVIOUS
  <2> DEFINE V == W \ {m + 1}
  <2>1. m \in Nat /\ V \in SUBSET (1..m) /\ m <= n
    OBVIOUS
  <2>2. CASE m + 1 \notin W
    <3>1. W \in SUBSET (1..m)
      BY <2>2
    <3> QED
      BY <2>1, <3>1
  <2>3. CASE m + 1 \in W /\ V = {}
    <3>1. \A o \in W : o = m + 1
      BY <2>3
    <3>2. m + 1 \in 1..n
      BY <2>1
    <3>3. f[m + 1] <= f[m + 1]
      BY <3>2
    <3> QED
      BY <2>3, <3>1, <3>3
  <2>4. CASE m + 1 \in W /\ V # {}
    <3>1. PICK p \in V : \A o \in V : f[o] <= f[p]
      BY <2>1, <2>4
    <3>2. f[p] \in Int /\ f[m + 1] \in Int
      BY <2>1
    <3>3. CASE f[m + 1] <= f[p]
      BY <3>1, <3>3
    <3>4. CASE f[p] <= f[m + 1]
      <4>1. \A o \in W : f[o] \in Int
        BY <2>1
      <4>2. \A o \in W : f[o] <= f[m + 1]
        BY <3>1, <3>2, <3>4, <4>1
      <4> QED
        BY <2>4, <4>2
    <3> QED
      BY <3>2, <3>3, <3>4
  <2> QED
    BY <2>2, <2>3, <2>4
<1>3. T = Nat
  <2> HIDE DEF T
  <2>1. T \in SUBSET Nat
    BY DEF T
  <2> QED
    BY <1>1, <1>2, <2>1, NumberInduction
<1>4. n \in T
  BY <1>3
<1> QED
  BY <1>4

LEMMA MaxPair ==
    ASSUME NEW a \in Int, NEW b \in Int
    PROVE  Max({a, b}) = IF a >= b THEN a ELSE b
<1> DEFINE m == IF a >= b THEN a ELSE b
<1>1. m \in {a, b} /\ \A y \in {a, b} : m >= y
  OBVIOUS
<1>2. \A x \in {a, b} : (\A y \in {a, b} : x >= y) => x = m
  OBVIOUS
<1> HIDE DEF m
<1>3. Max({a, b}) = m
  BY <1>1, <1>2 DEF Max
<1> QED
  BY <1>3 DEF m

LEMMA MinPair ==
    ASSUME NEW a \in Int, NEW b \in Int
    PROVE  Min({a, b}) = IF a <= b THEN a ELSE b
<1> DEFINE m == IF a <= b THEN a ELSE b
<1>1. m \in {a, b} /\ \A y \in {a, b} : m <= y
  OBVIOUS
<1>2. \A x \in {a, b} : (\A y \in {a, b} : x <= y) => x = m
  OBVIOUS
<1> HIDE DEF m
<1>3. Min({a, b}) = m
  BY <1>1, <1>2 DEF Min
<1> QED
  BY <1>3 DEF m

\* The first and the last of some pages.
LEMMA FirstAndLast ==
    ASSUME NEW n \in Nat, NEW S \in SUBSET (1..n), S # {}
    PROVE  /\ Min(S) \in S /\ \A p \in S : Min(S) <= p
           /\ Max(S) \in S /\ \A p \in S : p <= Max(S)
<1>1. PICK a \in S : \A p \in S : a <= p
  BY LeastNumber
<1> DEFINE f == [i \in 1..n |-> i]
<1>2. PICK b \in S : \A p \in S : f[p] <= f[b]
  <2>1. f \in [1..n -> Int]
    OBVIOUS
  <2> HIDE DEF f
  <2> QED
    BY <2>1, LargestValue
<1>3. \A p \in S : b >= p
  BY <1>2
<1>4. Min(S) \in S /\ \A p \in S : Min(S) <= p
  BY <1>1 DEF Min
<1>5. Max(S) \in S /\ \A p \in S : Max(S) >= p
  BY <1>3 DEF Max
<1> QED
  BY <1>4, <1>5

-----------------------------------------------------------------------------
(***************************************************************************)
(* Rendering: the layout and what is visible.                              *)
(***************************************************************************)
LEMMA LayoutType ==
    ASSUME layout \in Layouts
    PROVE  /\ N \in Nat \ {0} /\ Pages = 1..N /\ Views = 1..(2 * N)
           /\ \A p \in Pages : /\ layout.page[p].top \in Nat /\ layout.page[p].bottom \in Nat
                               /\ layout.page[p].seen \in BOOLEAN
                               /\ layout.page[p].top < layout.page[p].bottom
           /\ layout.scrolls \in Nat /\ layout.zooms \in Nat /\ layout.maxZoom \in Nat \ {0}
<1>1. /\ layout.page \in Seq([top : Nat, bottom : Nat, seen : BOOLEAN]) /\ layout.page # <<>>
      /\ \A p \in DOMAIN layout.page : layout.page[p].top < layout.page[p].bottom
      /\ layout.scrolls \in Nat /\ layout.zooms \in Nat /\ layout.maxZoom \in Nat \ {0}
  BY RenderingAssumption
<1> DEFINE B == [top : Nat, bottom : Nat, seen : BOOLEAN]
           s == layout.page
<1>2. /\ Len(s) \in Nat \ {0} /\ DOMAIN s = 1..Len(s)
      /\ \A p \in 1..Len(s) : s[p] \in B
  <2>1. s \in Seq(B) /\ s # <<>>
    BY <1>1
  <2> HIDE DEF B, s
  <2>2. Len(s) \in Nat /\ DOMAIN s = 1..Len(s)
    BY <2>1
  <2>3. Len(s) # 0
    BY <2>1
  <2>4. \A p \in 1..Len(s) : s[p] \in B
    BY <2>1
  <2> QED
    BY <2>2, <2>3, <2>4
<1> QED
  BY <1>1, <1>2 DEF N, Pages, Views

\* The views of a page.
LEMMA ViewOfPage ==
    ASSUME layout \in Layouts
    PROVE  /\ \A p \in Pages : /\ p \in Views /\ Detail(p) \in Views /\ Detail(p) > N /\ ~(p > N)
                               /\ PageOf(p) = p /\ PageOf(Detail(p)) = p
                               /\ 2 * N + p \in 1..(3 * N) /\ PageOf(2 * N + p) = p
                               /\ 2 * N + p > 2 * N /\ 2 * N + p \notin Views
           /\ \A v \in Views : /\ v \in 1..(3 * N) /\ PageOf(v) \in Pages /\ ~(v > 2 * N) /\ v \in Nat
                               /\ v > N => v = Detail(PageOf(v))
                               /\ ~(v > N) => v = PageOf(v)
           /\ \A v \in 1..(3 * N) : /\ PageOf(v) \in Pages /\ (v > 2 * N => v = 2 * N + PageOf(v))
                                    /\ ~(v > 2 * N) => v \in Views
<1>1. N \in Nat \ {0} /\ Pages = 1..N /\ Views = 1..(2 * N)
  BY LayoutType
<1> DEFINE n == N
<1> QED
  <2>1. n \in Nat \ {0} /\ Pages = 1..n /\ Views = 1..(2 * n) /\ N = n
    BY <1>1
  <2> HIDE DEF n
  <2> QED
    BY <2>1, SMT DEF PageOf, Detail

LEMMA ScaledBy ==
    ASSUME NEW a \in Nat, NEW b \in Nat, NEW z \in Nat \ {0}, a < b
    PROVE  a * z \in Nat /\ b * z \in Nat /\ a * z < b * z
  OBVIOUS

LEMMA EdgesType ==
    ASSUME layout \in Layouts, NEW z \in Nat \ {0}, NEW p \in Pages
    PROVE  Top(p, z) \in Nat /\ Bottom(p, z) \in Nat /\ Top(p, z) < Bottom(p, z)
BY LayoutType, ScaledBy DEF Top, Bottom

\* One can scroll to the top.
LEMMA MaxTopType ==
    ASSUME layout \in Layouts, NEW z \in Nat \ {0}
    PROVE  /\ MaxTop(z) \in Nat
           /\ MaxTop(z) = 0 \/ \E p \in Pages : MaxTop(z) = Bottom(p, z) - Height
<1> DEFINE W == {0} \cup {Bottom(p, z) - Height : p \in Pages}
           f == [p \in 1..N |-> Bottom(p, z) - Height]
<1>1. Height \in Nat
  BY RenderingAssumption
<1>2. f \in [1..N -> Int] /\ 1..N # {} /\ N \in Nat
  BY <1>1, LayoutType, EdgesType
<1>3. PICK b \in 1..N : \A p \in 1..N : f[p] <= f[b]
  <2> HIDE DEF f
  <2>1. 1..N \in SUBSET (1..N)
    OBVIOUS
  <2> QED
    BY <1>2, <2>1, LargestValue
<1> DEFINE m == IF f[b] >= 0 THEN f[b] ELSE 0
<1>4. f[b] \in Int /\ f[b] = Bottom(b, z) - Height /\ b \in Pages
  BY <1>2, LayoutType
<1>5. m \in Nat /\ m \in W
  <2> HIDE DEF f
  <2> QED BY <1>4
<1>6. \A p \in Pages : f[p] = Bottom(p, z) - Height /\ f[p] <= f[b] /\ f[p] \in Int
  BY <1>2, <1>3, LayoutType
<1>7. \A x \in W : m >= x /\ x \in Int
  <2> TAKE x \in W
  <2>1. CASE x = 0
    <3> HIDE DEF f
    <3> QED BY <1>4, <2>1
  <2>2. CASE x # 0
    <3>1. PICK p \in Pages : x = Bottom(p, z) - Height
      BY <2>2
    <3> HIDE DEF f
    <3> QED BY <1>4, <1>6, <3>1
  <2> QED BY <2>1, <2>2
<1>8. MaxTop(z) \in W /\ \A x \in W : MaxTop(z) >= x
  <2> HIDE DEF W, m
  <2>1. Max(W) \in W /\ \A x \in W : Max(W) >= x
    BY <1>5, <1>7 DEF Max
  <2>2. MaxTop(z) = Max(W)
    BY DEF MaxTop, W
  <2> QED BY <2>1, <2>2
<1>9. 0 \in W
  OBVIOUS
<1>10. \A x \in W : x = 0 \/ \E p \in Pages : x = Bottom(p, z) - Height
  OBVIOUS
<1> QED
  <2> HIDE DEF W, m
  <2> QED BY <1>7, <1>8, <1>9, <1>10

LEMMA VisibleArePages ==
    ASSUME layout \in Layouts, NEW y, NEW z
    PROVE  /\ Visible(y, z) \in SUBSET Pages
           /\ \A p \in Visible(y, z) : Bottom(p, z) > y /\ Top(p, z) < y + Height
BY DEF Visible

\* The part of a visible page that is shown lies on the page.
LEMMA AreaOnPage ==
    ASSUME layout \in Layouts, NEW z \in Nat \ {0}, NEW y \in Nat, NEW p \in Pages
    PROVE  /\ Area(p, y, z)[1] \in Nat /\ Area(p, y, z)[2] \in Int
           /\ Area(p, y, z)[2] <= Bottom(p, z) - Top(p, z)
<1> DEFINE t == Top(p, z)
           b == Bottom(p, z)
<1>1. t \in Nat /\ b \in Nat /\ Height \in Nat
  BY EdgesType, RenderingAssumption
<1> HIDE DEF t, b
<1>2. Max({0, y - t}) = IF 0 >= y - t THEN 0 ELSE y - t
  BY <1>1, MaxPair
<1>3. Min({b, y + Height}) = IF b <= y + Height THEN b ELSE y + Height
  BY <1>1, MinPair
<1>4. Max({0, y - t}) \in Nat /\ Min({b, y + Height}) - t \in Int /\ Min({b, y + Height}) - t <= b - t
  BY <1>1, <1>2, <1>3
<1> QED
  BY <1>4 DEF Area, t, b

LEMMA PercentType ==
    ASSUME layout \in Layouts, NEW z \in Nat \ {0}, NEW y \in Nat, NEW p \in Pages
    PROVE  Percent(p, y, z) \in Int
<1>1. Bottom(p, z) - Top(p, z) \in Nat \ {0}
  BY EdgesType
<1>2. (Area(p, y, z)[2] - Area(p, y, z)[1]) * 100 \in Int
  BY AreaOnPage
<1> QED
  BY <1>1, <1>2 DEF Percent

\* There is a most visible one of some pages.
LEMMA MostVisibleIsOne ==
    ASSUME layout \in Layouts, NEW z \in Nat \ {0}, NEW y \in Nat,
           NEW U \in SUBSET Pages, U # {}
    PROVE  MostVisible(U, y, z) \in U
<1> DEFINE f == [p \in 1..N |-> Percent(p, y, z)]
<1>1. f \in [1..N -> Int] /\ U \in SUBSET (1..N) /\ N \in Nat
  BY LayoutType, PercentType
<1>2. PICK b \in U : \A o \in U : f[o] <= f[b]
  <2> HIDE DEF f
  <2> QED
    BY <1>1, LargestValue
<1> DEFINE W == {o \in U : f[o] = f[b]}
<1>3. PICK p \in W : \A o \in W : p <= o
  <2>1. W \in SUBSET Nat
    <3>1. \A o \in U : o \in Nat
      BY <1>1
    <3>2. W \subseteq U
      OBVIOUS
    <3> HIDE DEF W
    <3> QED BY <3>1, <3>2
  <2>2. b \in W
    OBVIOUS
  <2> HIDE DEF W
  <2> QED
    BY <2>1, <2>2, LeastNumber
<1>4. \A o \in U : f[o] = Percent(o, y, z) /\ f[o] \in Int
  BY <1>1
<1>5. \A o \in U : f[o] < f[p] \/ (f[o] = f[p] /\ p <= o)
  <2> TAKE o \in U
  <2>1. f[p] = f[b] /\ f[o] <= f[b]
    <3> HIDE DEF f
    <3> QED BY <1>2
  <2>2. CASE o \in W
    <3>1. f[o] = f[b] /\ p <= o
      BY <1>3, <2>2
    <3> QED
      BY <2>1, <3>1
  <2>3. CASE o \notin W
    <3>1. f[o] # f[b]
      BY <2>3
    <3>2. f[o] \in Int /\ f[b] \in Int
      BY <1>4
    <3> HIDE DEF f, W
    <3> QED
      BY <2>1, <3>1, <3>2
  <2> QED BY <2>2, <2>3
<1>6. \A o \in U : \/ Percent(o, y, z) < Percent(p, y, z)
                   \/ Percent(o, y, z) = Percent(p, y, z) /\ p <= o
  BY <1>4, <1>5
<1>7. p \in U
  OBVIOUS
<1> QED
  BY <1>6, <1>7 DEF MostVisible

\* A page is there at most once.
Distinct(b) == \A i, j \in 1..Len(b) : b[i] = b[j] => i = j

States == {"absent", "initial", "running", "paused", "finished"}
Spans == {<<>>} \cup [from : Int, to : Int, zoom : Nat]

\* What the viewer knows of its views.
Records ==
    [state : [Views -> States], task : [Views -> {"none", "going", "held"}],
     canvas : [Views -> BOOLEAN], prev : [Views -> BOOLEAN],
     capped : [Pages -> BOOLEAN], area : [Pages -> Spans], buffer : Seq(Pages),
     size : Nat \ {0}, loads : [1..(3 * N) -> Nat], kicks : Nat, priority : 0..(2 * N)]

\* The detail view of page p has a canvas, or will draw one unasked.
Asked(r, p) ==
    \/ r.canvas[Detail(p)] \/ r.prev[Detail(p)]
    \/ r.loads[Detail(p)] > 0 /\ p \notin Broken

\* A view's state is what its drawing does; a drawing has a canvas and its
\* page, and a finished view has them unless the page never came; and nothing
\* asks for a detail view that its page has not.
ViewSound(r, L, v) ==
    /\ r.task[v] = CASE r.state[v] = "running" -> "going"
                     [] r.state[v] = "paused" -> "held"
                     [] OTHER -> "none"
    /\ r.state[v] = "absent" => v > N /\ ~r.canvas[v] /\ ~r.prev[v] /\ r.loads[v] = 0
    /\ r.task[v] # "none" => r.canvas[v] /\ PageOf(v) \in L
    /\ r.state[v] = "finished" => /\ PageOf(v) \in L \cup Broken
                                  /\ PageOf(v) \in Broken \/ r.canvas[v]

ViewsSound(r, L) == \A v \in Views : ViewSound(r, L, v)

\* A page with a canvas, or a detail view that has one or will, is in the buffer.
Held(r) == \A p \in Pages : r.canvas[p] \/ Asked(r, p) => p \in ToSet(r.buffer)

BufferSound(r) == Distinct(r.buffer) /\ Len(r.buffer) <= r.size /\ Held(r)

\* The detail views are those of pages of S, and cover what is shown of them.
Covers(a, p, y, z) ==
    a # <<>> /\ a.zoom = z /\ a.from <= Area(p, y, z)[1] /\ Area(p, y, z)[2] <= a.to

Covered(r, S, y, z) ==
    \A p \in Pages :
        /\ Asked(r, p) => p \in S
        /\ p \in S /\ r.state[Detail(p)] # "absent" => Covers(r.area[p], p, y, z)

\* Nothing is left to draw of the pages S.
AllDrawn(r, S) == \A p \in S : Finished(r, p) /\ r.state[Detail(p)] \in {"absent", "finished"}

\* Something is under way that will ask for what is to be drawn.
Awaited(r) ==
    \/ r.kicks > 0
    \/ \E v \in Views : r.task[v] = "going" /\ r.priority = v
    \/ \E v \in 1..(3 * N) : r.loads[v] > 0 /\ (v > 2 * N \/ r.state[v] # "finished")

\* View v of c is as in r.
Same(r, c, v) ==
    /\ c.state[v] = r.state[v] /\ c.task[v] = r.task[v] /\ c.loads[v] = r.loads[v]
    /\ c.canvas[v] = r.canvas[v] /\ c.prev[v] = r.prev[v]

\* c is r with at most some views reset or dropped: none has got more to show,
\* and what was under way is, or has ended and will be noticed.
Fewer(r, c) ==
    /\ \A p \in Pages :
        /\ Asked(c, p) => Asked(r, p)
        /\ c.state[Detail(p)] # "absent" => r.state[Detail(p)] # "absent" /\ c.area[p] = r.area[p]
        /\ c.canvas[p] => r.canvas[p]
    /\ Awaited(r) => Awaited(c)
    /\ c.size = r.size /\ c.priority = r.priority

-----------------------------------------------------------------------------
(***************************************************************************)
(* Rendering: the buffer's sequences.                                      *)
(***************************************************************************)
\* One step of Without.
LessStep(b, S, g, i) ==
    IF i = 0 THEN <<>>
    ELSE IF b[i] \in S THEN g[i - 1] ELSE Append(g[i - 1], b[i])

\* Up to any n there is a function that takes these steps.
LEMMA LessExists ==
    ASSUME NEW b, NEW S, NEW n \in Nat
    PROVE  \E g : g = [i \in 0..n |-> LessStep(b, S, g, i)]
<1> DEFINE T == {m \in Nat : \E g : g = [i \in 0..m |-> LessStep(b, S, g, i)]}
<1>1. 0 \in T
  <2> DEFINE g == [i \in 0..0 |-> <<>>]
  <2>1. g = [i \in 0..0 |-> LessStep(b, S, g, i)]
    BY DEF LessStep
  <2> QED
    BY <2>1
<1>2. ASSUME NEW m \in T
      PROVE  m + 1 \in T
  <2>1. PICK g : g = [i \in 0..m |-> LessStep(b, S, g, i)]
    OBVIOUS
  <2> DEFINE h == [i \in 0..(m + 1) |-> IF i <= m THEN g[i] ELSE LessStep(b, S, g, i)]
  <2>2. \A i \in 0..(m + 1) : LessStep(b, S, h, i) = LessStep(b, S, g, i)
    <3> TAKE i \in 0..(m + 1)
    <3>1. i # 0 => i - 1 \in 0..(m + 1) /\ i - 1 <= m
      OBVIOUS
    <3>2. i # 0 => h[i - 1] = g[i - 1]
      BY <3>1
    <3> QED
      BY <3>2 DEF LessStep
  <2>3. \A i \in 0..(m + 1) : i <= m => i \in 0..m
    OBVIOUS
  <2>4. \A i \in 0..m : g[i] = LessStep(b, S, g, i)
    BY <2>1
  <2>5. \A i \in 0..(m + 1) : h[i] = LessStep(b, S, h, i)
    BY <2>2, <2>3, <2>4
  <2>6. h = [i \in 0..(m + 1) |-> LessStep(b, S, h, i)]
    BY <2>5
  <2>7. m + 1 \in Nat
    OBVIOUS
  <2> QED
    BY <2>6, <2>7
<1>3. T = Nat
  <2> HIDE DEF T
  <2>1. T \in SUBSET Nat
    BY DEF T
  <2> QED
    BY <1>1, <1>2, <2>1, NumberInduction
<1> QED
  BY <1>3

\* Without is the last of its steps.
LEMMA LessSteps ==
    ASSUME NEW b, NEW S, Len(b) \in Nat
    PROVE  \E g : /\ Without(b, S) = g[Len(b)]
                  /\ \A i \in 0..Len(b) : g[i] = LessStep(b, S, g, i)
<1> DEFINE g == CHOOSE g : g = [i \in 0..Len(b) |-> LessStep(b, S, g, i)]
<1>1. g = [i \in 0..Len(b) |-> LessStep(b, S, g, i)]
  BY LessExists
<1>2. Without(b, S) = g[Len(b)]
  BY DEF Without, LessStep
<1> QED
  <2> HIDE DEF g
  <2> QED BY <1>1, <1>2

\* The elements of a sequence.
LEMMA Elements ==
    ASSUME NEW P, NEW b \in Seq(P)
    PROVE  /\ \A x : x \in ToSet(b) <=> \E i \in 1..Len(b) : b[i] = x
           /\ ToSet(b) \subseteq P
<1>1. DOMAIN b = 1..Len(b) /\ \A i \in 1..Len(b) : b[i] \in P
  OBVIOUS
<1> QED
  BY <1>1 DEF ToSet

\* Without leaves each of the other elements where it was among them.
LEMMA WithoutKeeps ==
    ASSUME NEW P, NEW b \in Seq(P), NEW S, Distinct(b)
    PROVE  /\ Without(b, S) \in Seq(P)
           /\ Distinct(Without(b, S))
           /\ ToSet(Without(b, S)) = ToSet(b) \ S
<1>1. Len(b) \in Nat /\ \A i \in 1..Len(b) : b[i] \in P
  OBVIOUS
<1>2. PICK g : /\ Without(b, S) = g[Len(b)]
               /\ \A i \in 0..Len(b) : g[i] = LessStep(b, S, g, i)
  BY <1>1, LessSteps
<1> DEFINE Fine(i) ==
               /\ g[i] \in Seq(P)
               /\ \A j \in 1..Len(g[i]) : g[i][j] \notin S /\ \E k \in 1..i : g[i][j] = b[k]
               /\ \A k \in 1..i : b[k] \notin S => \E j \in 1..Len(g[i]) : g[i][j] = b[k]
               /\ Distinct(g[i])
           T == {i \in Nat : i <= Len(b) => Fine(i)}
<1>3. 0 \in T
  <2>1. g[0] = <<>>
    BY <1>1, <1>2 DEF LessStep
  <2>2. g[0] \in Seq(P) /\ Len(g[0]) = 0 /\ 1..0 = {}
    BY <2>1
  <2>3. Fine(0)
    BY <2>2 DEF Distinct
  <2> HIDE DEF Fine
  <2> QED
    BY <2>3
<1>4. ASSUME NEW n \in T
      PROVE  n + 1 \in T
  <2> SUFFICES ASSUME n + 1 <= Len(b)
               PROVE  Fine(n + 1)
    OBVIOUS
  <2>1. /\ n \in Nat /\ n + 1 \in 1..Len(b) /\ n + 1 \in 0..Len(b)
        /\ (n + 1) - 1 = n /\ n + 1 # 0
    BY <1>1
  <2>2. Fine(n)
    BY <1>1, <2>1
  <2>3. g[n + 1] = IF b[n + 1] \in S THEN g[n] ELSE Append(g[n], b[n + 1])
    BY <1>2, <2>1 DEF LessStep
  <2>4. \A k : k \in 1..(n + 1) <=> k \in 1..n \/ k = n + 1
    BY <2>1
  <2>5. CASE b[n + 1] \in S
    <3>1. g[n + 1] = g[n]
      BY <2>3, <2>5
    <3> QED
      BY <2>2, <2>4, <2>5, <3>1
  <2>6. CASE b[n + 1] \notin S
    <3> DEFINE c == g[n]
               e == b[n + 1]
               a == Append(c, e)
    <3>1. g[n + 1] = a /\ e \in P /\ e \notin S
      BY <1>1, <2>1, <2>3, <2>6
    <3>2. c \in Seq(P) /\ Len(c) \in Nat
      BY <2>2
    <3>3. /\ a \in Seq(P) /\ Len(a) = Len(c) + 1 /\ a[Len(c) + 1] = e
          /\ \A j \in 1..Len(c) : a[j] = c[j]
      <4> HIDE DEF c, e
      <4> QED BY <3>1, <3>2
    <3>4. \A j \in 1..Len(c) : c[j] \notin S /\ \E k \in 1..n : c[j] = b[k]
      BY <2>2
    <3>5. \A k \in 1..n : b[k] \notin S => \E j \in 1..Len(c) : c[j] = b[k]
      BY <2>2
    <3>6. \A j : j \in 1..Len(a) <=> j \in 1..Len(c) \/ j = Len(c) + 1
      BY <3>2, <3>3
    <3>7. \A j \in 1..Len(a) : a[j] \notin S /\ \E k \in 1..(n + 1) : a[j] = b[k]
      <4> TAKE j \in 1..Len(a)
      <4>1. CASE j \in 1..Len(c)
        <5>1. a[j] = c[j]
          BY <3>3, <4>1
        <5>2. c[j] \notin S /\ \E k \in 1..n : c[j] = b[k]
          BY <3>4, <4>1
        <5> HIDE DEF a, c
        <5> QED BY <2>4, <5>1, <5>2
      <4>2. CASE j = Len(c) + 1
        <5>1. a[j] = b[n + 1]
          BY <3>3, <4>2
        <5> HIDE DEF a, c
        <5> QED BY <2>4, <2>6, <5>1
      <4> QED
        BY <3>6, <4>1, <4>2
    <3>8. \A k \in 1..(n + 1) : b[k] \notin S => \E j \in 1..Len(a) : a[j] = b[k]
      <4> HIDE DEF a, c
      <4> QED BY <2>4, <3>3, <3>5, <3>6
    <3>9. Distinct(a)
      <4>1. \A j \in 1..Len(c) : c[j] # e
        <5> TAKE j \in 1..Len(c)
        <5>1. PICK k \in 1..n : c[j] = b[k]
          BY <3>4
        <5>2. k \in 1..Len(b) /\ k # n + 1
          BY <1>1, <2>1
        <5> QED
          BY <2>1, <5>1, <5>2 DEF Distinct
      <4>2. Distinct(c)
        BY <2>2
      <4> HIDE DEF a, c, e
      <4> SUFFICES ASSUME NEW i \in 1..Len(a), NEW j \in 1..Len(a), a[i] = a[j], i # j
                   PROVE  FALSE
        BY DEF Distinct
      <4>3. CASE i \in 1..Len(c) /\ j \in 1..Len(c)
        BY <3>3, <4>2, <4>3 DEF Distinct
      <4>4. CASE i = Len(c) + 1 \/ j = Len(c) + 1
        <5>1. i \in 1..Len(c) \/ j \in 1..Len(c)
          BY <3>6, <4>4
        <5> QED BY <3>3, <4>1, <4>4, <5>1
      <4> QED BY <3>6, <4>3, <4>4
    <3> QED
      <4> HIDE DEF a
      <4> QED BY <3>1, <3>3, <3>7, <3>8, <3>9
  <2> QED
    BY <2>5, <2>6
<1>5. T = Nat
  <2> HIDE DEF T
  <2>1. T \in SUBSET Nat
    BY DEF T
  <2> QED
    BY <1>3, <1>4, <2>1, NumberInduction
<1>6. Fine(Len(b))
  <2>1. Len(b) \in T
    BY <1>1, <1>5
  <2> HIDE DEF Fine
  <2> QED
    BY <1>1, <2>1
<1> DEFINE w == Without(b, S)
<1>7. /\ w \in Seq(P) /\ Distinct(w)
      /\ \A j \in 1..Len(w) : w[j] \notin S /\ \E k \in 1..Len(b) : w[j] = b[k]
      /\ \A k \in 1..Len(b) : b[k] \notin S => \E j \in 1..Len(w) : w[j] = b[k]
  BY <1>2, <1>6
<1>8. \A x : x \in ToSet(w) <=> x \in ToSet(b) \ S
  <2>1. \A x : x \in ToSet(w) <=> \E i \in 1..Len(w) : w[i] = x
    BY <1>7, Elements
  <2>2. \A x : x \in ToSet(b) <=> \E i \in 1..Len(b) : b[i] = x
    BY Elements
  <2> HIDE DEF w
  <2> TAKE x
  <2>3. ASSUME x \in ToSet(w)
        PROVE  x \in ToSet(b) \ S
    BY <1>7, <2>1, <2>2, <2>3
  <2>4. ASSUME x \in ToSet(b) \ S
        PROVE  x \in ToSet(w)
    <3>1. PICK k \in 1..Len(b) : b[k] = x
      BY <2>2, <2>4
    <3>2. PICK j \in 1..Len(w) : w[j] = b[k]
      BY <1>7, <2>4, <3>1
    <3> QED BY <2>1, <3>1, <3>2
  <2> QED
    BY <2>3, <2>4
<1> QED
  BY <1>7, <1>8

\* An element after the others.
LEMMA AppendKeeps ==
    ASSUME NEW P, NEW b \in Seq(P), NEW e \in P, Distinct(b), e \notin ToSet(b)
    PROVE  LET a == Append(b, e)
           IN  /\ a \in Seq(P) /\ Distinct(a) /\ ToSet(a) = ToSet(b) \cup {e}
               /\ Len(a) \in Nat \ {0} /\ a[Len(a)] = e
<1> DEFINE a == Append(b, e)
<1>1. /\ Len(b) \in Nat /\ a \in Seq(P) /\ Len(a) = Len(b) + 1 /\ a[Len(b) + 1] = e
      /\ \A j \in 1..Len(b) : a[j] = b[j]
  OBVIOUS
<1>2. \A j : j \in 1..Len(a) <=> j \in 1..Len(b) \/ j = Len(b) + 1
  BY <1>1
<1> HIDE DEF a
<1>3. \A j \in 1..Len(b) : b[j] # e
  BY Elements
<1>4. Distinct(a)
  BY <1>1, <1>2, <1>3 DEF Distinct
<1>5. \A x : x \in ToSet(a) <=> x \in ToSet(b) \cup {e}
  BY <1>1, <1>2, Elements
<1>6. ToSet(a) = ToSet(b) \cup {e}
  BY <1>5
<1> QED
  BY <1>1, <1>4, <1>6 DEF a

\* One sequence after another.
LEMMA ConcatKeeps ==
    ASSUME NEW P, NEW b \in Seq(P), NEW c \in Seq(P), Distinct(b), Distinct(c),
           ToSet(b) \cap ToSet(c) = {}
    PROVE  /\ b \o c \in Seq(P) /\ Distinct(b \o c) /\ ToSet(b \o c) = ToSet(b) \cup ToSet(c)
<1> DEFINE a == b \o c
           m == Len(b)
<1>1. /\ m \in Nat /\ Len(c) \in Nat /\ a \in Seq(P) /\ Len(a) = m + Len(c)
      /\ \A j \in 1..(m + Len(c)) : a[j] = IF j <= m THEN b[j] ELSE c[j - m]
  OBVIOUS
<1>2. \A j \in 1..Len(a) : \/ j \in 1..m /\ a[j] = b[j]
                           \/ j - m \in 1..Len(c) /\ a[j] = c[j - m] /\ j \in Int
  <2> HIDE DEF a, m
  <2> QED BY <1>1
<1>3. \A j \in 1..m : j \in 1..Len(a) /\ a[j] = b[j]
  <2> HIDE DEF a, m
  <2> QED BY <1>1
<1>4. \A j \in 1..Len(c) : j + m \in 1..Len(a) /\ a[j + m] = c[j]
  <2> HIDE DEF a, m
  <2> QED BY <1>1
<1>5. \A i \in 1..m, j \in 1..Len(c) : b[i] # c[j]
  BY Elements
<1>6. Distinct(a)
  <2> SUFFICES ASSUME NEW i \in 1..Len(a), NEW j \in 1..Len(a), a[i] = a[j]
               PROVE  i = j
    BY DEF Distinct
  <2> HIDE DEF a
  <2>1. CASE i \in 1..m /\ a[i] = b[i]
    <3>1. j \in 1..m /\ a[j] = b[j]
      BY <1>2, <1>5, <2>1
    <3> QED BY <2>1, <3>1 DEF Distinct
  <2>2. CASE i - m \in 1..Len(c) /\ a[i] = c[i - m] /\ i \in Int
    <3>1. j - m \in 1..Len(c) /\ a[j] = c[j - m] /\ j \in Int
      BY <1>2, <1>5, <2>2
    <3>2. i - m = j - m
      BY <2>2, <3>1 DEF Distinct
    <3> HIDE DEF m
    <3> QED BY <1>1, <2>2, <3>1, <3>2
  <2> QED BY <1>2, <2>1, <2>2
<1>7. \A x : x \in ToSet(a) <=> x \in ToSet(b) \cup ToSet(c)
  <2>1. \A x : x \in ToSet(a) <=> \E i \in 1..Len(a) : a[i] = x
    <3>1. a \in Seq(P)
      BY <1>1
    <3> HIDE DEF a
    <3> QED BY <3>1, Elements
  <2>2. \A x : x \in ToSet(b) <=> \E i \in 1..m : b[i] = x
    BY Elements
  <2>3. \A x : x \in ToSet(c) <=> \E i \in 1..Len(c) : c[i] = x
    BY Elements
  <2> HIDE DEF a, m
  <2> TAKE x
  <2>4. ASSUME x \in ToSet(a)
        PROVE  x \in ToSet(b) \cup ToSet(c)
    <3>1. PICK i \in 1..Len(a) : a[i] = x
      BY <2>1, <2>4
    <3>2. CASE i \in 1..m /\ a[i] = b[i]
      BY <2>2, <3>1, <3>2
    <3>3. CASE i - m \in 1..Len(c) /\ a[i] = c[i - m]
      BY <2>3, <3>1, <3>3
    <3> QED
      BY <1>2, <3>2, <3>3
  <2>5. ASSUME x \in ToSet(b) \cup ToSet(c)
        PROVE  x \in ToSet(a)
    BY <1>3, <1>4, <2>1, <2>2, <2>3, <2>5
  <2> QED
    BY <2>4, <2>5
<1>8. ToSet(a) = ToSet(b) \cup ToSet(c)
  BY <1>7
<1> QED
  BY <1>1, <1>6, <1>8

\* The first k elements, and the rest.
LEMMA SplitKeeps ==
    ASSUME NEW P, NEW b \in Seq(P), NEW k \in Nat, k <= Len(b), Distinct(b)
    PROVE  LET front == ToSet(SubSeq(b, 1, k))
               rest == SubSeq(b, k + 1, Len(b))
           IN  /\ rest \in Seq(P) /\ Distinct(rest) /\ Len(rest) = Len(b) - k
               /\ front \subseteq P /\ ToSet(rest) = ToSet(b) \ front
               /\ k < Len(b) => b[Len(b)] \in ToSet(rest)
<1> DEFINE f == SubSeq(b, 1, k)
           c == SubSeq(b, k + 1, Len(b))
           n == Len(b)
<1>1. n \in Nat /\ \A i \in 1..n : b[i] \in P
  OBVIOUS
<1>2. f \in Seq(P) /\ Len(f) = k /\ \A i \in 1..k : f[i] = b[i]
  <2>1. \A i \in 1..k : i \in 1..n
    BY <1>1
  <2> QED
    BY <1>1, <2>1
<1>3. c \in Seq(P) /\ Len(c) = n - k /\ \A i \in 1..(n - k) : c[i] = b[k + i]
  BY <1>1
<1>4. \A i \in 1..Len(c) : k + i \in 1..n /\ ~(k + i <= k)
  BY <1>1, <1>3
<1>5. \A i \in 1..n : i \in 1..k \/ (i - k \in 1..Len(c) /\ k + (i - k) = i)
  BY <1>1, <1>3
<1>6. \A i \in 1..k : i \in 1..n /\ i <= k
  BY <1>1
<1> HIDE DEF f, c
<1>7. Distinct(c)
  <2> SUFFICES ASSUME NEW i \in 1..Len(c), NEW j \in 1..Len(c), c[i] = c[j]
               PROVE  i = j
    BY DEF Distinct
  <2>1. k + i = k + j
    BY <1>3, <1>4 DEF Distinct
  <2> QED
    BY <2>1
<1>8. \A x : x \in ToSet(c) <=> x \in ToSet(b) \ ToSet(f)
  <2> TAKE x
  <2>1. ASSUME x \in ToSet(c)
        PROVE  x \in ToSet(b) \ ToSet(f)
    <3>1. PICK i \in 1..Len(c) : c[i] = x
      BY <1>3, <2>1, Elements
    <3>2. x = b[k + i] /\ k + i \in 1..n /\ ~(k + i <= k)
      BY <1>3, <1>4, <3>1
    <3>3. \A j \in 1..k : f[j] # x
      BY <1>2, <1>6, <3>2 DEF Distinct
    <3> QED
      BY <1>2, <3>2, <3>3, Elements
  <2>2. ASSUME x \in ToSet(b) \ ToSet(f)
        PROVE  x \in ToSet(c)
    <3>1. PICK i \in 1..n : b[i] = x
      BY <2>2, Elements
    <3>2. i \notin 1..k
      BY <1>2, <2>2, <3>1, Elements
    <3>3. i - k \in 1..Len(c) /\ c[i - k] = x
      BY <1>3, <1>5, <3>1, <3>2
    <3> QED
      BY <1>3, <3>3, Elements
  <2> QED
    BY <2>1, <2>2
<1>9. ASSUME k < n
      PROVE  b[n] \in ToSet(c)
  <2>1. n - k \in 1..Len(c) /\ k + (n - k) = n
    BY <1>1, <1>3, <1>9
  <2>2. c[n - k] = b[n]
    BY <1>3, <2>1
  <2> QED
    BY <1>3, <2>1, <2>2, Elements
<1>10. ToSet(f) \subseteq P
  BY <1>2, Elements
<1> QED
  BY <1>3, <1>7, <1>8, <1>9, <1>10 DEF f, c

-----------------------------------------------------------------------------
(***************************************************************************)
(* Rendering: what the operators that take away make of a record.          *)
(***************************************************************************)

\* The types of a record's fields.
LEMMA FieldTypes ==
    ASSUME NEW r \in Records
    PROVE  /\ r.state \in [Views -> States] /\ r.canvas \in [Views -> BOOLEAN]
           /\ r.prev \in [Views -> BOOLEAN]
           /\ r.task \in [Views -> {"none", "going", "held"}]
           /\ r.capped \in [Pages -> BOOLEAN] /\ r.area \in [Pages -> Spans]
           /\ r.buffer \in Seq(Pages) /\ r.size \in Nat \ {0} /\ r.kicks \in Nat
           /\ r.loads \in [1..(3 * N) -> Nat] /\ \A v \in 1..(3 * N) : r.loads[v] \in Nat
           /\ r.priority \in 0..(2 * N)
BY DEF Records

LEMMA ViewsFinite ==
    ASSUME layout \in Layouts, NEW V \in SUBSET Views
    PROVE  Cardinality(V) \in Nat /\ (V # {} => Cardinality(V) > 0)
<1>1. IsFiniteSet(1..(2 * N))
  BY LayoutType, FS_Interval
<1>2. IsFiniteSet(V)
  BY <1>1, LayoutType, FS_Subset
<1>3. Cardinality(V) \in Nat
  BY <1>2, FS_CardinalityType
<1>4. Cardinality(V) = 0 <=> V = {}
  BY <1>2, FS_EmptySet
<1> QED
  BY <1>3, <1>4

\* The drawings of V are cancelled.
Cancels(r, V, c) ==
    /\ c \in Records
    /\ c.state = r.state /\ c.prev = r.prev
    /\ c.capped = r.capped /\ c.area = r.area /\ c.buffer = r.buffer /\ c.size = r.size
    /\ c.loads = r.loads /\ c.priority = r.priority
    /\ \A v \in Views :
        /\ c.task[v] = IF v \in V THEN "none" ELSE r.task[v]
        /\ c.canvas[v] = IF v \in V /\ r.task[v] # "none" THEN v > N /\ r.prev[v]
                         ELSE r.canvas[v]
    /\ c.kicks >= r.kicks
    /\ (\E v \in V : r.task[v] # "none") => c.kicks > 0

LEMMA CancelCancels ==
    ASSUME layout \in Layouts, NEW r \in Records, NEW V \in SUBSET Views
    PROVE  Cancels(r, V, Cancel(r, V))
<1> DEFINE drawn == {v \in V : r.task[v] # "none"}
           tasks == Put(r.task, V, "none")
           canvases == [v \in Views |-> IF v \in drawn THEN v > N /\ r.prev[v] ELSE r.canvas[v]]
           kicks == r.kicks + Cardinality(drawn)
           c == [r EXCEPT !.task = tasks, !.canvas = canvases, !.kicks = kicks]
<1>1. Cancel(r, V) = c
  BY DEF Cancel, Records
<1>2. tasks \in [Views -> {"none", "going", "held"}]
      /\ \A v \in Views : tasks[v] = IF v \in V THEN "none" ELSE r.task[v]
  <2>1. r.task \in [Views -> {"none", "going", "held"}]
    BY DEF Records
  <2> QED BY <2>1 DEF Put
<1>3. canvases \in [Views -> BOOLEAN]
  <2>1. r.canvas \in [Views -> BOOLEAN] /\ r.prev \in [Views -> BOOLEAN]
    BY DEF Records
  <2>2. \A v \in Views : (v > N /\ r.prev[v]) \in BOOLEAN /\ r.canvas[v] \in BOOLEAN
    BY <2>1
  <2>3. \A v \in Views : (IF v \in drawn THEN v > N /\ r.prev[v] ELSE r.canvas[v]) \in BOOLEAN
    <3> HIDE DEF drawn
    <3> QED BY <2>2, Zenon
  <2> HIDE DEF drawn
  <2> QED BY <2>3, Zenon
<1>4. /\ r.kicks \in Nat /\ Cardinality(drawn) \in Nat
      /\ drawn # {} => Cardinality(drawn) > 0
  <2>1. drawn \in SUBSET Views
    OBVIOUS
  <2> QED BY <2>1, ViewsFinite DEF Records
<1>5. kicks \in Nat /\ kicks >= r.kicks /\ (drawn # {} => kicks > 0)
  BY <1>4
<1>6. \A v \in Views : canvases[v] = IF v \in V /\ r.task[v] # "none" THEN v > N /\ r.prev[v]
                                     ELSE r.canvas[v]
  OBVIOUS
<1>7. (\E v \in V : r.task[v] # "none") => drawn # {}
  OBVIOUS
<1> HIDE DEF drawn, tasks, canvases, kicks
<1>8. c \in Records
  BY <1>2, <1>3, <1>5 DEF Records
<1>9. /\ c.state = r.state /\ c.prev = r.prev
      /\ c.capped = r.capped /\ c.area = r.area /\ c.buffer = r.buffer /\ c.size = r.size
      /\ c.loads = r.loads /\ c.priority = r.priority
      /\ c.task = tasks /\ c.canvas = canvases /\ c.kicks = kicks
  BY DEF Records
<1> HIDE DEF c
<1> QED
  BY <1>1, <1>2, <1>5, <1>6, <1>7, <1>8, <1>9 DEF Cancels

\* The detail views D begin anew.
Resets(r, D, c) ==
    /\ c \in Records
    /\ c.prev = r.prev /\ c.capped = r.capped /\ c.area = r.area /\ c.buffer = r.buffer
    /\ c.size = r.size /\ c.loads = r.loads /\ c.priority = r.priority
    /\ \A v \in Views :
        /\ v \in D => /\ c.state[v] = "initial" /\ c.task[v] = "none"
                      /\ c.canvas[v] => r.canvas[v] \/ (v > N /\ r.prev[v])
        /\ v \notin D => Same(r, c, v)
    /\ c.kicks >= r.kicks
    /\ (\E v \in D : r.task[v] # "none") => c.kicks > 0

LEMMA RestartResets ==
    ASSUME layout \in Layouts, NEW r \in Records, NEW D \in SUBSET Views, NEW x, Cancels(r, D, x)
    PROVE  Resets(r, D, [x EXCEPT !.state = Put(x.state, D, "initial")])
<1> DEFINE states == Put(x.state, D, "initial")
           c == [x EXCEPT !.state = states]
<1>1. x \in Records
  BY DEF Cancels
<1>2. /\ states \in [Views -> States]
      /\ \A v \in Views : states[v] = IF v \in D THEN "initial" ELSE r.state[v]
  BY <1>1 DEF Put, Records, States, Cancels
<1> HIDE DEF states
<1>3. c \in Records
  BY <1>1, <1>2 DEF Records
<1>4. /\ c.prev = x.prev /\ c.capped = x.capped /\ c.area = x.area /\ c.buffer = x.buffer
      /\ c.size = x.size /\ c.loads = x.loads /\ c.priority = x.priority
      /\ c.state = states /\ c.task = x.task /\ c.canvas = x.canvas /\ c.kicks = x.kicks
  BY <1>1 DEF Records
<1> HIDE DEF c
<1>5. ASSUME NEW v \in Views
      PROVE  /\ v \in D => /\ c.state[v] = "initial" /\ c.task[v] = "none"
                           /\ c.canvas[v] => r.canvas[v] \/ (v > N /\ r.prev[v])
             /\ v \notin D => Same(r, c, v)
  BY <1>2, <1>4 DEF Cancels, Same
<1>6. Resets(r, D, c)
  BY <1>3, <1>4, <1>5 DEF Cancels, Resets
<1> QED
  BY <1>6 DEF c, states

LEMMA ResetDetailsResets ==
    ASSUME layout \in Layouts, NEW r \in Records, NEW D \in SUBSET Views
    PROVE  Resets(r, D, ResetDetails(r, D))
<1> DEFINE x == Cancel(r, D)
<1>1. Cancels(r, D, x)
  BY CancelCancels
<1>2. ResetDetails(r, D) = [x EXCEPT !.state = Put(x.state, D, "initial")]
  BY DEF ResetDetails
<1> HIDE DEF x
<1>3. Resets(r, D, [x EXCEPT !.state = Put(x.state, D, "initial")])
  BY <1>1, RestartResets
<1> QED
  BY <1>2, <1>3

\* The detail views D go, what asks for them with them.
DropsViews(r, D, c) ==
    /\ c \in Records
    /\ c.capped = r.capped /\ c.buffer = r.buffer /\ c.size = r.size /\ c.priority = r.priority
    /\ \A v \in Views :
        /\ v \in D => /\ c.state[v] = "absent" /\ c.task[v] = "none" /\ c.loads[v] = 0
                      /\ ~c.canvas[v] /\ ~c.prev[v]
        /\ v \notin D => Same(r, c, v)
    /\ \A p \in Pages :
        /\ c.loads[2 * N + p] >= r.loads[2 * N + p]
        /\ Detail(p) \in D => c.loads[2 * N + p] >= r.loads[Detail(p)]
        /\ Detail(p) \notin D => c.area[p] = r.area[p]
    /\ c.kicks >= r.kicks
    /\ (\E v \in D : r.task[v] # "none") => c.kicks > 0

LEMMA DetailsOfPages ==
    ASSUME layout \in Layouts, NEW r, NEW P
    PROVE  /\ Details(r, P) \in SUBSET Views
           /\ \A v \in Details(r, P) : v > N /\ r.state[v] # "absent"
           /\ \A p \in Pages : Detail(p) \in Details(r, P)
                                    <=> p \in P /\ r.state[Detail(p)] # "absent"
           /\ \A p \in Pages : p \notin Details(r, P)
BY ViewOfPage DEF Details

LEMMA DropDetailsDrops ==
    ASSUME layout \in Layouts, NEW r \in Records, NEW P
    PROVE  DropsViews(r, Details(r, P), DropDetails(r, P))
<1> DEFINE D == Details(r, P)
           gone == {PageOf(d) : d \in D}
           waited(v) == IF v > 2 * N /\ PageOf(v) \in gone
                        THEN r.loads[v] + r.loads[Detail(PageOf(v))]
                        ELSE IF v \in D THEN 0 ELSE r.loads[v]
           x == Cancel(r, D)
           states == Put(x.state, D, "absent")
           canvases == Put(x.canvas, D, FALSE)
           prevs == Put(x.prev, D, FALSE)
           areas == Put(x.area, gone, <<>>)
           asks == [v \in DOMAIN x.loads |-> waited(v)]
           c == [x EXCEPT !.state = states, !.canvas = canvases, !.prev = prevs,
                          !.area = areas, !.loads = asks]
<1>1. Cancels(r, D, x)
  BY CancelCancels, DetailsOfPages
<1>2. DropDetails(r, P) = c
  BY DEF DropDetails
<1>3. D \in SUBSET Views /\ \A v \in D : v > N
  BY DetailsOfPages
<1>4. \A p \in Pages : p \in gone <=> Detail(p) \in D
  BY <1>3, ViewOfPage
<1> HIDE DEF x, D
<1>5. x \in Records
  BY <1>1 DEF Cancels
<1>6. /\ states \in [Views -> States]
      /\ \A v \in Views : states[v] = IF v \in D THEN "absent" ELSE r.state[v]
  BY <1>1, <1>5 DEF Put, Records, States, Cancels
<1>7. /\ canvases \in [Views -> BOOLEAN]
      /\ \A v \in Views : canvases[v] = IF v \in D THEN FALSE ELSE r.canvas[v]
  <2>1. x.canvas \in [Views -> BOOLEAN] /\ \A v \in Views : v \notin D => x.canvas[v] = r.canvas[v]
    BY <1>1, <1>5 DEF Records, Cancels
  <2> QED BY <2>1 DEF Put
<1>8. /\ prevs \in [Views -> BOOLEAN]
      /\ \A v \in Views : prevs[v] = IF v \in D THEN FALSE ELSE r.prev[v]
  <2>1. x.prev \in [Views -> BOOLEAN] /\ x.prev = r.prev
    BY <1>1, <1>5 DEF Records, Cancels
  <2> QED BY <2>1 DEF Put
<1>9. /\ areas \in [Pages -> Spans]
       /\ \A p \in Pages : Detail(p) \notin D => areas[p] = r.area[p]
  <2>1. x.area \in [Pages -> Spans] /\ x.area = r.area /\ <<>> \in Spans
    BY <1>1, <1>5 DEF Records, Cancels, Spans
  <2> HIDE DEF gone
  <2> QED BY <1>4, <2>1 DEF Put
<1>10. /\ asks \in [1..(3 * N) -> Nat]
       /\ \A v \in Views : asks[v] = IF v \in D THEN 0 ELSE r.loads[v]
       /\ \A p \in Pages : /\ asks[2 * N + p] >= r.loads[2 * N + p]
                           /\ Detail(p) \in D => asks[2 * N + p] >= r.loads[Detail(p)]
  <2>1. r.loads \in [1..(3 * N) -> Nat] /\ DOMAIN x.loads = 1..(3 * N)
    BY <1>1, <1>5 DEF Records, Cancels
  <2>2. \A v \in 1..(3 * N) : Detail(PageOf(v)) \in 1..(3 * N)
    BY ViewOfPage
  <2>3. \A v \in 1..(3 * N) : r.loads[v] \in Nat /\ r.loads[Detail(PageOf(v))] \in Nat
    BY <2>1, <2>2
  <2> HIDE DEF gone
  <2>4. \A v \in 1..(3 * N) : waited(v) \in Nat
    BY <2>3
  <2>5. \A v \in Views : asks[v] = waited(v) /\ ~(v > 2 * N)
    BY <2>1, ViewOfPage
  <2>6. ASSUME NEW p \in Pages
        PROVE  /\ asks[2 * N + p] >= r.loads[2 * N + p]
               /\ Detail(p) \in D => asks[2 * N + p] >= r.loads[Detail(p)]
    <3>1. /\ 2 * N + p \in 1..(3 * N) /\ 2 * N + p > 2 * N /\ PageOf(2 * N + p) = p
          /\ 2 * N + p \notin D
      BY <1>3, ViewOfPage
    <3>2. asks[2 * N + p] = IF p \in gone THEN r.loads[2 * N + p] + r.loads[Detail(p)]
                             ELSE r.loads[2 * N + p]
      BY <2>1, <3>1
    <3>3. r.loads[2 * N + p] \in Nat /\ r.loads[Detail(p)] \in Nat
      BY <2>3, <3>1
    <3> HIDE DEF asks
    <3> QED BY <1>4, <3>2, <3>3
  <2> QED BY <2>1, <2>4, <2>5, <2>6
<1> HIDE DEF states, canvases, prevs, areas, asks, gone
<1>11. c \in Records
  BY <1>5, <1>6, <1>7, <1>8, <1>9, <1>10 DEF Records
<1>12. /\ c.capped = x.capped /\ c.buffer = x.buffer /\ c.size = x.size
       /\ c.priority = x.priority /\ c.state = states /\ c.task = x.task /\ c.canvas = canvases
       /\ c.prev = prevs /\ c.area = areas /\ c.loads = asks /\ c.kicks = x.kicks
  BY <1>5 DEF Records
<1> HIDE DEF c
<1>13. ASSUME NEW v \in Views
       PROVE  /\ v \in D => /\ c.state[v] = "absent" /\ c.task[v] = "none" /\ c.loads[v] = 0
                            /\ ~c.canvas[v] /\ ~c.prev[v]
              /\ v \notin D => Same(r, c, v)
  BY <1>1, <1>6, <1>7, <1>8, <1>10, <1>12 DEF Cancels, Same
<1> QED
  BY <1>1, <1>2, <1>9, <1>10, <1>11, <1>12, <1>13 DEF Cancels, DropsViews, D

\* The pages P are blank, and have no detail view.
Blanks(r, P, c) ==
    /\ c \in Records
    /\ c.capped = r.capped /\ c.buffer = r.buffer /\ c.size = r.size /\ c.priority = r.priority
    /\ \A p \in Pages :
        /\ p \in P => /\ c.state[p] = "initial" /\ c.task[p] = "none" /\ ~c.canvas[p]
                      /\ c.loads[p] = r.loads[p]
        /\ p \notin P => Same(r, c, p)
        /\ IF p \in P /\ r.state[Detail(p)] # "absent"
           THEN /\ c.state[Detail(p)] = "absent" /\ c.task[Detail(p)] = "none"
                /\ c.loads[Detail(p)] = 0 /\ ~c.canvas[Detail(p)] /\ ~c.prev[Detail(p)]
                /\ c.loads[2 * N + p] >= r.loads[Detail(p)]
           ELSE Same(r, c, Detail(p)) /\ c.area[p] = r.area[p]
        /\ c.loads[2 * N + p] >= r.loads[2 * N + p]
        /\ p \in P /\ r.task[p] # "none" => c.kicks > 0
        /\ p \in P /\ r.state[Detail(p)] # "absent" /\ r.task[Detail(p)] # "none" => c.kicks > 0
    /\ c.kicks >= r.kicks

LEMMA ResetBlanks ==
    ASSUME layout \in Layouts, NEW r \in Records, NEW P \in SUBSET Pages
    PROVE  Blanks(r, P, Reset(r, P))
<1> DEFINE x == Cancel(r, P)
           states == Put(x.state, P, "initial")
           canvases == Put(x.canvas, P, FALSE)
           w == [x EXCEPT !.state = states, !.canvas = canvases]
           c == DropDetails(w, P)
           D == Details(w, P)
<1>1. Cancels(r, P, x)
  <2>1. P \in SUBSET Views
    BY ViewOfPage
  <2> QED BY <2>1, CancelCancels
<1>2. Reset(r, P) = c
  BY DEF Reset
<1> HIDE DEF x
<1>3. x \in Records
  BY <1>1 DEF Cancels
<1>4. /\ states \in [Views -> States]
      /\ \A v \in Views : states[v] = IF v \in P THEN "initial" ELSE r.state[v]
  BY <1>1, <1>3 DEF Put, Records, States, Cancels
<1>5. /\ canvases \in [Views -> BOOLEAN]
      /\ \A v \in P : v \in Views => ~canvases[v]
      /\ \A v \in Views : v \notin P => canvases[v] = r.canvas[v]
  <2>1. x.canvas \in [Views -> BOOLEAN] /\ \A v \in Views : v \notin P => x.canvas[v] = r.canvas[v]
    BY <1>1, <1>3 DEF Records, Cancels
  <2> QED BY <2>1 DEF Put
<1> HIDE DEF states, canvases
<1>6. w \in Records
  BY <1>3, <1>4, <1>5 DEF Records
<1>7. /\ w.capped = x.capped /\ w.buffer = x.buffer /\ w.size = x.size
      /\ w.priority = x.priority /\ w.state = states /\ w.task = x.task /\ w.canvas = canvases
      /\ w.prev = x.prev /\ w.area = x.area /\ w.loads = x.loads /\ w.kicks = x.kicks
  BY <1>3 DEF Records
<1> HIDE DEF w
<1>8. DropsViews(w, D, c)
  BY <1>6, DropDetailsDrops
<1>9. /\ \A p \in Pages : Detail(p) \in D <=> p \in P /\ w.state[Detail(p)] # "absent"
      /\ \A p \in Pages : p \notin D
  BY DetailsOfPages
<1> HIDE DEF c, D
<1>10. \A p \in Pages : p \in Views /\ Detail(p) \in Views /\ Detail(p) \notin P
  BY ViewOfPage
<1>11. \A v \in Views : v \notin P => Same(r, w, v)
  BY <1>1, <1>4, <1>5, <1>7 DEF Cancels, Same
<1>12. ASSUME NEW p \in Pages
       PROVE  /\ p \in P => /\ c.state[p] = "initial" /\ c.task[p] = "none" /\ ~c.canvas[p]
                            /\ c.loads[p] = r.loads[p]
              /\ p \notin P => Same(r, c, p)
  <2>1. Same(w, c, p)
    BY <1>8, <1>9, <1>10 DEF DropsViews
  <2>2. ASSUME p \in P
        PROVE  w.state[p] = "initial" /\ w.task[p] = "none" /\ ~w.canvas[p] /\ w.loads[p] = r.loads[p]
    BY <1>1, <1>4, <1>5, <1>7, <1>10, <2>2 DEF Cancels
  <2> QED
    BY <1>10, <1>11, <2>1, <2>2 DEF Same
<1>13. ASSUME NEW p \in Pages
       PROVE  IF p \in P /\ r.state[Detail(p)] # "absent"
              THEN /\ c.state[Detail(p)] = "absent" /\ c.task[Detail(p)] = "none"
                   /\ c.loads[Detail(p)] = 0 /\ ~c.canvas[Detail(p)] /\ ~c.prev[Detail(p)]
                   /\ c.loads[2 * N + p] >= r.loads[Detail(p)]
              ELSE Same(r, c, Detail(p)) /\ c.area[p] = r.area[p]
  <2>1. Same(r, w, Detail(p)) /\ w.area[p] = r.area[p]
    BY <1>1, <1>7, <1>10, <1>11 DEF Cancels
  <2>2. Detail(p) \in D <=> p \in P /\ r.state[Detail(p)] # "absent"
    BY <1>9, <2>1 DEF Same
  <2>3. CASE Detail(p) \in D
    BY <1>8, <1>10, <2>1, <2>2, <2>3 DEF DropsViews, Same
  <2>4. CASE Detail(p) \notin D
    BY <1>8, <1>10, <2>1, <2>2, <2>4 DEF DropsViews, Same
  <2> QED
    BY <2>3, <2>4
<1>14. ASSUME NEW p \in Pages
       PROVE  c.loads[2 * N + p] >= r.loads[2 * N + p]
  BY <1>1, <1>7, <1>8 DEF Cancels, DropsViews
<1>15. r.kicks \in Nat /\ w.kicks \in Nat /\ c.kicks \in Nat /\ w.kicks >= r.kicks /\ c.kicks >= w.kicks
  BY <1>1, <1>6, <1>7, <1>8 DEF Cancels, DropsViews, Records
<1>16. ASSUME NEW p \in P, r.task[p] # "none"
       PROVE  c.kicks > 0
  <2>1. w.kicks > 0
    BY <1>1, <1>7, <1>16 DEF Cancels
  <2> QED BY <1>15, <2>1
<1>17. ASSUME NEW p \in P, r.state[Detail(p)] # "absent", r.task[Detail(p)] # "none"
       PROVE  c.kicks > 0
  <2>1. p \in Pages /\ Same(r, w, Detail(p))
    BY <1>10, <1>11
  <2>2. Detail(p) \in D /\ w.task[Detail(p)] # "none"
    BY <1>9, <1>17, <2>1 DEF Same
  <2> QED
    BY <1>8, <2>2 DEF DropsViews
<1>18. c.kicks >= r.kicks
  BY <1>15
<1>19. /\ c \in Records /\ c.capped = r.capped /\ c.buffer = r.buffer /\ c.size = r.size
       /\ c.priority = r.priority
  BY <1>1, <1>7, <1>8 DEF Cancels, DropsViews
<1> QED
  BY <1>2, <1>12, <1>13, <1>14, <1>16, <1>17, <1>18, <1>19 DEF Blanks

\* What is sound of a view depends on that view.
LEMMA SameSound ==
    ASSUME NEW r, NEW c, NEW L, NEW v, Same(r, c, v), ViewSound(r, L, v)
    PROVE  ViewSound(c, L, v)
BY DEF Same, ViewSound

\* Each view is a page's or its detail view's.
LEMMA ByPages ==
    ASSUME layout \in Layouts, NEW r, NEW L,
           \A p \in Pages : ViewSound(r, L, p) /\ ViewSound(r, L, Detail(p))
    PROVE  ViewsSound(r, L)
BY ViewOfPage DEF ViewsSound

LEMMA BlankSound ==
    ASSUME layout \in Layouts, NEW r \in Records, NEW P \in SUBSET Pages, NEW c, Blanks(r, P, c),
           NEW L, ViewsSound(r, L)
    PROVE  /\ ViewsSound(c, L) /\ Fewer(r, c)
           /\ \A p \in P : ~c.canvas[p] /\ ~Asked(c, p)
           /\ \A p \in Pages \ P : Same(r, c, p) /\ Same(r, c, Detail(p)) /\ c.area[p] = r.area[p]
           /\ \A p \in Pages : c.loads[p] = r.loads[p]
<1>1. \A p \in Pages : /\ p \in Views /\ Detail(p) \in Views /\ Detail(p) > N /\ ~(p > N)
                       /\ PageOf(p) = p /\ PageOf(Detail(p)) = p
                       /\ ViewSound(r, L, p) /\ ViewSound(r, L, Detail(p))
  BY ViewOfPage DEF ViewsSound
<1>2. ASSUME NEW p \in Pages
      PROVE  ViewSound(c, L, p)
  <2>1. CASE p \in P
    BY <2>1 DEF Blanks, ViewSound
  <2>2. CASE p \notin P
    BY <1>1, <2>2, SameSound DEF Blanks
  <2> QED BY <2>1, <2>2
<1>3. ASSUME NEW p \in Pages
      PROVE  ViewSound(c, L, Detail(p))
  <2>1. CASE p \in P /\ r.state[Detail(p)] # "absent"
    BY <1>1, <2>1 DEF Blanks, ViewSound
  <2>2. CASE ~(p \in P /\ r.state[Detail(p)] # "absent")
    BY <1>1, <2>2, SameSound DEF Blanks
  <2> QED BY <2>1, <2>2
<1>4. ViewsSound(c, L)
  BY <1>2, <1>3, ByPages
<1>5. ASSUME NEW p \in P
      PROVE  ~c.canvas[p] /\ ~Asked(c, p)
  <2>1. ~c.canvas[p]
    BY DEF Blanks
  <2>2. c.state[Detail(p)] = "absent"
    <3>1. CASE r.state[Detail(p)] # "absent"
      BY <3>1 DEF Blanks
    <3>2. CASE r.state[Detail(p)] = "absent"
      BY <3>2 DEF Blanks, Same
    <3> QED BY <3>1, <3>2
  <2>3. ~c.canvas[Detail(p)] /\ ~c.prev[Detail(p)] /\ c.loads[Detail(p)] = 0
    BY <1>3, <2>2 DEF ViewSound
  <2> QED BY <2>1, <2>3 DEF Asked
<1>6. \A p \in Pages \ P : Same(r, c, p) /\ Same(r, c, Detail(p)) /\ c.area[p] = r.area[p]
  BY DEF Blanks
<1>7. \A p \in Pages : c.loads[p] = r.loads[p]
  BY DEF Blanks, Same
<1>8. ASSUME NEW p \in Pages
      PROVE  /\ Asked(c, p) => Asked(r, p)
             /\ c.state[Detail(p)] # "absent" => r.state[Detail(p)] # "absent" /\ c.area[p] = r.area[p]
             /\ c.canvas[p] => r.canvas[p]
  <2>1. CASE p \in P
    <3>1. c.state[Detail(p)] = "absent"
      <4>1. CASE r.state[Detail(p)] # "absent"
        BY <2>1, <4>1 DEF Blanks
      <4>2. CASE r.state[Detail(p)] = "absent"
        BY <2>1, <4>2 DEF Blanks, Same
      <4> QED BY <4>1, <4>2
    <3> QED BY <1>5, <2>1, <3>1
  <2>2. CASE p \notin P
    BY <1>6, <2>2 DEF Same, Asked
  <2> QED BY <2>1, <2>2
<1>9. ASSUME Awaited(r)
      PROVE  Awaited(c)
  <2>1. c.kicks \in Nat /\ r.kicks \in Nat /\ c.kicks >= r.kicks
    BY DEF Blanks, Records
  <2>2. CASE r.kicks > 0
    BY <2>1, <2>2 DEF Awaited
  <2>3. ASSUME NEW v \in Views, r.task[v] = "going", r.priority = v
        PROVE  Awaited(c)
    <3>1. PageOf(v) \in Pages /\ (v = PageOf(v) \/ v = Detail(PageOf(v)))
      BY ViewOfPage
    <3>2. c.priority = v
      BY <2>3 DEF Blanks
    <3>3. c.kicks > 0 \/ c.task[v] = "going"
      <4>1. r.state[v] # "absent"
        BY <2>3 DEF ViewsSound, ViewSound
      <4>2. CASE v = PageOf(v)
        BY <2>3, <3>1, <4>2 DEF Blanks, Same
      <4>3. CASE v = Detail(PageOf(v))
        BY <2>3, <3>1, <4>1, <4>3 DEF Blanks, Same
      <4> QED BY <3>1, <4>2, <4>3
    <3> QED BY <3>2, <3>3 DEF Awaited
  <2>4. ASSUME NEW v \in 1..(3 * N), r.loads[v] > 0, v > 2 * N \/ r.state[v] # "finished"
        PROVE  Awaited(c)
    <3>0. \A u \in 1..(3 * N) : r.loads[u] \in Nat /\ c.loads[u] \in Nat
      <4>1. c \in Records
        BY DEF Blanks
      <4> QED BY <4>1, FieldTypes
    <3>1. PICK p \in Pages : v = p \/ v = Detail(p) \/ v = 2 * N + p
      BY ViewOfPage
    <3>2. p \in 1..(3 * N) /\ Detail(p) \in 1..(3 * N) /\ 2 * N + p \in 1..(3 * N)
          /\ 2 * N + p > 2 * N /\ ~(p > 2 * N) /\ ~(Detail(p) > 2 * N)
      BY ViewOfPage
    <3>3. CASE v = 2 * N + p
      <4>1. c.loads[2 * N + p] > 0
        BY <2>4, <3>0, <3>2, <3>3 DEF Blanks
      <4> QED BY <3>2, <4>1 DEF Awaited
    <3>4. CASE v = p
      <4>1. c.loads[p] > 0 /\ c.state[p] # "finished"
        BY <1>7, <2>4, <3>2, <3>4 DEF Blanks, Same
      <4> QED BY <3>2, <4>1 DEF Awaited
    <3>5. CASE v = Detail(p) /\ p \in P /\ r.state[Detail(p)] # "absent"
      <4>1. c.loads[2 * N + p] > 0
        BY <2>4, <3>0, <3>2, <3>5 DEF Blanks
      <4> QED BY <3>2, <4>1 DEF Awaited
    <3>6. CASE v = Detail(p) /\ ~(p \in P /\ r.state[Detail(p)] # "absent")
      <4>1. c.loads[Detail(p)] > 0 /\ c.state[Detail(p)] # "finished"
        BY <2>4, <3>2, <3>6 DEF Blanks, Same
      <4> QED BY <3>2, <4>1 DEF Awaited
    <3> QED BY <3>1, <3>3, <3>4, <3>5, <3>6
  <2> QED
    BY <1>9, <2>2, <2>3, <2>4 DEF Awaited
<1>10. Fewer(r, c)
  BY <1>8, <1>9 DEF Fewer, Blanks
<1> QED
  BY <1>4, <1>5, <1>6, <1>7, <1>10

-----------------------------------------------------------------------------
(***************************************************************************)
(* Rendering: the buffer.                                                  *)
(***************************************************************************)

\* c is a sound outcome of taking from r.
Outcome(r, L, c) ==
    c \in Records /\ ViewsSound(c, L) /\ BufferSound(c) /\ Fewer(r, c)

\* Page p and its detail view are in c as in r.
Spares(r, c, p) == Same(r, c, p) /\ Same(r, c, Detail(p)) /\ c.area[p] = r.area[p]

LEMMA ShrinkSound ==
    ASSUME layout \in Layouts, NEW r \in Records, NEW L, ViewsSound(r, L),
           Distinct(r.buffer), Held(r)
    PROVE  /\ Outcome(r, L, Shrink(r))
           /\ Len(r.buffer) > 0 => Spares(r, Shrink(r), r.buffer[Len(r.buffer)])
<1> DEFINE b == r.buffer
           over == Max({0, Len(b) - r.size})
           front == ToSet(SubSeq(b, 1, over))
           x == Reset(r, front)
           rest == SubSeq(x.buffer, over + 1, Len(x.buffer))
           c == [x EXCEPT !.buffer = rest]
<1>1. Shrink(r) = c
  BY DEF Shrink
<1>2. b \in Seq(Pages) /\ r.size \in Nat \ {0} /\ Len(b) \in Nat
  BY FieldTypes
<1>3. over \in Nat /\ over <= Len(b) /\ Len(b) - over <= r.size /\ (Len(b) > 0 => over < Len(b))
  <2>1. over = IF 0 >= Len(b) - r.size THEN 0 ELSE Len(b) - r.size
    BY <1>2, MaxPair
  <2> HIDE DEF over, b
  <2> QED BY <1>2, <2>1
<1> DEFINE t == SubSeq(b, over + 1, Len(b))
<1>4. /\ t \in Seq(Pages) /\ Distinct(t) /\ Len(t) = Len(b) - over
      /\ front \subseteq Pages /\ ToSet(t) = ToSet(b) \ front
      /\ over < Len(b) => b[Len(b)] \in ToSet(t)
  <2> HIDE DEF over, b
  <2>1. Distinct(b)
    BY DEF b
  <2> QED BY <1>2, <1>3, <2>1, SplitKeeps
<1> HIDE DEF over, front
<1>5. Blanks(r, front, x)
  BY <1>4, ResetBlanks
<1>6. /\ ViewsSound(x, L) /\ Fewer(r, x)
      /\ \A p \in front : ~x.canvas[p] /\ ~Asked(x, p)
      /\ \A p \in Pages \ front : Spares(r, x, p)
  <2>1. front \in SUBSET Pages
    BY <1>4
  <2> HIDE DEF x
  <2>2. /\ ViewsSound(x, L) /\ Fewer(r, x)
        /\ \A p \in front : ~x.canvas[p] /\ ~Asked(x, p)
        /\ \A p \in Pages \ front : Same(r, x, p) /\ Same(r, x, Detail(p)) /\ x.area[p] = r.area[p]
    BY <1>5, <2>1, BlankSound
  <2> QED BY <2>2 DEF Spares
<1>7. x \in Records /\ x.buffer = b /\ rest = t
  BY <1>5 DEF Blanks
<1> HIDE DEF x, rest
<1>8. c \in Records
  BY <1>4, <1>7 DEF Records
<1>9. /\ c.state = x.state /\ c.task = x.task /\ c.canvas = x.canvas /\ c.prev = x.prev
      /\ c.area = x.area /\ c.loads = x.loads /\ c.kicks = x.kicks /\ c.size = x.size
      /\ c.priority = x.priority /\ c.buffer = t
  BY <1>7 DEF Records
<1> HIDE DEF c, t
<1>10. ViewsSound(c, L)
  BY <1>6, <1>9 DEF ViewsSound, ViewSound
<1>11. Fewer(r, c)
  BY <1>6, <1>9 DEF Fewer, Asked, Awaited
<1>12. Held(c)
  <2> SUFFICES ASSUME NEW p \in Pages, c.canvas[p] \/ Asked(c, p)
               PROVE  p \in ToSet(t)
    BY <1>9 DEF Held
  <2>1. x.canvas[p] \/ Asked(x, p)
    BY <1>9 DEF Asked
  <2>2. p \notin front
    BY <1>6, <2>1
  <2>3. r.canvas[p] \/ Asked(r, p)
    BY <1>6, <2>1 DEF Fewer
  <2> QED
    BY <1>4, <2>2, <2>3 DEF Held
<1>13. BufferSound(c)
  BY <1>2, <1>3, <1>4, <1>5, <1>9, <1>12 DEF BufferSound, Blanks
<1>14. ASSUME Len(b) > 0
       PROVE  Spares(r, c, b[Len(b)])
  <2>1. b[Len(b)] \in Pages \ front
    BY <1>2, <1>3, <1>4, <1>14, Elements
  <2>2. Spares(r, x, b[Len(b)])
    BY <1>6, <2>1
  <2> QED
    BY <1>9, <2>2 DEF Spares, Same
<1> QED
  BY <1>1, <1>8, <1>10, <1>11, <1>13, <1>14 DEF Outcome

\* A page that is pushed stays, whatever goes for it.
LEMMA PushSound ==
    ASSUME layout \in Layouts, NEW r \in Records, NEW L, ViewsSound(r, L),
           Distinct(r.buffer), NEW p \in Pages,
           \A o \in Pages \ {p} : r.canvas[o] \/ Asked(r, o) => o \in ToSet(r.buffer)
    PROVE  Outcome(r, L, Push(r, p)) /\ Spares(r, Push(r, p), p)
<1> DEFINE w == Without(r.buffer, {p})
           a == Append(w, p)
           x == [r EXCEPT !.buffer = a]
<1>1. r.buffer \in Seq(Pages)
  BY FieldTypes
<1>2. w \in Seq(Pages) /\ Distinct(w) /\ ToSet(w) = ToSet(r.buffer) \ {p}
  BY <1>1, WithoutKeeps
<1>3. /\ a \in Seq(Pages) /\ Distinct(a) /\ ToSet(a) = ToSet(w) \cup {p}
      /\ Len(a) \in Nat \ {0} /\ a[Len(a)] = p
  <2> HIDE DEF w
  <2>1. p \notin ToSet(w)
    BY <1>2
  <2> QED BY <1>2, <2>1, AppendKeeps
<1>4. Push(r, p) = Shrink(x)
  BY DEF Push
<1> HIDE DEF a, w
<1>5. x \in Records
  BY <1>3 DEF Records
<1>6. /\ x.state = r.state /\ x.task = r.task /\ x.canvas = r.canvas /\ x.prev = r.prev
      /\ x.area = r.area /\ x.loads = r.loads /\ x.kicks = r.kicks /\ x.size = r.size
      /\ x.priority = r.priority /\ x.buffer = a
  BY DEF Records
<1> HIDE DEF x
<1>7. ViewsSound(x, L)
  BY <1>6 DEF ViewsSound, ViewSound
<1>8. Held(x)
  BY <1>2, <1>3, <1>6 DEF Held, Asked
<1>9. /\ Outcome(x, L, Shrink(x))
      /\ Len(x.buffer) > 0 => Spares(x, Shrink(x), x.buffer[Len(x.buffer)])
  BY <1>3, <1>5, <1>6, <1>7, <1>8, ShrinkSound
<1>10. Len(x.buffer) > 0 /\ x.buffer[Len(x.buffer)] = p
  BY <1>3, <1>6
<1> DEFINE c == Shrink(x)
<1> HIDE DEF c
<1>11. Fewer(x, c) => Fewer(r, c)
  BY <1>6 DEF Fewer, Asked, Awaited
<1>12. Spares(x, c, p) => Spares(r, c, p)
  BY <1>6 DEF Spares, Same
<1> QED
  BY <1>4, <1>9, <1>10, <1>11, <1>12 DEF c, Outcome

LEMMA ResizeSound ==
    ASSUME layout \in Layouts, NEW r \in Records, NEW L, ViewsSound(r, L),
           BufferSound(r), NEW S \in SUBSET Pages
    PROVE  LET c == Resize(r, S)
           IN  c \in Records /\ ViewsSound(c, L) /\ BufferSound(c)
<1> DEFINE b == r.buffer
           u == Without(b, S)
           v == Without(b, ToSet(b) \ S)
           a == u \o v
           n == Max({DefaultCacheSize, 2 * Cardinality(S) + 1})
           x == [r EXCEPT !.size = n, !.buffer = a]
<1>1. b \in Seq(Pages) /\ Distinct(b)
  BY FieldTypes DEF BufferSound
<1>2. u \in Seq(Pages) /\ Distinct(u) /\ ToSet(u) = ToSet(b) \ S
  <2> HIDE DEF b
  <2> QED BY <1>1, WithoutKeeps
<1>3. v \in Seq(Pages) /\ Distinct(v) /\ ToSet(v) = ToSet(b) \ (ToSet(b) \ S)
  <2> HIDE DEF b
  <2> QED BY <1>1, WithoutKeeps
<1> HIDE DEF u, v
<1>4. a \in Seq(Pages) /\ Distinct(a) /\ ToSet(a) = ToSet(b)
  <2>1. ToSet(u) \cap ToSet(v) = {} /\ ToSet(u) \cup ToSet(v) = ToSet(b)
    BY <1>2, <1>3
  <2>2. a \in Seq(Pages) /\ Distinct(a) /\ ToSet(a) = ToSet(u) \cup ToSet(v)
    BY <1>2, <1>3, <2>1, ConcatKeeps
  <2> QED BY <2>1, <2>2
<1>5. n \in Nat \ {0}
  <2> DEFINE k == Cardinality(S)
  <2>1. S \in SUBSET Views
    BY ViewOfPage
  <2>2. k \in Nat
    BY <2>1, ViewsFinite
  <2>3. DefaultCacheSize \in Nat \ {0}
    BY RenderingAssumption
  <2> HIDE DEF k
  <2>4. Max({DefaultCacheSize, 2 * k + 1})
            = IF DefaultCacheSize >= 2 * k + 1 THEN DefaultCacheSize ELSE 2 * k + 1
    BY <2>2, <2>3, MaxPair
  <2> QED BY <2>2, <2>3, <2>4 DEF k
<1>6. Resize(r, S) = Shrink(x)
  BY DEF Resize, u, v
<1> HIDE DEF a, n
<1>7. x \in Records
  BY <1>4, <1>5 DEF Records
<1>8. /\ x.state = r.state /\ x.task = r.task /\ x.canvas = r.canvas /\ x.prev = r.prev
      /\ x.area = r.area /\ x.loads = r.loads /\ x.buffer = a
  BY DEF Records
<1> HIDE DEF x
<1>9. ViewsSound(x, L)
  BY <1>8 DEF ViewsSound, ViewSound
<1>10. Held(x)
  BY <1>4, <1>8 DEF Held, Asked, BufferSound
<1> QED
  BY <1>4, <1>6, <1>7, <1>8, <1>9, <1>10, ShrinkSound DEF Outcome

-----------------------------------------------------------------------------
(***************************************************************************)
(* Rendering: an update.                                                   *)
(***************************************************************************)
LEMMA ResetsSound ==
    ASSUME layout \in Layouts, NEW r, NEW D, NEW c, Resets(r, D, c), NEW L, ViewsSound(r, L)
    PROVE  /\ ViewsSound(c, L)
           /\ \A p \in Pages : /\ Asked(c, p) => Asked(r, p)
                               /\ c.canvas[p] => r.canvas[p]
<1>1. ASSUME NEW v \in Views
      PROVE  ViewSound(c, L, v)
  <2>1. CASE v \in D
    BY <2>1 DEF Resets, ViewSound
  <2>2. CASE v \notin D
    BY <2>2, SameSound DEF Resets, ViewsSound
  <2> QED BY <2>1, <2>2
<1>2. ASSUME NEW p \in Pages
      PROVE  (Asked(c, p) => Asked(r, p)) /\ (c.canvas[p] => r.canvas[p])
  <2>1. p \in Views /\ ~(p > N) /\ Detail(p) \in Views
    BY ViewOfPage
  <2>2. c.canvas[p] => r.canvas[p]
    BY <2>1 DEF Resets, Same
  <2>3. c.canvas[Detail(p)] => r.canvas[Detail(p)] \/ r.prev[Detail(p)]
    BY <2>1 DEF Resets, Same
  <2>4. c.prev = r.prev /\ c.loads = r.loads
    BY DEF Resets
  <2> QED
    BY <2>2, <2>3, <2>4 DEF Asked
<1> QED
  BY <1>1, <1>2 DEF ViewsSound

LEMMA DropsSound ==
    ASSUME layout \in Layouts, NEW r, NEW P, NEW c, DropsViews(r, Details(r, P), c),
           NEW L, ViewsSound(r, L)
    PROVE  /\ ViewsSound(c, L)
           /\ \A p \in Pages :
                 /\ Asked(c, p) => Asked(r, p)
                 /\ c.canvas[p] = r.canvas[p]
                 /\ p \in P => ~Asked(c, p) /\ c.state[Detail(p)] = "absent"
                 /\ p \notin P => c.area[p] = r.area[p]
<1> DEFINE D == Details(r, P)
<1>1. /\ D \in SUBSET Views
      /\ \A v \in D : v > N /\ r.state[v] # "absent"
      /\ \A p \in Pages : Detail(p) \in D <=> p \in P /\ r.state[Detail(p)] # "absent"
      /\ \A p \in Pages : p \notin D
  BY DetailsOfPages
<1>2. DropsViews(r, D, c)
  OBVIOUS
<1> HIDE DEF D
<1>3. ASSUME NEW v \in Views
      PROVE  ViewSound(c, L, v)
  <2>1. CASE v \in D
    BY <1>1, <1>2, <2>1 DEF DropsViews, ViewSound
  <2>2. CASE v \notin D
    BY <1>2, <2>2, SameSound DEF DropsViews, ViewsSound
  <2> QED BY <2>1, <2>2
<1>4. ASSUME NEW p \in Pages
      PROVE  /\ Asked(c, p) => Asked(r, p)
             /\ c.canvas[p] = r.canvas[p]
             /\ p \in P => ~Asked(c, p) /\ c.state[Detail(p)] = "absent"
             /\ p \notin P => c.area[p] = r.area[p]
  <2>1. p \in Views /\ Detail(p) \in Views /\ p \notin D
    BY <1>1, ViewOfPage
  <2>2. c.canvas[p] = r.canvas[p]
    BY <1>2, <2>1 DEF DropsViews, Same
  <2>3. CASE Detail(p) \in D
    <3>1. ~Asked(c, p) /\ c.state[Detail(p)] = "absent"
      BY <1>2, <2>1, <2>3 DEF DropsViews, Asked
    <3> QED BY <1>1, <2>2, <2>3, <3>1
  <2>4. CASE Detail(p) \notin D
    <3>1. Same(r, c, Detail(p)) /\ c.area[p] = r.area[p]
      BY <1>2, <2>1, <2>4 DEF DropsViews
    <3>2. Asked(c, p) => Asked(r, p)
      BY <3>1 DEF Asked, Same
    <3>3. ASSUME p \in P
          PROVE  ~Asked(c, p) /\ c.state[Detail(p)] = "absent"
      <4>1. c.state[Detail(p)] = "absent"
        BY <1>1, <2>4, <3>1, <3>3 DEF Same
      <4>2. ViewSound(c, L, Detail(p))
        BY <1>3, <2>1
      <4> QED BY <4>1, <4>2 DEF Asked, ViewSound
    <3> QED BY <2>2, <3>1, <3>2, <3>3
  <2> QED BY <2>3, <2>4
<1> QED
  BY <1>3, <1>4 DEF ViewsSound

\* A new zoom.
LEMMA UpdatePagesSound ==
    ASSUME layout \in Layouts, NEW r \in Records, NEW L, ViewsSound(r, L), BufferSound(r), NEW z
    PROVE  LET c == UpdatePages(r, z)
           IN  c \in Records /\ ViewsSound(c, L) /\ BufferSound(c)
<1> DEFINE V == (Pages \ {p \in Pages : r.canvas[p] /\ r.capped[p] /\ Restricted(z)})
                    \cup Details(r, Pages)
           x == Cancel(r, V)
           c == UpdatePages(r, z)
<1>1. V \in SUBSET Views
  BY DetailsOfPages, ViewOfPage
<1>2. c = [x EXCEPT !.state = Put(x.state, V, "initial")]
  BY DEF UpdatePages
<1> HIDE DEF V
<1>3. Cancels(r, V, x)
  BY <1>1, CancelCancels
<1> HIDE DEF x, c
<1>4. Resets(r, V, c)
  BY <1>1, <1>2, <1>3, RestartResets
<1>5. /\ ViewsSound(c, L)
      /\ \A p \in Pages : (Asked(c, p) => Asked(r, p)) /\ (c.canvas[p] => r.canvas[p])
  BY <1>4, ResetsSound
<1>6. c \in Records /\ c.buffer = r.buffer /\ c.size = r.size
  BY <1>4 DEF Resets
<1> QED
  BY <1>5, <1>6 DEF BufferSound, Held, c

\* An area that is drawn anew, or is not, covers what is shown.
LEMMA AroundCovers ==
    ASSUME layout \in Layouts, NEW z \in Nat \ {0}, NEW y \in Nat, NEW p \in Pages
    PROVE  LET a == Area(p, y, z)
               h == Bottom(p, z) - Top(p, z)
               e == [from |-> Max({0, a[1] - Overflow}), to |-> Min({h, a[2] + Overflow}), zoom |-> z]
           IN  e \in Spans /\ Covers(e, p, y, z)
<1> DEFINE a1 == Area(p, y, z)[1]
           a2 == Area(p, y, z)[2]
           h == Bottom(p, z) - Top(p, z)
           f == Max({0, a1 - Overflow})
           t == Min({h, a2 + Overflow})
           e == [from |-> f, to |-> t, zoom |-> z]
<1>1. a1 \in Nat /\ a2 \in Int /\ a2 <= h /\ h \in Int /\ Overflow \in Nat
  <2>1. a1 \in Nat /\ a2 \in Int /\ a2 <= h
    BY AreaOnPage
  <2>2. Bottom(p, z) \in Nat /\ Top(p, z) \in Nat
    BY EdgesType
  <2>3. h \in Int
    BY <2>2
  <2> QED BY <2>1, <2>3, RenderingAssumption
<1>2. f = IF 0 >= a1 - Overflow THEN 0 ELSE a1 - Overflow
  <2> HIDE DEF a1
  <2> QED BY <1>1, MaxPair
<1>3. t = IF h <= a2 + Overflow THEN h ELSE a2 + Overflow
  <2> HIDE DEF a2, h
  <2> QED BY <1>1, MinPair
<1> HIDE DEF a1, a2, h, f, t
<1>4. f \in Int /\ t \in Int /\ f <= a1 /\ a2 <= t
  BY <1>1, <1>2, <1>3
<1>5. e \in Spans /\ e # <<>> /\ e.from = f /\ e.to = t /\ e.zoom = z
  BY <1>4 DEF Spans
<1>6. Covers(e, p, y, z)
  <2> HIDE DEF e
  <2> QED BY <1>4, <1>5 DEF Covers, a1, a2
<1> QED
  BY <1>5, <1>6 DEF e, f, t, a1, a2, h

LEMMA SameAreaCovers ==
    ASSUME layout \in Layouts, NEW z \in Nat \ {0}, NEW y \in Nat, NEW p \in Pages,
           NEW old \in Spans, NEW h, ~DifferentArea(old, Area(p, y, z), z, h)
    PROVE  Covers(old, p, y, z)
<1>1. old # <<>> /\ old.zoom = z
      /\ ~(old.from > Area(p, y, z)[1]) /\ ~(old.to < Area(p, y, z)[2])
  BY DEF DifferentArea
<1>2. old.from \in Int /\ old.to \in Int
  BY <1>1 DEF Spans
<1> QED
  BY <1>1, <1>2, AreaOnPage DEF Covers

LEMMA UpdateAreasSound ==
    ASSUME layout \in Layouts, NEW r \in Records, NEW L, ViewsSound(r, L), BufferSound(r),
           NEW z \in Nat \ {0}, NEW y \in Nat, NEW S \in SUBSET Pages
    PROVE  LET c == UpdateAreas(r, S, y, z)
           IN  /\ c \in Records /\ ViewsSound(c, L) /\ BufferSound(c)
               /\ Covered(c, S, y, z)
<1> DEFINE parts == {p \in S : Restricted(z) /\ ~Whole(p, y, z)}
           height(p) == Bottom(p, z) - Top(p, z)
           moved == {p \in parts : DifferentArea(r.area[p], Area(p, y, z), z, height(p))}
           around(a, h) == [from |-> Max({0, a[1] - Overflow}), to |-> Min({h, a[2] + Overflow}),
                            zoom |-> z]
           areas == [p \in Pages |-> IF p \in moved THEN around(Area(p, y, z), height(p))
                                     ELSE r.area[p]]
           states == [v \in Views |-> IF v > N /\ PageOf(v) \in parts /\ r.state[v] = "absent"
                                      THEN "initial" ELSE r.state[v]]
           fresh == [r EXCEPT !.area = areas, !.state = states]
           D == {Detail(p) : p \in moved}
           x == ResetDetails(fresh, D)
           G == (S \cup ToSet(r.buffer)) \ parts
           c == DropDetails(x, G)
<1>1. UpdateAreas(r, S, y, z) = c
  <2>1. fresh = [r EXCEPT !.area = areas,
                          !.state = [v \in Views |-> IF v > N /\ PageOf(v) \in parts
                                                         /\ @[v] = "absent"
                                                      THEN "initial" ELSE @[v]]]
    OBVIOUS
  <2> QED BY <2>1 DEF UpdateAreas
<1>2. parts \subseteq S /\ moved \subseteq parts
  OBVIOUS
<1>3. areas \in [Pages -> Spans]
  <2>1. ASSUME NEW p \in Pages
        PROVE  around(Area(p, y, z), height(p)) \in Spans /\ r.area[p] \in Spans
    BY AroundCovers, FieldTypes
  <2> HIDE DEF moved
  <2> QED BY <2>1
<1>4. \A p \in parts : Covers(areas[p], p, y, z)
  <2> TAKE p \in parts
  <2>1. p \in Pages
    OBVIOUS
  <2>2. CASE p \in moved
    <3>1. areas[p] = around(Area(p, y, z), height(p))
      BY <2>1, <2>2
    <3>2. Covers(around(Area(p, y, z), height(p)), p, y, z)
      BY <2>1, AroundCovers
    <3> QED BY <3>1, <3>2
  <2>3. CASE p \notin moved
    <3>1. areas[p] = r.area[p] /\ r.area[p] \in Spans
      BY <2>1, <2>3, FieldTypes
    <3>2. ~DifferentArea(r.area[p], Area(p, y, z), z, height(p))
      BY <2>3
    <3> QED BY <2>1, <3>1, <3>2, SameAreaCovers
  <2> QED BY <2>2, <2>3
<1> HIDE DEF parts, moved, areas
<1>5. /\ states \in [Views -> States]
      /\ \A v \in Views : states[v] = r.state[v] \/ (r.state[v] = "absent" /\ states[v] = "initial")
  <2>1. r.state \in [Views -> States] /\ "initial" \in States
    BY FieldTypes DEF States
  <2> QED BY <2>1
<1> HIDE DEF states
<1>6. fresh \in Records
  BY <1>3, <1>5 DEF Records
<1>7. /\ fresh.state = states /\ fresh.task = r.task /\ fresh.canvas = r.canvas
      /\ fresh.prev = r.prev /\ fresh.area = areas /\ fresh.loads = r.loads
      /\ fresh.buffer = r.buffer /\ fresh.size = r.size
  BY DEF Records
<1> HIDE DEF fresh
<1>8. ViewsSound(fresh, L)
  <2> SUFFICES ASSUME NEW v \in Views
               PROVE  ViewSound(fresh, L, v)
    BY DEF ViewsSound
  <2>1. ViewSound(r, L, v)
    BY DEF ViewsSound
  <2>2. CASE states[v] = r.state[v]
    BY <1>7, <2>1, <2>2 DEF ViewSound
  <2>3. CASE r.state[v] = "absent" /\ states[v] = "initial"
    BY <1>7, <2>1, <2>3 DEF ViewSound
  <2> QED BY <1>5, <2>2, <2>3
<1>9. Resets(fresh, D, x)
  <2>1. D \in SUBSET Views
    BY <1>2, ViewOfPage
  <2> HIDE DEF D
  <2> QED BY <1>6, <2>1, ResetDetailsResets
<1> HIDE DEF x, D
<1>10. /\ ViewsSound(x, L)
       /\ \A p \in Pages : (Asked(x, p) => Asked(fresh, p)) /\ (x.canvas[p] => fresh.canvas[p])
  BY <1>8, <1>9, ResetsSound
<1>11. x \in Records /\ x.area = areas /\ x.buffer = r.buffer /\ x.size = r.size
  BY <1>7, <1>9 DEF Resets
<1>12. DropsViews(x, Details(x, G), c)
  BY <1>11, DropDetailsDrops
<1> HIDE DEF c, G
<1>13. /\ ViewsSound(c, L)
       /\ \A p \in Pages :
             /\ Asked(c, p) => Asked(x, p)
             /\ c.canvas[p] = x.canvas[p]
             /\ p \in G => ~Asked(c, p) /\ c.state[Detail(p)] = "absent"
             /\ p \notin G => c.area[p] = x.area[p]
  BY <1>10, <1>12, DropsSound
<1>14. c \in Records /\ c.buffer = r.buffer /\ c.size = r.size
  BY <1>11, <1>12 DEF DropsViews
<1>15. \A p \in Pages : (Asked(c, p) => Asked(r, p)) /\ (c.canvas[p] => r.canvas[p])
  BY <1>7, <1>10, <1>13 DEF Asked
<1>16. BufferSound(c)
  BY <1>14, <1>15 DEF BufferSound, Held
<1>17. ASSUME NEW p \in Pages
       PROVE  /\ Asked(c, p) => p \in S
              /\ p \in S /\ c.state[Detail(p)] # "absent" => Covers(c.area[p], p, y, z)
  <2>1. ASSUME Asked(c, p)
        PROVE  p \in S
    <3>1. p \in ToSet(r.buffer)
      BY <1>15, <2>1 DEF BufferSound, Held
    <3>2. p \notin G
      BY <1>13, <2>1
    <3> QED BY <1>2, <3>1, <3>2 DEF G
  <2>2. ASSUME p \in S, c.state[Detail(p)] # "absent"
        PROVE  Covers(c.area[p], p, y, z)
    <3>1. p \notin G
      BY <1>13, <2>2
    <3>2. p \in parts
      BY <2>2, <3>1 DEF G
    <3> QED BY <1>4, <1>11, <1>13, <3>1, <3>2
  <2> QED BY <2>1, <2>2
<1> QED
  BY <1>1, <1>13, <1>14, <1>16, <1>17 DEF Covered

-----------------------------------------------------------------------------
(***************************************************************************)
(* Rendering: the queue.                                                   *)
(***************************************************************************)

\* The view that is next has something to draw, and a detail view comes after
\* the visible pages; when none is next, they are all drawn.
LEMMA PriorityIsOpen ==
    ASSUME layout \in Layouts, NEW r \in Records, NEW L, ViewsSound(r, L),
           NEW z \in Nat \ {0}, NEW y \in Nat, NEW S \in SUBSET Pages, S # {},
           NEW ahead \in BOOLEAN
    PROVE  LET v == HighestPriority(r, S, y, z, ahead)
           IN  /\ v # 0 => /\ v \in Views /\ r.state[v] \notin {"absent", "finished"}
                           /\ v \in Pages \/ \E p \in S : v = Detail(p) /\ Finished(r, p)
               /\ v = 0 => AllDrawn(r, S)
<1> DEFINE open(V) == {v \in V : ~Finished(r, v)}
           first(V) == IF V = {} THEN 0 ELSE IF ahead THEN Min(V) ELSE Max(V)
           more == IF layout.spread THEN 2 ELSE 1
           detailed == {p \in S : r.state[Detail(p)] # "absent" /\ ~Finished(r, Detail(p))}
           holes == open((Min(S)..Max(S)) \ S)
           next == open(Pages \cap (IF ahead THEN Max(S) + 1..Max(S) + more
                                             ELSE Min(S) - more..Min(S) - 1))
           rest == IF holes # {} THEN first(holes) ELSE first(next)
           v == HighestPriority(r, S, y, z, ahead)
<1>0. /\ open(S) # {} => v = MostVisible(open(S), y, z)
      /\ open(S) = {} /\ detailed # {} => v = Detail(MostVisible(detailed, y, z))
      /\ open(S) = {} /\ detailed = {} => v = rest
  BY DEF HighestPriority
<1>1. ASSUME NEW V \in SUBSET Pages
      PROVE  first(V) \in V \cup {0}
  BY LayoutType, FirstAndLast
<1>2. N \in Nat \ {0} /\ Pages = 1..N
  BY LayoutType
<1>3. holes \in SUBSET Pages
  <2>1. Min(S) \in Pages /\ Max(S) \in Pages
    BY <1>2, FirstAndLast
  <2>2. Min(S)..Max(S) \subseteq Pages
    BY <1>2, <2>1
  <2> QED BY <2>2
<1>4. next \in SUBSET Pages
  OBVIOUS
<1>5. \A p \in Pages : p \in Views /\ p # 0 /\ r.state[p] # "absent" /\ Detail(p) \in Views
  BY <1>2, ViewOfPage DEF ViewsSound, ViewSound
<1>6. rest # 0 => rest \in Pages /\ ~Finished(r, rest)
  <2>1. \A p \in holes \cup next : ~Finished(r, p)
    OBVIOUS
  <2> HIDE DEF holes, next, first
  <2> QED BY <1>1, <1>3, <1>4, <2>1
<1> HIDE DEF v, rest
<1>7. CASE open(S) # {}
  <2>1. open(S) \in SUBSET Pages
    OBVIOUS
  <2>2. v \in open(S)
    BY <1>0, <1>7, <2>1, MostVisibleIsOne
  <2>3. v \in Pages /\ ~Finished(r, v)
    BY <2>1, <2>2
  <2> QED BY <1>5, <2>3 DEF Finished, v
<1>8. CASE open(S) = {} /\ detailed # {}
  <2>1. detailed \in SUBSET Pages
    OBVIOUS
  <2> DEFINE p == MostVisible(detailed, y, z)
  <2>2. p \in detailed
    BY <1>8, <2>1, MostVisibleIsOne
  <2>3. v = Detail(p)
    BY <1>0, <1>8
  <2>4. \A o \in S : Finished(r, o)
    BY <1>8
  <2> HIDE DEF p
  <2>5. p \in S /\ r.state[Detail(p)] # "absent" /\ ~Finished(r, Detail(p))
    BY <2>2
  <2>6. Detail(p) # 0
    BY <1>2, <2>5 DEF Detail
  <2> QED BY <1>5, <2>3, <2>4, <2>5, <2>6 DEF Finished, v
<1>9. CASE open(S) = {} /\ detailed = {}
  <2>1. v = rest
    BY <1>0, <1>9
  <2>2. AllDrawn(r, S)
    BY <1>5, <1>9 DEF AllDrawn, Finished
  <2> QED BY <1>5, <1>6, <2>1, <2>2 DEF Finished, v
<1> QED
  BY <1>7, <1>8, <1>9

LEMMA ForceRenderingSound ==
    ASSUME layout \in Layouts, NEW r \in Records, NEW L, ViewsSound(r, L), BufferSound(r),
           NEW z \in Nat \ {0}, NEW y \in Nat, NEW S \in SUBSET Pages,
           NEW d \in BOOLEAN
    PROVE  LET c == ForceRendering(r, S, y, z, d)
           IN  /\ c \in Records /\ ViewsSound(c, L) /\ BufferSound(c)
               /\ Covered(r, S, y, z) => Covered(c, S, y, z)
               /\ AllDrawn(c, S) \/ Awaited(c)
<1> DEFINE ahead == ScrollAhead(S, d)
           v == HighestPriority(r, S, y, z, ahead)
           c == ForceRendering(r, S, y, z, d)
<1>1. c = IF S = {} \/ v = 0 THEN r ELSE [r EXCEPT !.loads[v] = @ + 1]
  BY DEF ForceRendering
<1>2. ahead \in BOOLEAN
  BY DEF ScrollAhead
<1> HIDE DEF ahead
<1>3. CASE S = {}
  <2>1. c = r
    BY <1>1, <1>3
  <2> HIDE DEF c
  <2> QED BY <1>3, <2>1 DEF AllDrawn, c
<1>4. CASE S # {} /\ v = 0
  <2>1. c = r
    BY <1>1, <1>4
  <2>2. AllDrawn(r, S)
    BY <1>2, <1>4, PriorityIsOpen
  <2> HIDE DEF c
  <2> QED BY <2>1, <2>2 DEF c
<1>5. CASE S # {} /\ v # 0
  <2>1. /\ v \in Views /\ r.state[v] \notin {"absent", "finished"}
        /\ v \in Pages \/ \E p \in S : v = Detail(p) /\ Finished(r, p)
    BY <1>2, <1>5, PriorityIsOpen
  <2>2. c = [r EXCEPT !.loads[v] = r.loads[v] + 1]
    BY <1>1, <1>5
  <2> HIDE DEF v, c
  <2>3. v \in 1..(3 * N) /\ r.loads \in [1..(3 * N) -> Nat]
    BY <2>1, ViewOfPage, FieldTypes
  <2> DEFINE loads == [r.loads EXCEPT ![v] = r.loads[v] + 1]
  <2>4. c = [r EXCEPT !.loads = loads]
    BY <2>2
  <2>5. loads \in [1..(3 * N) -> Nat] /\ loads[v] > 0 /\ \A u \in 1..(3 * N) : u # v => loads[u] = r.loads[u]
    <3> DEFINE M == 1..(3 * N)
               f == r.loads
    <3>1. v \in M /\ f \in [M -> Nat]
      BY <2>3
    <3> HIDE DEF M, f
    <3>2. /\ [f EXCEPT ![v] = f[v] + 1] \in [M -> Nat] /\ [f EXCEPT ![v] = f[v] + 1][v] > 0
          /\ \A u \in M : u # v => [f EXCEPT ![v] = f[v] + 1][u] = f[u]
      BY <3>1
    <3> QED BY <3>2 DEF M, f
  <2> HIDE DEF loads
  <2>6. c \in Records
    BY <2>4, <2>5 DEF Records
  <2>7. /\ c.state = r.state /\ c.task = r.task /\ c.canvas = r.canvas /\ c.prev = r.prev
        /\ c.area = r.area /\ c.buffer = r.buffer /\ c.size = r.size /\ c.loads = loads
    BY <2>4 DEF Records
  <2>8. ViewsSound(c, L)
    <3> SUFFICES ASSUME NEW u \in Views
                 PROVE  ViewSound(c, L, u)
      BY DEF ViewsSound
    <3>1. ViewSound(r, L, u) /\ u \in 1..(3 * N)
      BY ViewOfPage DEF ViewsSound
    <3> QED BY <2>1, <2>5, <2>7, <3>1 DEF ViewSound
  <2>9. ASSUME NEW p \in Pages, Asked(c, p)
        PROVE  Asked(r, p) \/ (p \in S /\ r.canvas[p])
    <3>1. /\ Detail(p) \in 1..(3 * N) /\ Detail(p) \notin Pages /\ p \in Views /\ PageOf(p) = p
          /\ \A o \in Pages : Detail(p) = Detail(o) => p = o
      BY LayoutType, ViewOfPage
    <3>2. CASE v = Detail(p)
      <4>1. p \in S /\ Finished(r, p)
        BY <2>1, <3>1, <3>2
      <4>2. r.canvas[p] \/ p \in Broken
        BY <3>1, <4>1 DEF Finished, ViewsSound, ViewSound
      <4> QED BY <2>7, <2>9, <4>1, <4>2 DEF Asked
    <3>3. CASE v # Detail(p)
      BY <2>5, <2>7, <2>9, <3>1, <3>3 DEF Asked
    <3> QED BY <3>2, <3>3
  <2>10. BufferSound(c)
    BY <2>7, <2>9 DEF BufferSound, Held
  <2>11. Covered(r, S, y, z) => Covered(c, S, y, z)
    BY <2>7, <2>9 DEF Covered
  <2>12. Awaited(c)
    BY <2>1, <2>3, <2>5, <2>7 DEF Awaited
  <2> QED BY <2>6, <2>8, <2>10, <2>11, <2>12 DEF c
<1> QED
  BY <1>3, <1>4, <1>5

\* What an update leaves, of a record that may have just been changed.
LEMMA UpdateSound ==
    ASSUME layout \in Layouts, NEW r \in Records, NEW L, ViewsSound(r, L), BufferSound(r),
           NEW z \in Nat \ {0}, NEW y \in Nat, NEW d \in BOOLEAN,
           Update(r, y, z, d), location \in Pages
    PROVE  /\ q' \in Records /\ ViewsSound(q', L) /\ BufferSound(q')
           /\ Visible(y, z) # {} => Covered(q', Visible(y, z), y, z)
           /\ AllDrawn(q', Visible(y, z)) \/ Awaited(q')
           /\ location' \in Pages
<1> DEFINE S == Visible(y, z)
           u == Resize(r, S)
           w == UpdateAreas(u, S, y, z)
<1>1. S \in SUBSET Pages
  BY VisibleArePages
<1>2. /\ location' = IF S = {} THEN location ELSE Min(S)
      /\ q' = IF S = {} THEN r ELSE ForceRendering(w, S, y, z, d)
  BY DEF Update
<1> HIDE DEF S
<1>3. location' \in Pages
  <2>1. S # {} => Min(S) \in S
    BY <1>1, LayoutType, FirstAndLast
  <2> QED BY <1>1, <1>2, <2>1
<1>4. CASE S = {}
  <2>1. q' = r
    BY <1>2, <1>4
  <2> QED BY <1>3, <1>4, <2>1 DEF S, AllDrawn
<1>5. CASE S # {}
  <2>1. u \in Records /\ ViewsSound(u, L) /\ BufferSound(u)
    BY <1>1, ResizeSound
  <2> HIDE DEF u
  <2>2. w \in Records /\ ViewsSound(w, L) /\ BufferSound(w) /\ Covered(w, S, y, z)
    BY <1>1, <2>1, UpdateAreasSound
  <2> HIDE DEF w
  <2>3. q' = ForceRendering(w, S, y, z, d)
    BY <1>2, <1>5
  <2>4. LET c == ForceRendering(w, S, y, z, d)
        IN  /\ c \in Records /\ ViewsSound(c, L) /\ BufferSound(c)
            /\ Covered(w, S, y, z) => Covered(c, S, y, z)
            /\ AllDrawn(c, S) \/ Awaited(c)
    BY <1>1, <2>2, ForceRenderingSound
  <2> QED BY <1>3, <2>2, <2>3, <2>4 DEF S
<1> QED
  BY <1>4, <1>5

-----------------------------------------------------------------------------
(***************************************************************************)
(* Rendering: a view is drawn.                                             *)
(***************************************************************************)

\* c is r after view u was asked to be drawn: nothing else has got more to
\* show, and unless u was drawn something is under way.
DrawsView(r, c, u, hasPage) ==
    /\ \A p \in Pages :
        /\ Asked(c, p) => Asked(r, p) \/ (u = Detail(p) /\ hasPage)
        /\ c.state[Detail(p)] # "absent" => r.state[Detail(p)] # "absent" /\ c.area[p] = r.area[p]
    /\ IF u > 2 * N \/ r.state[u] # "finished" THEN Awaited(c) ELSE c = r

\* What makes a record that draws view u sound.
Soundly(L, c) == c \in Records /\ ViewsSound(c, L) /\ BufferSound(c)

\* More pages loaded.
LEMMA MoreLoaded ==
    ASSUME NEW r, NEW L, NEW M, L \subseteq M, ViewsSound(r, L)
    PROVE  ViewsSound(r, M)
BY DEF ViewsSound, ViewSound

\* A dropped detail view passes its priority on, and its draw is settled.
LEMMA DroppedSound ==
    ASSUME layout \in Layouts, NEW r \in Records, NEW L, ViewsSound(r, L), BufferSound(r),
           NEW n \in 0..(2 * N)
    PROVE  LET c == [r EXCEPT !.priority = n, !.kicks = @ + 1]
           IN  /\ Soundly(L, c) /\ Awaited(c)
               /\ \A p \in Pages : /\ Asked(c, p) => Asked(r, p)
                                   /\ c.state = r.state /\ c.area = r.area
<1> DEFINE more == r.kicks + 1
           c == [r EXCEPT !.priority = n, !.kicks = more]
<1>0. c = [r EXCEPT !.priority = n, !.kicks = @ + 1]
  BY DEF Records
<1>2. more \in Nat /\ more > 0
  BY FieldTypes
<1> HIDE DEF more
<1>1. c \in Records
  BY <1>2 DEF Records
<1>3. /\ c.state = r.state /\ c.task = r.task /\ c.canvas = r.canvas /\ c.prev = r.prev
      /\ c.area = r.area /\ c.buffer = r.buffer /\ c.size = r.size /\ c.loads = r.loads
      /\ c.kicks = more
  BY DEF Records
<1> HIDE DEF c
<1>4. c.kicks > 0
  BY <1>2, <1>3
<1>5. ViewsSound(c, L) /\ BufferSound(c)
  BY <1>3 DEF ViewsSound, ViewSound, BufferSound, Held, Asked
<1>6. \A p \in Pages : Asked(c, p) => Asked(r, p)
  BY <1>3 DEF Asked
<1> QED
  BY <1>0, <1>1, <1>3, <1>4, <1>5, <1>6 DEF Soundly, Awaited

\* A view that is drawn, or is to resume, comes first.
LEMMA FirstSound ==
    ASSUME layout \in Layouts, NEW r \in Records, NEW L, ViewsSound(r, L), BufferSound(r),
           NEW u \in Views, r.state[u] \in {"running", "paused"}
    PROVE  LET c == [r EXCEPT !.priority = u, !.state[u] = "running", !.task[u] = "going"]
           IN  /\ Soundly(L, c) /\ Awaited(c)
               /\ \A p \in Pages : /\ Asked(c, p) => Asked(r, p)
                                   /\ c.state[Detail(p)] # "absent" => r.state[Detail(p)] # "absent"
                                   /\ c.area = r.area
<1> DEFINE states == [r.state EXCEPT ![u] = "running"]
           tasks == [r.task EXCEPT ![u] = "going"]
           c == [r EXCEPT !.priority = u, !.state = states, !.task = tasks]
<1>0. c = [r EXCEPT !.priority = u, !.state[u] = "running", !.task[u] = "going"]
  BY DEF Records
<1>1. /\ r.state \in [Views -> States] /\ r.task \in [Views -> {"none", "going", "held"}]
  BY FieldTypes
<1>2. /\ states \in [Views -> States] /\ tasks \in [Views -> {"none", "going", "held"}]
      /\ \A v \in Views : /\ states[v] = IF v = u THEN "running" ELSE r.state[v]
                          /\ tasks[v] = IF v = u THEN "going" ELSE r.task[v]
  BY <1>1 DEF States
<1>3. u \in 0..(2 * N)
  BY LayoutType
<1> HIDE DEF states, tasks
<1>4. c \in Records
  BY <1>2, <1>3 DEF Records
<1>5. /\ c.state = states /\ c.task = tasks /\ c.canvas = r.canvas /\ c.prev = r.prev
      /\ c.area = r.area /\ c.buffer = r.buffer /\ c.size = r.size /\ c.loads = r.loads
      /\ c.priority = u
  BY DEF Records
<1> HIDE DEF c
<1>6. ASSUME NEW v \in Views
      PROVE  ViewSound(c, L, v)
  <2>1. ViewSound(r, L, v)
    BY DEF ViewsSound
  <2>2. CASE v = u
    BY <1>2, <1>5, <2>1, <2>2 DEF ViewSound
  <2>3. CASE v # u
    BY <1>2, <1>5, <2>1, <2>3 DEF ViewSound
  <2> QED BY <2>2, <2>3
<1>7. BufferSound(c) /\ \A p \in Pages : Asked(c, p) => Asked(r, p)
  BY <1>5 DEF BufferSound, Held, Asked
<1>8. Awaited(c)
  BY <1>2, <1>5 DEF Awaited
<1>9. \A p \in Pages : Detail(p) \in Views
  BY ViewOfPage
<1>10. \A p \in Pages : c.state[Detail(p)] # "absent" => r.state[Detail(p)] # "absent"
  BY <1>2, <1>5, <1>9
<1> QED
  BY <1>0, <1>4, <1>5, <1>6, <1>7, <1>8, <1>10 DEF ViewsSound, Soundly

\* A view without its page is done with.
LEMMA NoPageSound ==
    ASSUME layout \in Layouts, NEW r \in Records, NEW L, ViewsSound(r, L), BufferSound(r),
           NEW u \in Views, r.state[u] = "initial", PageOf(u) \in Broken
    PROVE  LET c == NoPage(r, u)
           IN  /\ Soundly(L, c) /\ Awaited(c)
               /\ \A p \in Pages : /\ Asked(c, p) => Asked(r, p)
                                   /\ c.state[Detail(p)] # "absent" => r.state[Detail(p)] # "absent"
                                   /\ c.area = r.area
<1> DEFINE states == [r.state EXCEPT ![u] = "finished"]
           more == r.kicks + 1
           c == [r EXCEPT !.state = states, !.kicks = more]
<1>0. c = NoPage(r, u)
  BY DEF Records, NoPage
<1>1. /\ r.state \in [Views -> States] /\ r.kicks \in Nat
  BY FieldTypes
<1>2. /\ states \in [Views -> States]
      /\ \A v \in Views : states[v] = IF v = u THEN "finished" ELSE r.state[v]
  BY <1>1 DEF States
<1>3. more \in Nat /\ more > 0
  BY <1>1
<1> HIDE DEF states, more
<1>4. c \in Records
  BY <1>2, <1>3 DEF Records
<1>5. /\ c.state = states /\ c.task = r.task /\ c.canvas = r.canvas /\ c.prev = r.prev
      /\ c.area = r.area /\ c.buffer = r.buffer /\ c.size = r.size /\ c.loads = r.loads
      /\ c.kicks = more
  BY DEF Records
<1> HIDE DEF c
<1>6. ASSUME NEW v \in Views
      PROVE  ViewSound(c, L, v)
  <2>1. ViewSound(r, L, v)
    BY DEF ViewsSound
  <2>2. CASE v = u
    BY <1>2, <1>5, <2>1, <2>2 DEF ViewSound
  <2>3. CASE v # u
    BY <1>2, <1>5, <2>1, <2>3 DEF ViewSound
  <2> QED BY <2>2, <2>3
<1>7. BufferSound(c) /\ \A p \in Pages : Asked(c, p) => Asked(r, p)
  BY <1>5 DEF BufferSound, Held, Asked
<1>8. Awaited(c)
  BY <1>3, <1>5 DEF Awaited
<1>9. \A p \in Pages : Detail(p) \in Views
  BY ViewOfPage
<1>10. \A p \in Pages : c.state[Detail(p)] # "absent" => r.state[Detail(p)] # "absent"
  BY <1>2, <1>5, <1>9
<1> QED
  BY <1>0, <1>4, <1>5, <1>6, <1>7, <1>8, <1>10 DEF ViewsSound, Soundly

\* A drawing begins: its view has a canvas, and nothing else has changed.
Begins(r, u, c) ==
    /\ c \in Records
    /\ c.area = r.area /\ c.buffer = r.buffer /\ c.size = r.size /\ c.loads = r.loads
    /\ c.kicks = r.kicks /\ c.priority = r.priority
    /\ c.state[u] = "running" /\ c.task[u] = "going" /\ c.canvas[u]
    /\ \A v \in Views : v # u => Same(r, c, v)

LEMMA BeginBegins ==
    ASSUME layout \in Layouts, NEW r \in Records, NEW u \in Views
    PROVE  Begins(r, u, Begin(r, u))
<1> DEFINE states == [r.state EXCEPT ![u] = "running"]
           tasks == [r.task EXCEPT ![u] = "going"]
           prevs == [r.prev EXCEPT ![u] = r.canvas[u]]
           canvases == [r.canvas EXCEPT ![u] = TRUE]
           c == [r EXCEPT !.state = states, !.task = tasks, !.prev = prevs, !.canvas = canvases]
<1>0. c = Begin(r, u)
  BY DEF Records, Begin, CreateCanvas
<1>1. /\ r.state \in [Views -> States] /\ r.task \in [Views -> {"none", "going", "held"}]
      /\ r.prev \in [Views -> BOOLEAN]
      /\ r.canvas \in [Views -> BOOLEAN]
  BY FieldTypes
<1>2. /\ states \in [Views -> States] /\ tasks \in [Views -> {"none", "going", "held"}]
      /\ states[u] = "running" /\ tasks[u] = "going"
      /\ \A v \in Views : v # u => states[v] = r.state[v] /\ tasks[v] = r.task[v]
  BY <1>1 DEF States
<1>3. /\ prevs \in [Views -> BOOLEAN] /\ canvases \in [Views -> BOOLEAN]
      /\ canvases[u]
      /\ \A v \in Views : v # u => prevs[v] = r.prev[v] /\ canvases[v] = r.canvas[v]
  BY <1>1
<1> HIDE DEF states, tasks, prevs, canvases
<1>4. c \in Records
  BY <1>2, <1>3 DEF Records
<1>5. /\ c.area = r.area /\ c.buffer = r.buffer /\ c.size = r.size /\ c.loads = r.loads
      /\ c.kicks = r.kicks /\ c.priority = r.priority /\ c.state = states /\ c.task = tasks
      /\ c.canvas = canvases /\ c.prev = prevs
  BY DEF Records
<1> HIDE DEF c
<1> QED
  BY <1>0, <1>2, <1>3, <1>4, <1>5 DEF Begins, Same

\* The page of the view that begins goes to the end of the buffer.
LEMMA DrawSound ==
    ASSUME layout \in Layouts, NEW r \in Records, NEW L, ViewsSound(r, L), BufferSound(r),
           NEW u \in Views, r.state[u] = "initial", PageOf(u) \in L, r.priority = u,
           NEW x, Begins(r, u, x)
    PROVE  LET c == Push(x, PageOf(u))
           IN  /\ Soundly(L, c) /\ Awaited(c)
               /\ \A p \in Pages :
                   /\ Asked(c, p) => Asked(r, p) \/ u = Detail(p)
                   /\ c.state[Detail(p)] # "absent"
                            => r.state[Detail(p)] # "absent" /\ c.area[p] = r.area[p]
<1> DEFINE g == PageOf(u)
           c == Push(x, g)
<1>1. g \in Pages /\ (u = g \/ u = Detail(g))
  BY ViewOfPage
<1>2. x \in Records
  BY DEF Begins
<1>3. ASSUME NEW v \in Views
      PROVE  ViewSound(x, L, v)
  <2>1. ViewSound(r, L, v)
    BY DEF ViewsSound
  <2>2. CASE v = u
    BY <2>2 DEF ViewSound, Begins
  <2>3. CASE v # u
    BY <2>1, <2>3, SameSound DEF Begins
  <2> QED BY <2>2, <2>3
<1>4. ViewsSound(x, L)
  BY <1>3 DEF ViewsSound
<1>5. ASSUME NEW p \in Pages
      PROVE  /\ Asked(x, p) => Asked(r, p) \/ u = Detail(p)
             /\ p # g => (x.canvas[p] \/ Asked(x, p) => p \in ToSet(r.buffer))
             /\ x.state[Detail(p)] # "absent" => r.state[Detail(p)] # "absent"
  <2>1. /\ p \in Views /\ Detail(p) \in Views /\ PageOf(p) = p /\ PageOf(Detail(p)) = p
    BY ViewOfPage
  <2>2. Detail(p) # u => Same(r, x, Detail(p))
    BY <2>1 DEF Begins
  <2>3. Asked(x, p) => Asked(r, p) \/ u = Detail(p)
    BY <2>2 DEF Asked, Same
  <2>4. p # g => u # p /\ u # Detail(p)
    BY <2>1
  <2>5. p # u => x.canvas[p] = r.canvas[p]
    BY <2>1 DEF Begins, Same
  <2>6. p # g => (x.canvas[p] \/ Asked(x, p) => p \in ToSet(r.buffer))
    BY <2>3, <2>4, <2>5 DEF BufferSound, Held
  <2>7. x.state[Detail(p)] # "absent" => r.state[Detail(p)] # "absent"
    BY <2>2 DEF Same
  <2> QED BY <2>3, <2>6, <2>7
<1>6. Distinct(x.buffer) /\ x.buffer = r.buffer /\ x.area = r.area /\ x.priority = u
  BY DEF Begins, BufferSound
<1> HIDE DEF g
<1>7. Outcome(x, L, c) /\ Spares(x, c, g)
  <2>1. \A o \in Pages \ {g} : x.canvas[o] \/ Asked(x, o) => o \in ToSet(x.buffer)
    BY <1>5, <1>6
  <2> QED BY <1>1, <1>2, <1>4, <1>6, <2>1, PushSound
<1> HIDE DEF c
<1>8. c.priority = u /\ c.task[u] = "going"
  <2>1. Same(x, c, u)
    BY <1>1, <1>7 DEF Spares
  <2> QED BY <1>6, <1>7, <2>1 DEF Outcome, Fewer, Same, Begins
<1>9. Awaited(c)
  BY <1>8 DEF Awaited
<1>10. ASSUME NEW p \in Pages
       PROVE  /\ Asked(c, p) => Asked(r, p) \/ u = Detail(p)
              /\ c.state[Detail(p)] # "absent"
                            => r.state[Detail(p)] # "absent" /\ c.area[p] = r.area[p]
  BY <1>5, <1>6, <1>7 DEF Outcome, Fewer
<1>11. Soundly(L, c)
  BY <1>7 DEF Outcome, Soundly
<1> QED
  BY <1>9, <1>10, <1>11 DEF c, g

\* renderView.
LEMMA RenderViewSound ==
    ASSUME layout \in Layouts, NEW r \in Records, NEW L, ViewsSound(r, L), BufferSound(r),
           NEW u \in 1..(3 * N), ~(u > 2 * N) => r.state[u] # "absent",
           NEW hasPage \in BOOLEAN, hasPage => PageOf(u) \in L, ~hasPage => PageOf(u) \in Broken,
           NEW z
    PROVE  LET c == RenderView(r, u, hasPage, z)
           IN  Soundly(L, c) /\ DrawsView(r, c, u, hasPage)
<1> DEFINE c == RenderView(r, u, hasPage, z)
           w == [r EXCEPT !.priority = u]
<1>1. CASE u > 2 * N
  <2> DEFINE n == Detail(PageOf(u))
             x == [r EXCEPT !.priority = n, !.kicks = @ + 1]
  <2>1. n \in 0..(2 * N)
    <3>1. n \in Views
      BY ViewOfPage
    <3> HIDE DEF n
    <3> QED BY <3>1, LayoutType
  <2>2. c = x
    <3>1. ~(u <= 2 * N)
      BY <1>1, LayoutType
    <3> QED BY <1>1, <3>1 DEF RenderView
  <2> HIDE DEF n
  <2>3. /\ Soundly(L, x) /\ Awaited(x)
        /\ \A p \in Pages : /\ Asked(x, p) => Asked(r, p)
                            /\ x.state = r.state /\ x.area = r.area
    BY <2>1, DroppedSound
  <2> HIDE DEF x, c
  <2> QED BY <1>1, <2>2, <2>3 DEF DrawsView, c
<1>2. ASSUME ~(u > 2 * N)
      PROVE  /\ u \in Views /\ u \in 0..(2 * N) /\ PageOf(u) \in Pages
             /\ u \in Pages <=> u <= N
             /\ u <= 2 * N
  <2>1. u \in Views /\ PageOf(u) \in Pages
    BY <1>2, ViewOfPage
  <2> QED BY <1>2, <2>1, LayoutType
<1>3. CASE ~(u > 2 * N) /\ r.state[u] = "finished"
  <2>1. c = r
    BY <1>2, <1>3 DEF RenderView
  <2> HIDE DEF c
  <2> QED BY <1>3, <2>1 DEF DrawsView, Soundly, c
<1>4. CASE ~(u > 2 * N) /\ r.state[u] = "paused"
  <2> DEFINE x == [r EXCEPT !.priority = u, !.state[u] = "running", !.task[u] = "going"]
  <2>1. c = x
    BY <1>2, <1>4 DEF RenderView
  <2>2. /\ Soundly(L, x) /\ Awaited(x)
        /\ \A p \in Pages : /\ Asked(x, p) => Asked(r, p)
                            /\ x.state[Detail(p)] # "absent" => r.state[Detail(p)] # "absent"
                            /\ x.area = r.area
    BY <1>2, <1>4, FirstSound
  <2> HIDE DEF x, c
  <2> QED BY <1>4, <2>1, <2>2 DEF DrawsView, c
<1>5. ASSUME ~(u > 2 * N)
      PROVE  /\ w \in Records /\ ViewsSound(w, L) /\ BufferSound(w) /\ w.priority = u
             /\ w.state = r.state /\ w.area = r.area /\ w.task = r.task
             /\ \A p \in Pages : Asked(w, p) <=> Asked(r, p)
  <2>1. w \in Records
    BY <1>2, <1>5 DEF Records
  <2>2. /\ w.state = r.state /\ w.task = r.task /\ w.canvas = r.canvas /\ w.prev = r.prev
        /\ w.area = r.area /\ w.buffer = r.buffer /\ w.size = r.size /\ w.loads = r.loads
        /\ w.priority = u
    BY DEF Records
  <2> HIDE DEF w
  <2>3. ViewsSound(w, L)
    BY <2>2 DEF ViewsSound, ViewSound
  <2>4. BufferSound(w) /\ \A p \in Pages : Asked(w, p) <=> Asked(r, p)
    BY <2>2 DEF BufferSound, Held, Asked
  <2> QED BY <2>1, <2>2, <2>3, <2>4
<1>6. CASE ~(u > 2 * N) /\ r.state[u] = "running"
  <2>1. c = w
    BY <1>2, <1>6 DEF RenderView
  <2>2. r.task[u] = "going"
    BY <1>2, <1>6 DEF ViewsSound, ViewSound
  <2> HIDE DEF w, c
  <2> QED BY <1>2, <1>5, <1>6, <2>1, <2>2 DEF DrawsView, Soundly, Awaited, c
<1>7. CASE ~(u > 2 * N) /\ r.state[u] = "initial"
  <2>1. c = DrawView(w, u, hasPage, z)
    BY <1>2, <1>7 DEF RenderView
  <2> HIDE DEF w, c
  <2>2. CASE ~hasPage
    <3> DEFINE x == NoPage(w, u)
    <3>1. c = x
      BY <2>1, <2>2 DEF DrawView
    <3>2. /\ Soundly(L, x) /\ Awaited(x)
          /\ \A p \in Pages : /\ Asked(x, p) => Asked(w, p)
                              /\ x.state[Detail(p)] # "absent" => w.state[Detail(p)] # "absent"
                              /\ x.area = w.area
      BY <1>2, <1>5, <1>7, <2>2, NoPageSound
    <3> HIDE DEF x
    <3> QED BY <1>5, <1>7, <3>1, <3>2 DEF DrawsView, c
  <2>3. CASE hasPage
    <3>1. PICK x : Begins(w, u, x) /\ c = Push(x, PageOf(u))
      <4> DEFINE b == Begin(w, u)
      <4>1. Begins(w, u, b)
        BY <1>2, <1>5, <1>7, BeginBegins
      <4> HIDE DEF b
      <4>2. CASE u <= N
        <5> DEFINE x == [b EXCEPT !.capped[u] = Restricted(z)]
                   capped == [b.capped EXCEPT ![u] = Restricted(z)]
        <5>1. PageOf(u) = u /\ u \in Pages
          BY <1>2, <1>7, <4>2, ViewOfPage
        <5>2. c = Push(x, PageOf(u))
          <6>1. ~(u > N)
            BY <1>2, <1>7, <4>2, LayoutType
          <6>2. DrawView(w, u, hasPage, z) = DrawPage(w, u, z)
            BY <2>3, <4>2, <6>1 DEF DrawView
          <6>3. DrawPage(w, u, z) = Push(x, u)
            BY DEF DrawPage, b
          <6> HIDE DEF x
          <6> QED BY <2>1, <5>1, <6>2, <6>3
        <5>3. b \in Records
          BY <4>1 DEF Begins
        <5>4. capped \in [Pages -> BOOLEAN]
          <6>1. b.capped \in [Pages -> BOOLEAN] /\ Restricted(z) \in BOOLEAN
            BY <5>3, FieldTypes DEF Restricted
          <6> QED BY <6>1
        <5>5. x = [b EXCEPT !.capped = capped]
          BY <5>3 DEF Records
        <5> HIDE DEF x, capped
        <5>6. x \in Records
          BY <5>3, <5>4, <5>5 DEF Records
        <5>7. /\ x.state = b.state /\ x.task = b.task /\ x.canvas = b.canvas /\ x.prev = b.prev
              /\ x.area = b.area /\ x.buffer = b.buffer /\ x.size = b.size /\ x.loads = b.loads
              /\ x.kicks = b.kicks /\ x.priority = b.priority
          BY <5>3, <5>5 DEF Records
        <5>8. Begins(w, u, x)
          BY <4>1, <5>6, <5>7 DEF Begins, Same
        <5> QED BY <5>2, <5>8
      <4>3. CASE u > N
        <5>1. c = Push(b, PageOf(u))
          BY <1>2, <1>7, <2>1, <2>3, <4>3, LayoutType DEF DrawView, DrawDetail, b
        <5> QED BY <4>1, <5>1
      <4> QED BY <1>2, <1>7, <4>2, <4>3, LayoutType
    <3> DEFINE d == Push(x, PageOf(u))
    <3>2. /\ Soundly(L, d) /\ Awaited(d)
          /\ \A p \in Pages :
                /\ Asked(d, p) => Asked(w, p) \/ u = Detail(p)
                /\ d.state[Detail(p)] # "absent"
                            => w.state[Detail(p)] # "absent" /\ d.area[p] = w.area[p]
      BY <1>2, <1>5, <1>7, <2>3, <3>1, DrawSound
    <3>3. c = d
      BY <3>1
    <3> HIDE DEF d
    <3> QED BY <1>5, <1>7, <2>3, <3>2, <3>3 DEF DrawsView, c
  <2> QED BY <2>2, <2>3
<1>8. ~(u > 2 * N) => r.state[u] \in {"initial", "running", "paused", "finished"}
  <2>1. r.state \in [Views -> States]
    BY FieldTypes
  <2> QED BY <1>2, <2>1 DEF States
<1> QED
  BY <1>1, <1>3, <1>4, <1>6, <1>7, <1>8
-----------------------------------------------------------------------------
(***************************************************************************)
(* Rendering: the inductive invariant.                                     *)
(***************************************************************************)

\* The position, the zoom and the timers.
ControlSound ==
    /\ layout \in Layouts
    /\ frame \in BOOLEAN /\ timer \in BOOLEAN /\ down \in BOOLEAN
    /\ zoom \in 1..layout.maxZoom /\ top \in 0..MaxTop(zoom) /\ location \in Pages

\* The views r at position y and zoom z, with the pages L loaded.  Unless a
\* frame will come, the detail views are those of the pages that are shown;
\* and unless a frame or a timer will come, something is under way when
\* anything is left to draw.
ViewerSound(r, L, y, z, moving, waiting) ==
    /\ r \in Records /\ ViewsSound(r, L) /\ BufferSound(r)
    /\ ~moving /\ Visible(y, z) # {} => Covered(r, Visible(y, z), y, z)
    /\ AllDrawn(r, Visible(y, z)) \/ moving \/ waiting \/ Awaited(r)

RenderInv == ControlSound /\ ViewerSound(q, loaded, top, zoom, frame, timer)

\* What the layout's operators are in the next state.
LEMMA SameLayout ==
    ASSUME layout' = layout
    PROVE  /\ Visible(top, zoom)' = Visible(top', zoom')
           /\ MaxTop(zoom)' = MaxTop(zoom') /\ Pages' = Pages
<1>1. Pages' = Pages
  BY DEF Pages, N
<1>2. Visible(top, zoom)' = Visible(top', zoom')
  BY DEF Visible, FirstBelow, RowStart, Pages, N, Top, Bottom
<1>3. MaxTop(zoom)' = MaxTop(zoom')
  BY DEF MaxTop, Pages, N, Bottom
<1> QED
  BY <1>1, <1>2, <1>3

LEMMA NextSound ==
    ASSUME layout \in Layouts, layout' = layout, ViewerSound(q', loaded', top', zoom', frame', timer'),
           frame' \in BOOLEAN, timer' \in BOOLEAN, down' \in BOOLEAN,
           zoom' \in 1..layout.maxZoom, top' \in 0..MaxTop(zoom'), location' \in Pages
    PROVE  RenderInv'
<1>1. ControlSound'
  BY SameLayout DEF ControlSound
<1>2. Records' = Records
  BY DEF Records, States, Spans, Views, Pages, N
<1>3. ViewsSound(q', loaded') => ViewsSound(q, loaded)'
  BY DEF ViewsSound, ViewSound, Views, PageOf, N
<1>4. BufferSound(q') => BufferSound(q)'
  BY DEF BufferSound, Distinct, Held, Asked, Detail, Pages, N
<1>5. Covered(q', Visible(top', zoom'), top', zoom') => Covered(q, Visible(top, zoom), top, zoom)'
  <2>1. Visible(top, zoom)' = Visible(top', zoom')
    BY SameLayout
  <2> HIDE DEF Visible
  <2> QED BY <2>1 DEF Covered, Covers, Area, Top, Bottom, Asked, Detail, Pages, N
<1>6. AllDrawn(q', Visible(top', zoom')) => AllDrawn(q, Visible(top, zoom))'
  BY SameLayout DEF AllDrawn, Finished, Detail, N
<1>7. Awaited(q') => Awaited(q)'
  BY DEF Awaited, Views, N
<1> QED
  BY <1>1, <1>2, <1>3, <1>4, <1>5, <1>6, <1>7, SameLayout DEF RenderInv, ViewerSound

\* What the invariant says of the position and of what is shown.
LEMMA InvTypes ==
    ASSUME RenderInv
    PROVE  /\ layout \in Layouts /\ frame \in BOOLEAN /\ timer \in BOOLEAN /\ down \in BOOLEAN
           /\ zoom \in 1..layout.maxZoom /\ zoom \in Nat \ {0}
           /\ top \in 0..MaxTop(zoom) /\ top \in Nat /\ location \in Pages
           /\ Visible(top, zoom) \in SUBSET Pages
           /\ q \in Records /\ ViewsSound(q, loaded) /\ BufferSound(q)
<1>1. layout \in Layouts /\ zoom \in 1..layout.maxZoom /\ top \in 0..MaxTop(zoom)
  BY DEF RenderInv, ControlSound
<1>2. zoom \in Nat \ {0}
  BY <1>1, LayoutType
<1>3. top \in Nat
  BY <1>1, <1>2, MaxTopType
<1> QED
  BY <1>1, <1>2, <1>3, VisibleArePages DEF RenderInv, ControlSound, ViewerSound

LEMMA ScrollKeeps ==
    ASSUME RenderInv, Scroll
    PROVE  RenderInv'
<1>1. /\ layout' = layout /\ q' = q /\ loaded' = loaded /\ zoom' = zoom /\ location' = location
      /\ timer' = timer /\ down' = down /\ frame' = TRUE /\ top' \in 0..MaxTop(zoom)
  BY DEF Scroll
<1>2. ViewerSound(q', loaded', top', zoom', frame', timer')
  BY <1>1, InvTypes DEF ViewerSound
<1> QED
  BY <1>1, <1>2, InvTypes, NextSound

LEMMA FrameKeeps ==
    ASSUME RenderInv, Frame
    PROVE  RenderInv'
<1>1. /\ layout' = layout /\ loaded' = loaded /\ zoom' = zoom /\ top' = top
      /\ timer' = TRUE /\ frame' = FALSE /\ down' = IF top # lastY THEN top > lastY ELSE down
      /\ Update(q, top, zoom, down')
  BY DEF Frame, bounds
<1>2. down' \in BOOLEAN
  <2>1. (top > lastY) \in BOOLEAN
    BY SMT
  <2>2. down \in BOOLEAN
    BY InvTypes
  <2>3. (IF top # lastY THEN top > lastY ELSE down) \in BOOLEAN
    BY <2>1, <2>2, Zenon
  <2> QED BY <1>1, <2>3
<1>3. /\ q' \in Records /\ ViewsSound(q', loaded) /\ BufferSound(q')
      /\ Visible(top, zoom) # {} => Covered(q', Visible(top, zoom), top, zoom)
      /\ location' \in Pages
  BY <1>1, <1>2, InvTypes, UpdateSound
<1>4. ViewerSound(q', loaded', top', zoom', frame', timer')
  BY <1>1, <1>3 DEF ViewerSound
<1> QED
  BY <1>1, <1>2, <1>3, <1>4, InvTypes, NextSound

LEMMA TimeoutKeeps ==
    ASSUME RenderInv, ScrollTimeout
    PROVE  RenderInv'
<1>1. /\ layout' = layout /\ loaded' = loaded /\ zoom' = zoom /\ top' = top
      /\ timer' = FALSE /\ frame' = frame /\ down' = down
      /\ Update(q, top, zoom, down)
  BY DEF ScrollTimeout, bounds
<1>2. /\ q' \in Records /\ ViewsSound(q', loaded) /\ BufferSound(q')
      /\ Visible(top, zoom) # {} => Covered(q', Visible(top, zoom), top, zoom)
      /\ AllDrawn(q', Visible(top, zoom)) \/ Awaited(q')
      /\ location' \in Pages
  BY <1>1, InvTypes, UpdateSound
<1>3. ViewerSound(q', loaded', top', zoom', frame', timer')
  BY <1>1, <1>2 DEF ViewerSound
<1> QED
  BY <1>1, <1>2, <1>3, InvTypes, NextSound

LEMMA RescaleKeeps ==
    ASSUME RenderInv, Rescale
    PROVE  RenderInv'
<1>0. PICK z \in 1..layout.maxZoom : \E y \in 0..MaxTop(z) :
          /\ zoom' = z /\ top' = y /\ frame' = (frame \/ y # top)
          /\ Update(UpdatePages(q, z), y, z, down)
  BY DEF Rescale
<1>1. PICK y \in 0..MaxTop(z) :
          /\ zoom' = z /\ top' = y /\ frame' = (frame \/ y # top)
          /\ Update(UpdatePages(q, z), y, z, down)
  BY <1>0
<1>2. layout' = layout /\ loaded' = loaded /\ timer' = FALSE /\ down' = down
  BY DEF Rescale
<1>3. z \in Nat \ {0} /\ y \in Nat
  <2>1. z \in Nat \ {0}
    BY InvTypes, LayoutType
  <2> QED BY <2>1, InvTypes, MaxTopType
<1> DEFINE r == UpdatePages(q, z)
<1>4. r \in Records /\ ViewsSound(r, loaded) /\ BufferSound(r)
  BY InvTypes, UpdatePagesSound
<1> HIDE DEF r
<1>5. /\ q' \in Records /\ ViewsSound(q', loaded) /\ BufferSound(q')
      /\ Visible(y, z) # {} => Covered(q', Visible(y, z), y, z)
      /\ AllDrawn(q', Visible(y, z)) \/ Awaited(q')
      /\ location' \in Pages
  <2>1. Update(r, y, z, down)
    BY <1>1 DEF r
  <2> QED BY <1>3, <1>4, <2>1, InvTypes, UpdateSound
<1>6. ViewerSound(q', loaded', top', zoom', frame', timer')
  BY <1>1, <1>2, <1>5 DEF ViewerSound
<1> QED
  BY <1>1, <1>2, <1>5, <1>6, InvTypes, NextSound

\* A page that has just come was not drawn: when the pages S are, it is none
\* of them.
LEMMA NewPage ==
    ASSUME layout \in Layouts, NEW r, NEW L, ViewsSound(r, L), NEW S \in SUBSET Pages,
           AllDrawn(r, S), NEW p \in Pages, p \notin L \cup Broken
    PROVE  p \notin S
<1>1. p \in Views /\ PageOf(p) = p
  BY ViewOfPage
<1> QED
  BY <1>1 DEF AllDrawn, Finished, ViewsSound, ViewSound

\* setPdfPage: page p, which has just come, is blank.
LEMMA SetPdfPageSound ==
    ASSUME layout \in Layouts, NEW r \in Records, NEW L, ViewsSound(r, L), BufferSound(r),
           NEW p \in Pages
    PROVE  LET c == SetPdfPage(r, p)
           IN  /\ c \in Records /\ ViewsSound(c, L \cup {p}) /\ BufferSound(c) /\ Fewer(r, c)
               /\ \A o \in Pages \ {p} : Same(r, c, o) /\ Same(r, c, Detail(o))
               /\ c.state[p] = "initial" /\ c.loads[p] = r.loads[p]
               /\ \A o \in Pages : c.loads[2 * N + o] >= r.loads[2 * N + o]
               /\ r.state[Detail(p)] # "absent" => c.loads[2 * N + p] >= r.loads[Detail(p)]
<1> DEFINE c == Reset(r, {p})
<1>1. SetPdfPage(r, p) = c
  BY DEF SetPdfPage
<1>2. Blanks(r, {p}, c)
  BY ResetBlanks
<1> HIDE DEF c
<1>3. ViewsSound(r, L \cup {p})
  <2> DEFINE M == L \cup {p}
  <2>1. L \subseteq M
    OBVIOUS
  <2> HIDE DEF M
  <2>2. ViewsSound(r, M)
    BY <2>1, MoreLoaded
  <2> QED BY <2>2 DEF M
<1>4. /\ ViewsSound(c, L \cup {p}) /\ Fewer(r, c)
      /\ \A o \in {p} : ~c.canvas[o] /\ ~Asked(c, o)
      /\ \A o \in Pages \ {p} : Same(r, c, o) /\ Same(r, c, Detail(o)) /\ c.area[o] = r.area[o]
  <2> DEFINE M == L \cup {p}
             P == {p}
  <2>1. P \in SUBSET Pages /\ Blanks(r, P, c) /\ ViewsSound(r, M)
    BY <1>2, <1>3
  <2> HIDE DEF M, P
  <2>2. /\ ViewsSound(c, M) /\ Fewer(r, c)
        /\ \A o \in P : ~c.canvas[o] /\ ~Asked(c, o)
        /\ \A o \in Pages \ P : Same(r, c, o) /\ Same(r, c, Detail(o)) /\ c.area[o] = r.area[o]
    BY <2>1, BlankSound
  <2> QED BY <2>2 DEF M, P
<1>5. c \in Records /\ c.buffer = r.buffer /\ c.size = r.size
  BY <1>2 DEF Blanks
<1>6. BufferSound(c)
  <2>1. Held(c)
    BY <1>4, <1>5 DEF Held, BufferSound, Fewer
  <2> QED BY <1>5, <2>1 DEF BufferSound
<1> QED
  BY <1>1, <1>2, <1>4, <1>5, <1>6 DEF Blanks

\* A page that is blank again leaves what is drawn and what is under way.
LEMMA FewerKeeps ==
    ASSUME NEW r, NEW c, Fewer(r, c), NEW S \in SUBSET Pages, NEW y, NEW z, Covered(r, S, y, z)
    PROVE  Covered(c, S, y, z)
BY DEF Fewer, Covered

LEMMA EagerKeeps ==
    ASSUME RenderInv, NEW p \in Pages, EagerPage(p)
    PROVE  RenderInv'
<1> DEFINE c == SetPdfPage(q, p)
           S == Visible(top, zoom)
<1>1. /\ layout' = layout /\ loaded' = loaded \cup {p} /\ zoom' = zoom /\ top' = top
      /\ timer' = timer /\ frame' = frame /\ down' = down /\ location' = location
      /\ q' = c /\ p \notin loaded \cup Broken
  BY DEF EagerPage, scroll, bounds
<1>2. S \in SUBSET Pages
  BY InvTypes
<1> HIDE DEF S
<1>3. /\ c \in Records /\ ViewsSound(c, loaded \cup {p}) /\ BufferSound(c) /\ Fewer(q, c)
      /\ \A o \in Pages \ {p} : Same(q, c, o) /\ Same(q, c, Detail(o))
  BY <1>2, InvTypes, SetPdfPageSound
<1> HIDE DEF c
<1>4. Covered(q, S, top, zoom) => Covered(c, S, top, zoom)
  BY <1>2, <1>3, FewerKeeps
<1>5. ASSUME AllDrawn(q, S)
      PROVE  AllDrawn(c, S)
  <2>1. p \notin S
    BY <1>1, <1>2, <1>5, InvTypes, NewPage
  <2> QED BY <1>2, <1>3, <1>5, <2>1 DEF AllDrawn, Finished, Same
<1>6. Awaited(q) => Awaited(c)
  BY <1>3 DEF Fewer
<1>7. ViewerSound(q', loaded', top', zoom', frame', timer')
  <2>1. /\ ~frame /\ S # {} => Covered(q, S, top, zoom)
        /\ AllDrawn(q, S) \/ frame \/ timer \/ Awaited(q)
    BY DEF RenderInv, ViewerSound, S
  <2>2. /\ ~frame /\ S # {} => Covered(c, S, top, zoom)
        /\ AllDrawn(c, S) \/ frame \/ timer \/ Awaited(c)
    BY <1>4, <1>5, <1>6, <2>1
  <2> QED BY <1>1, <1>3, <2>2 DEF ViewerSound, S
<1> QED
  BY <1>1, <1>7, InvTypes, NextSound

\* One waiting for page p less.
LEMMA LessLoads ==
    ASSUME layout \in Layouts, NEW r \in Records, NEW L, ViewsSound(r, L), BufferSound(r),
           NEW v \in 1..(3 * N), r.loads[v] > 0
    PROVE  LET c == [r EXCEPT !.loads[v] = @ - 1]
           IN  /\ c \in Records /\ ViewsSound(c, L) /\ BufferSound(c)
               /\ c.state = r.state /\ c.task = r.task /\ c.area = r.area /\ c.canvas = r.canvas
               /\ c.kicks = r.kicks /\ c.priority = r.priority
               /\ \A u \in 1..(3 * N) : u # v => c.loads[u] = r.loads[u]
               /\ \A p \in Pages : Asked(c, p) => Asked(r, p)
<1> DEFINE loads == [r.loads EXCEPT ![v] = r.loads[v] - 1]
           c == [r EXCEPT !.loads = loads]
<1>0. c = [r EXCEPT !.loads[v] = @ - 1]
  BY DEF Records
<1>1. /\ loads \in [1..(3 * N) -> Nat]
      /\ \A u \in 1..(3 * N) : u # v => loads[u] = r.loads[u]
      /\ loads[v] = r.loads[v] - 1
  <2> DEFINE M == 1..(3 * N)
             f == r.loads
  <2>1. v \in M /\ f \in [M -> Nat] /\ f[v] > 0
    BY FieldTypes
  <2> HIDE DEF M, f
  <2>2. /\ [f EXCEPT ![v] = f[v] - 1] \in [M -> Nat] /\ [f EXCEPT ![v] = f[v] - 1][v] = f[v] - 1
        /\ \A u \in M : u # v => [f EXCEPT ![v] = f[v] - 1][u] = f[u]
    BY <2>1
  <2> QED BY <2>2 DEF M, f
<1>2. r.loads[v] \in Nat
  BY FieldTypes
<1> HIDE DEF loads
<1>3. c \in Records
  BY <1>1 DEF Records
<1>4. /\ c.state = r.state /\ c.task = r.task /\ c.canvas = r.canvas /\ c.prev = r.prev
      /\ c.area = r.area /\ c.buffer = r.buffer /\ c.size = r.size /\ c.loads = loads
      /\ c.kicks = r.kicks /\ c.priority = r.priority
  BY DEF Records
<1> HIDE DEF c
<1>5. ViewsSound(c, L)
  <2> SUFFICES ASSUME NEW u \in Views
               PROVE  ViewSound(c, L, u)
    BY DEF ViewsSound
  <2>1. ViewSound(r, L, u) /\ u \in 1..(3 * N)
    BY ViewOfPage DEF ViewsSound
  <2>2. r.state[u] = "absent" => c.loads[u] = 0
    BY <1>1, <1>2, <1>4, <2>1 DEF ViewSound
  <2> QED BY <1>4, <2>1, <2>2 DEF ViewSound
<1>6. ASSUME NEW p \in Pages, Asked(c, p)
      PROVE  Asked(r, p)
  <2>1. Detail(p) \in 1..(3 * N)
    BY ViewOfPage
  <2> QED BY <1>1, <1>2, <1>4, <1>6, <2>1 DEF Asked
<1>7. BufferSound(c)
  BY <1>4, <1>6 DEF BufferSound, Held
<1> QED
  BY <1>0, <1>1, <1>3, <1>4, <1>5, <1>6, <1>7

LEMMA LoadedKeeps ==
    ASSUME RenderInv, NEW v \in 1..(3 * N), PageLoaded(v)
    PROVE  RenderInv'
<1> DEFINE p == PageOf(v)
           first == p \notin loaded /\ p \notin Broken
           u == IF first /\ v = Detail(p) THEN 2 * N + p ELSE v
           asked == [q EXCEPT !.loads[v] = @ - 1]
           r == IF first THEN SetPdfPage(asked, p) ELSE asked
           c == RenderView(r, u, p \notin Broken, zoom)
           L == IF first THEN loaded \cup {p} ELSE loaded
           S == Visible(top, zoom)
<1>1. /\ layout' = layout /\ loaded' = L /\ zoom' = zoom /\ top' = top
      /\ timer' = timer /\ frame' = frame /\ down' = down /\ location' = location
      /\ q' = c /\ q.loads[v] > 0
  BY DEF PageLoaded, scroll, bounds
<1>2. S \in SUBSET Pages /\ layout \in Layouts
  BY InvTypes
<1>3. /\ p \in Pages /\ p \in 1..(3 * N) /\ 2 * N + p \in 1..(3 * N) /\ PageOf(2 * N + p) = p
      /\ Detail(p) \in Views /\ 2 * N + p > 2 * N /\ p \in Views
      /\ v = p \/ v = Detail(p) \/ v = 2 * N + p
      /\ v \in Views <=> ~(v > 2 * N)
      /\ p # Detail(p) /\ p # 2 * N + p /\ Detail(p) # 2 * N + p
      /\ ~(p > 2 * N) /\ ~(Detail(p) > 2 * N)
  BY <1>2, ViewOfPage
<1>4. /\ asked \in Records /\ ViewsSound(asked, loaded) /\ BufferSound(asked)
      /\ asked.state = q.state /\ asked.task = q.task /\ asked.area = q.area
      /\ asked.canvas = q.canvas /\ asked.kicks = q.kicks /\ asked.priority = q.priority
      /\ \A o \in 1..(3 * N) : o # v => asked.loads[o] = q.loads[o]
      /\ \A o \in Pages : Asked(asked, o) => Asked(q, o)
  BY <1>1, InvTypes, LessLoads
<1> HIDE DEF S, asked, p
<1>5. /\ r \in Records /\ ViewsSound(r, L) /\ BufferSound(r)
      /\ \A o \in Pages : /\ Asked(r, o) => Asked(q, o)
                          /\ r.state[Detail(o)] # "absent"
                                => q.state[Detail(o)] # "absent" /\ r.area[o] = q.area[o]
  <2>1. CASE first
    <3> DEFINE x == SetPdfPage(asked, p)
    <3>1. /\ x \in Records /\ ViewsSound(x, loaded \cup {p}) /\ BufferSound(x) /\ Fewer(asked, x)
      BY <1>2, <1>3, <1>4, SetPdfPageSound
    <3>2. r = x /\ L = loaded \cup {p}
      BY <2>1
    <3> HIDE DEF x, r, L, first
    <3> QED BY <1>4, <3>1, <3>2 DEF Fewer
  <2>2. CASE ~first
    BY <1>4, <2>2
  <2> QED BY <2>1, <2>2
<1>6. /\ u \in 1..(3 * N) /\ PageOf(u) = p
      /\ ~(u > 2 * N) => r.state[u] # "absent"
      /\ p \notin Broken => p \in L
      /\ u = Detail(p) => u = v /\ ~first
  <2>1. q.state[v] = "absent" => v > 2 * N
    BY <1>1, <1>3, InvTypes DEF ViewsSound, ViewSound
  <2>2. CASE first
    <3>1. r.state[p] = "initial"
      BY <1>2, <1>3, <1>4, <2>2, SetPdfPageSound
    <3> QED BY <1>3, <2>2, <3>1 DEF p
  <2>3. CASE ~first
    BY <1>3, <1>4, <2>1, <2>3 DEF p
  <2> QED BY <2>2, <2>3
<1> DEFINE hasPage == p \notin Broken
<1>7. Soundly(L, c) /\ DrawsView(r, c, u, hasPage)
  <2> HIDE DEF r, u, L, c
  <2>1. hasPage \in BOOLEAN /\ c = RenderView(r, u, hasPage, zoom)
    BY DEF c
  <2>2. hasPage => PageOf(u) \in L
    BY <1>6
  <2>3. ~hasPage => PageOf(u) \in Broken
    BY <1>6
  <2> HIDE DEF hasPage
  <2> QED BY <1>2, <1>5, <1>6, <2>1, <2>2, <2>3, RenderViewSound
<1> HIDE DEF c
<1>8. ASSUME Covered(q, S, top, zoom)
      PROVE  Covered(c, S, top, zoom)
  <2> SUFFICES ASSUME NEW o \in Pages
               PROVE  /\ Asked(c, o) => o \in S
                      /\ o \in S /\ c.state[Detail(o)] # "absent" => Covers(c.area[o], o, top, zoom)
    BY DEF Covered
  <2>1. c.state[Detail(o)] # "absent" => q.state[Detail(o)] # "absent" /\ c.area[o] = q.area[o]
    <3> HIDE DEF r
    <3> QED BY <1>5, <1>7 DEF DrawsView
  <2>2. Asked(c, o) => Asked(q, o)
    <3>1. CASE u = Detail(o) /\ hasPage
      <4>1. v = Detail(o) /\ o = p
        BY <1>2, <1>3, <1>6, <3>1, ViewOfPage
      <4> QED BY <1>1, <3>1, <4>1 DEF Asked
    <3>2. CASE ~(u = Detail(o) /\ hasPage)
      <4> HIDE DEF r, u
      <4> QED BY <1>5, <1>7, <3>2 DEF DrawsView
    <3> QED BY <3>1, <3>2
  <2> QED BY <1>8, <2>1, <2>2 DEF Covered
<1>9. ASSUME AllDrawn(q, S) \/ Awaited(q)
      PROVE  AllDrawn(c, S) \/ Awaited(c)
  <2>1. CASE u > 2 * N \/ r.state[u] # "finished"
    <3> HIDE DEF r, u
    <3> QED BY <1>7, <2>1 DEF DrawsView
  <2>2. CASE ~(u > 2 * N \/ r.state[u] # "finished")
    <3>1. c = r
      <4> HIDE DEF r, u
      <4> QED BY <1>7, <2>2 DEF DrawsView
    <3>2. ~first
      <4> SUFFICES ASSUME first
                   PROVE  FALSE
        OBVIOUS
      <4>1. r.state[p] = "initial"
        BY <1>2, <1>3, <1>4, SetPdfPageSound
      <4>2. u = p \/ u > 2 * N
        BY <1>3
      <4> QED BY <2>2, <4>1, <4>2
    <3>3. c = asked /\ u = v
      BY <3>1, <3>2
    <3>4. q.state[v] = "finished" /\ ~(v > 2 * N)
      BY <1>4, <2>2, <3>2, <3>3
    <3>5. AllDrawn(q, S) => AllDrawn(asked, S)
      BY <1>4 DEF AllDrawn, Finished
    <3>6. Awaited(q) => Awaited(asked)
      BY <1>4, <3>4 DEF Awaited
    <3> QED BY <1>9, <3>3, <3>5, <3>6
  <2> QED BY <2>1, <2>2
<1>10. ViewerSound(q', loaded', top', zoom', frame', timer')
  <2>1. /\ ~frame /\ S # {} => Covered(q, S, top, zoom)
        /\ AllDrawn(q, S) \/ frame \/ timer \/ Awaited(q)
    BY DEF RenderInv, ViewerSound, S
  <2>2. /\ ~frame /\ S # {} => Covered(c, S, top, zoom)
        /\ AllDrawn(c, S) \/ frame \/ timer \/ Awaited(c)
    BY <1>8, <1>9, <2>1
  <2>3. c \in Records /\ ViewsSound(c, L) /\ BufferSound(c)
    BY <1>7 DEF Soundly
  <2>4. q' = c /\ loaded' = L /\ top' = top /\ zoom' = zoom /\ frame' = frame /\ timer' = timer
    BY <1>1 DEF c
  <2> HIDE DEF L
  <2> QED BY <2>2, <2>3, <2>4 DEF ViewerSound, S
<1> QED
  BY <1>1, <1>10, InvTypes, NextSound

LEMMA PauseKeeps ==
    ASSUME RenderInv, NEW v \in Views, Pause(v)
    PROVE  RenderInv'
<1> DEFINE states == [q.state EXCEPT ![v] = "paused"]
           tasks == [q.task EXCEPT ![v] = "held"]
           c == [q EXCEPT !.task = tasks, !.state = states]
           S == Visible(top, zoom)
<1>1. /\ layout' = layout /\ loaded' = loaded /\ zoom' = zoom /\ top' = top
      /\ timer' = timer /\ frame' = frame /\ down' = down /\ location' = location
      /\ q.task[v] = "going" /\ q.priority # v
      /\ q' = [q EXCEPT !.task[v] = "held", !.state[v] = "paused"]
  BY DEF Pause, scroll, bounds
<1>2. /\ q \in Records /\ ViewsSound(q, loaded) /\ BufferSound(q) /\ S \in SUBSET Pages
      /\ layout \in Layouts
  BY InvTypes
<1>3. q' = c
  BY <1>1, <1>2 DEF Records
<1>4. /\ states \in [Views -> States] /\ tasks \in [Views -> {"none", "going", "held"}]
      /\ \A u \in Views : /\ states[u] = IF u = v THEN "paused" ELSE q.state[u]
                          /\ tasks[u] = IF u = v THEN "held" ELSE q.task[u]
  BY <1>2, FieldTypes DEF States
<1> HIDE DEF states, tasks, S
<1>5. c \in Records
  BY <1>2, <1>4 DEF Records
<1>6. /\ c.state = states /\ c.task = tasks /\ c.canvas = q.canvas /\ c.prev = q.prev
      /\ c.area = q.area /\ c.buffer = q.buffer /\ c.size = q.size /\ c.loads = q.loads
      /\ c.priority = q.priority /\ c.kicks = q.kicks
  BY <1>2 DEF Records
<1> HIDE DEF c
<1>7. ViewSound(q, loaded, v) /\ q.state[v] = "running"
  <2>1. ViewSound(q, loaded, v)
    BY <1>2 DEF ViewsSound
  <2> QED BY <1>1, <2>1 DEF ViewSound
<1>8. ASSUME NEW u \in Views
      PROVE  ViewSound(c, loaded, u)
  <2>1. ViewSound(q, loaded, u)
    BY <1>2 DEF ViewsSound
  <2>2. CASE u = v
    BY <1>1, <1>4, <1>6, <2>1, <2>2 DEF ViewSound
  <2>3. CASE u # v
    BY <1>4, <1>6, <2>1, <2>3 DEF ViewSound
  <2> QED BY <2>2, <2>3
<1>9. BufferSound(c)
  BY <1>2, <1>6 DEF BufferSound, Held, Asked
<1>10. \A p \in Pages : p \in Views /\ Detail(p) \in Views
  BY <1>2, ViewOfPage
<1>11. Covered(q, S, top, zoom) => Covered(c, S, top, zoom)
  BY <1>4, <1>6, <1>7, <1>10 DEF Covered, Asked
<1>12. AllDrawn(q, S) => AllDrawn(c, S)
  BY <1>2, <1>4, <1>6, <1>7, <1>10 DEF AllDrawn, Finished
<1>13. ASSUME Awaited(q)
       PROVE  Awaited(c)
  <2>1. \A u \in Views : q.task[u] = "going" /\ q.priority = u => c.task[u] = "going" /\ c.priority = u
    BY <1>1, <1>4, <1>6
  <2>2. \A u \in 1..(3 * N) : ~(u > 2 * N) => u \in Views
    BY <1>2, ViewOfPage
  <2>3. \A u \in Views : q.state[u] # "finished" => c.state[u] # "finished"
    BY <1>4, <1>6
  <2> QED BY <1>6, <1>13, <2>1, <2>2, <2>3 DEF Awaited
<1>14. ViewerSound(q', loaded', top', zoom', frame', timer')
  <2>1. /\ ~frame /\ S # {} => Covered(q, S, top, zoom)
        /\ AllDrawn(q, S) \/ frame \/ timer \/ Awaited(q)
    BY DEF RenderInv, ViewerSound, S
  <2>2. /\ ~frame /\ S # {} => Covered(c, S, top, zoom)
        /\ AllDrawn(c, S) \/ frame \/ timer \/ Awaited(c)
    BY <1>11, <1>12, <1>13, <2>1
  <2> QED BY <1>1, <1>3, <1>5, <1>8, <1>9, <2>2 DEF ViewerSound, ViewsSound, S
<1> QED
  BY <1>1, <1>14, InvTypes, NextSound

LEMMA EndKeeps ==
    ASSUME RenderInv, NEW v \in Views, EndDrawing(v)
    PROVE  RenderInv'
<1> DEFINE states == [q.state EXCEPT ![v] = "finished"]
           tasks == [q.task EXCEPT ![v] = "none"]
           prevs == [q.prev EXCEPT ![v] = FALSE]
           more == q.kicks + 1
           c == [q EXCEPT !.task = tasks, !.state = states, !.prev = prevs, !.kicks = more]
           S == Visible(top, zoom)
<1>1. /\ layout' = layout /\ loaded' = loaded /\ zoom' = zoom /\ top' = top
      /\ timer' = timer /\ frame' = frame /\ down' = down /\ location' = location
      /\ q.task[v] = "going"
      /\ q' = [q EXCEPT !.task[v] = "none", !.state[v] = "finished", !.prev[v] = FALSE,
                        !.kicks = @ + 1]
  BY DEF EndDrawing, scroll, bounds
<1>2. /\ q \in Records /\ ViewsSound(q, loaded) /\ BufferSound(q) /\ S \in SUBSET Pages
      /\ layout \in Layouts
  BY InvTypes
<1>3. q' = c
  BY <1>1, <1>2 DEF Records
<1>4. /\ states \in [Views -> States] /\ tasks \in [Views -> {"none", "going", "held"}]
      /\ \A u \in Views : /\ states[u] = IF u = v THEN "finished" ELSE q.state[u]
                          /\ tasks[u] = IF u = v THEN "none" ELSE q.task[u]
  BY <1>2, FieldTypes DEF States
<1>5. /\ prevs \in [Views -> BOOLEAN] /\ ~prevs[v]
      /\ \A u \in Views : u # v => prevs[u] = q.prev[u]
  BY <1>2, FieldTypes
<1>6. more \in Nat /\ more > 0
  BY <1>2, FieldTypes
<1> HIDE DEF states, tasks, prevs, more, S
<1>7. c \in Records
  BY <1>2, <1>4, <1>5, <1>6 DEF Records
<1>8. /\ c.state = states /\ c.task = tasks /\ c.canvas = q.canvas /\ c.prev = prevs
      /\ c.area = q.area /\ c.buffer = q.buffer /\ c.size = q.size /\ c.loads = q.loads
      /\ c.kicks = more
  BY <1>2 DEF Records
<1> HIDE DEF c
<1>9. ASSUME NEW u \in Views
      PROVE  ViewSound(c, loaded, u)
  <2>1. ViewSound(q, loaded, u)
    BY <1>2 DEF ViewsSound
  <2>2. CASE u = v
    BY <1>1, <1>4, <1>8, <2>1, <2>2 DEF ViewSound
  <2>3. CASE u # v
    BY <1>4, <1>5, <1>8, <2>1, <2>3 DEF ViewSound
  <2> QED BY <2>2, <2>3
<1>10. \A p \in Pages : p \in Views /\ Detail(p) \in Views
  BY <1>2, ViewOfPage
<1>11. \A p \in Pages : Asked(c, p) => Asked(q, p)
  BY <1>5, <1>8, <1>10 DEF Asked
<1>12. BufferSound(c)
  BY <1>2, <1>8, <1>11 DEF BufferSound, Held
<1>13. Covered(q, S, top, zoom) => Covered(c, S, top, zoom)
  <2>1. q.state[v] # "absent"
    BY <1>1, <1>2 DEF ViewsSound, ViewSound
  <2> QED BY <1>4, <1>8, <1>10, <1>11, <2>1 DEF Covered
<1>14. Awaited(c)
  BY <1>6, <1>8 DEF Awaited
<1>15. ViewerSound(q', loaded', top', zoom', frame', timer')
  <2>1. ~frame /\ S # {} => Covered(q, S, top, zoom)
    BY DEF RenderInv, ViewerSound, S
  <2>2. ~frame /\ S # {} => Covered(c, S, top, zoom)
    BY <1>13, <2>1
  <2> QED BY <1>1, <1>3, <1>7, <1>9, <1>12, <1>14, <2>2 DEF ViewerSound, ViewsSound, S
<1> QED
  BY <1>1, <1>15, InvTypes, NextSound

LEMMA KickKeeps ==
    ASSUME RenderInv, Kick
    PROVE  RenderInv'
<1> DEFINE less == q.kicks - 1
           r == [q EXCEPT !.kicks = less]
           S == Visible(top, zoom)
           c == ForceRendering(r, S, top, zoom, down)
<1>1. /\ layout' = layout /\ loaded' = loaded /\ zoom' = zoom /\ top' = top
      /\ timer' = timer /\ frame' = frame /\ down' = down /\ location' = location
      /\ q.kicks > 0
  BY DEF Kick, scroll, bounds
<1>2. /\ q \in Records /\ ViewsSound(q, loaded) /\ BufferSound(q) /\ S \in SUBSET Pages
      /\ layout \in Layouts
  BY InvTypes
<1>3. q' = c
  <2>1. r = [q EXCEPT !.kicks = @ - 1]
    BY <1>2 DEF Records
  <2> HIDE DEF r
  <2> QED BY <2>1 DEF Kick
<1>4. less \in Nat
  BY <1>1, <1>2, FieldTypes
<1> HIDE DEF less, S
<1>5. r \in Records
  BY <1>2, <1>4 DEF Records
<1>6. /\ r.state = q.state /\ r.task = q.task /\ r.canvas = q.canvas /\ r.prev = q.prev
      /\ r.area = q.area /\ r.buffer = q.buffer /\ r.size = q.size /\ r.loads = q.loads
  BY <1>2 DEF Records
<1> HIDE DEF r
<1>7. ViewsSound(r, loaded) /\ BufferSound(r)
  BY <1>2, <1>6 DEF ViewsSound, ViewSound, BufferSound, Held, Asked
<1>8. Covered(q, S, top, zoom) => Covered(r, S, top, zoom)
  BY <1>6 DEF Covered, Asked
<1>9. /\ c \in Records /\ ViewsSound(c, loaded) /\ BufferSound(c)
      /\ Covered(r, S, top, zoom) => Covered(c, S, top, zoom)
      /\ AllDrawn(c, S) \/ Awaited(c)
  BY <1>2, <1>5, <1>7, InvTypes, ForceRenderingSound
<1> HIDE DEF c
<1>10. ViewerSound(q', loaded', top', zoom', frame', timer')
  <2>1. ~frame /\ S # {} => Covered(q, S, top, zoom)
    BY DEF RenderInv, ViewerSound, S
  <2>2. ~frame /\ S # {} => Covered(c, S, top, zoom)
    BY <1>8, <1>9, <2>1
  <2> QED BY <1>1, <1>3, <1>9, <2>2 DEF ViewerSound, S
<1> QED
  BY <1>1, <1>10, InvTypes, NextSound

\* At the start no view has a canvas, and no page a detail view.
LEMMA InitSound ==
    ASSUME RenderInit
    PROVE  RenderInv
<1>1. /\ layout \in Layouts /\ frame = FALSE /\ timer = TRUE /\ down = TRUE
      /\ zoom = 1 /\ top = 0 /\ location = 1
  BY DEF RenderInit
<1> DEFINE none == [v \in Views |-> FALSE]
           states == [v \in Views |-> IF v > N THEN "absent" ELSE "initial"]
           tasks == [v \in Views |-> "none"]
           asks == [v \in 1..(3 * N) |-> 0]
           areas == [p \in Pages |-> <<>>]
<1>2. q = [state |-> states, task |-> tasks,
           canvas |-> none, prev |-> none,
           capped |-> [p \in Pages |-> FALSE], area |-> areas,
           buffer |-> <<>>, size |-> DefaultCacheSize,
           loads |-> asks, kicks |-> 0, priority |-> 0]
  BY DEF RenderInit
<1>3. states \in [Views -> States] /\ tasks \in [Views -> {"none", "going", "held"}]
  BY DEF States
<1>4. none \in [Views -> BOOLEAN] /\ [p \in Pages |-> FALSE] \in [Pages -> BOOLEAN]
  OBVIOUS
<1>5. asks \in [1..(3 * N) -> Nat] /\ areas \in [Pages -> Spans]
  BY DEF Spans
<1>6. DefaultCacheSize \in Nat \ {0} /\ <<>> \in Seq(Pages) /\ Len(<<>>) = 0
  BY RenderingAssumption
<1>7. 0 \in 0..(2 * N)
  BY <1>1, LayoutType
<1>8. /\ \A v \in Views : states[v] = IF v > N THEN "absent" ELSE "initial"
      /\ \A v \in Views : tasks[v] = "none" /\ none[v] = FALSE
      /\ \A v \in Views : v \in 1..(3 * N)
      /\ \A v \in 1..(3 * N) : asks[v] = 0
      /\ \A p \in Pages : p \in Views /\ Detail(p) \in Views /\ Detail(p) > N /\ Detail(p) \in 1..(3 * N)
  BY <1>1, ViewOfPage
<1> HIDE DEF states, tasks, none, asks, areas
<1>9. q \in Records
  BY <1>2, <1>3, <1>4, <1>5, <1>6, <1>7 DEF Records
<1>10. /\ q.state = states /\ q.task = tasks /\ q.canvas = none /\ q.prev = none
       /\ q.buffer = <<>> /\ q.size = DefaultCacheSize /\ q.loads = asks
  BY <1>2
<1>11. ViewsSound(q, loaded)
  BY <1>8, <1>10 DEF ViewsSound, ViewSound
<1>12. \A p \in Pages : ~q.canvas[p] /\ ~Asked(q, p) /\ q.state[Detail(p)] = "absent"
  BY <1>8, <1>10 DEF Asked
<1>13. BufferSound(q)
  <2>1. Distinct(<<>>)
    BY <1>6 DEF Distinct
  <2> QED BY <1>6, <1>10, <1>12, <2>1 DEF BufferSound, Held
<1>14. Covered(q, Visible(top, zoom), top, zoom)
  BY <1>12 DEF Covered
<1>15. ViewerSound(q, loaded, top, zoom, frame, timer)
  BY <1>1, <1>9, <1>11, <1>13, <1>14 DEF ViewerSound
<1>16. 1 \in 1..layout.maxZoom /\ 1 \in Pages /\ 0 \in 0..MaxTop(1)
  <2>1. MaxTop(1) \in Nat
    BY <1>1, MaxTopType
  <2> QED BY <1>1, <2>1, LayoutType
<1> QED
  BY <1>1, <1>15, <1>16 DEF RenderInv, ControlSound

LEMMA NextKeeps ==
    ASSUME RenderInv, [RenderNext]_renderVars
    PROVE  RenderInv'
<1>1. CASE UNCHANGED renderVars
  <2>1. /\ layout' = layout /\ loaded' = loaded /\ zoom' = zoom /\ top' = top /\ q' = q
        /\ timer' = timer /\ frame' = frame /\ down' = down /\ location' = location
    BY <1>1 DEF renderVars, scroll
  <2>2. ViewerSound(q', loaded', top', zoom', frame', timer')
    BY <2>1 DEF RenderInv, ViewerSound
  <2> QED BY <2>1, <2>2, InvTypes, NextSound
<1>2. CASE \E v \in 1..(3 * N) : PageLoaded(v)
  BY <1>2, LoadedKeeps
<1>3. CASE \E p \in Pages : EagerPage(p)
  BY <1>3, EagerKeeps
<1>4. CASE \E v \in Views : Pause(v) \/ EndDrawing(v)
  BY <1>4, PauseKeeps, EndKeeps
<1> QED
  BY <1>1, <1>2, <1>3, <1>4, ScrollKeeps, FrameKeeps, TimeoutKeeps, RescaleKeeps, KickKeeps
     DEF RenderNext

LEMMA RenderInvariant == RenderSpec => []RenderInv
<1>1. RenderInit => RenderInv
  BY InitSound
<1>2. RenderInv /\ [RenderNext]_renderVars => RenderInv'
  BY NextKeeps
<1> QED BY <1>1, <1>2, PTL DEF RenderSpec

-----------------------------------------------------------------------------
(***************************************************************************)
(* Rendering: the theorems.                                                *)
(***************************************************************************)

\* A view's state is what its drawing does, however it is cancelled, paused,
\* reset or dropped (BasePDFPageView, PDFPageView and PDFPageDetailView of
\* pdf_viewer.mjs), and the view stays on the document.
THEOREM RenderTypeCorrect == RenderSpec => []RenderTypeOK
<1>1. RenderInv => RenderTypeOK
  <2> SUFFICES ASSUME RenderInv
               PROVE  RenderTypeOK
    OBVIOUS
  <2>1. q \in Records /\ ViewsSound(q, loaded)
    BY InvTypes
  <2>2. /\ DOMAIN q.state = Views /\ DOMAIN q.area = Pages /\ q.kicks \in Nat
        /\ \A v \in 1..(3 * N) : q.loads[v] \in Nat
        /\ \A v \in Views : q.state[v] \in States
    BY <2>1, FieldTypes
  <2>3. ASSUME NEW v \in Views
        PROVE  /\ q.state[v] \in {"absent", "initial", "running", "paused", "finished"}
               /\ q.state[v] = "absent" => v > N /\ ~q.canvas[v]
               /\ q.task[v] = CASE q.state[v] = "running" -> "going"
                                [] q.state[v] = "paused" -> "held"
                                [] OTHER -> "none"
               /\ q.task[v] # "none" => q.canvas[v] /\ PageOf(v) \in loaded
    BY <2>1, <2>2 DEF ViewsSound, ViewSound, States
  <2>4. top \in 0..MaxTop(zoom) /\ location \in Pages /\ zoom \in 1..layout.maxZoom
    BY InvTypes
  <2> QED BY <2>2, <2>3, <2>4 DEF RenderTypeOK
<1> QED BY <1>1, RenderInvariant, PTL

\* A sequence without repetition is as long as it has elements.
LEMMA DistinctLength ==
    ASSUME NEW P, NEW b \in Seq(P), Distinct(b)
    PROVE  Len(b) = Cardinality(ToSet(b))
<1> DEFINE n == Len(b)
           T == ToSet(b)
<1>1. n \in Nat /\ b \in [1..n -> P]
  OBVIOUS
<1>2. \A x : x \in T <=> \E i \in 1..n : b[i] = x
  BY Elements
<1> HIDE DEF n, T
<1>3. b \in [1..n -> T]
  BY <1>1, <1>2
<1>4. \A i, j \in 1..n : b[i] = b[j] => i = j
  BY DEF Distinct, n
<1>5. b \in Bijection(1..n, T)
  BY <1>2, <1>3, <1>4 DEF Bijection, Injection, Surjection, IsInjective
<1>6. ExistsBijection(1..n, T)
  BY <1>5 DEF ExistsBijection
<1> QED
  BY <1>1, <1>6, FS_CountingElements DEF n, T

\* The canvases are those of the pages in the buffer, whose size bounds them,
\* whatever is scrolled, zoomed, cancelled or comes late (PDFPageViewBuffer,
\* and reset, draw and updateVisibleArea of the views, in pdf_viewer.mjs).
THEOREM CanvasesBuffered == RenderSpec => []CanvasesInBuffer
<1>1. RenderInv => CanvasesInBuffer
  <2> SUFFICES ASSUME RenderInv
               PROVE  CanvasesInBuffer
    OBVIOUS
  <2>1. q \in Records /\ BufferSound(q)
    BY InvTypes
  <2>2. q.buffer \in Seq(Pages) /\ Distinct(q.buffer)
    BY <2>1, FieldTypes DEF BufferSound
  <2>3. Len(q.buffer) = Cardinality(ToSet(q.buffer))
    BY <2>2, DistinctLength
  <2> QED BY <2>1, <2>3 DEF BufferSound, Held, Asked, CanvasesInBuffer
<1> QED BY <1>1, RenderInvariant, PTL

\* Once the frame of a scroll has run, what the view shows of a page that has
\* a detail view is within its area (updateVisibleArea, #shouldRenderDifferentArea
\* and reset of PDFPageDetailView in pdf_viewer.mjs).
THEOREM DetailsCover == RenderSpec => []DetailCovers
<1>1. RenderInv => DetailCovers
  <2> SUFFICES ASSUME RenderInv, ~frame, Visible(top, zoom) # {}, NEW p \in Pages
               PROVE  /\ q.canvas[Detail(p)] => p \in Visible(top, zoom)
                      /\ q.state[Detail(p)] # "absent" /\ p \in Visible(top, zoom) =>
                           /\ q.area[p].zoom = zoom
                           /\ q.area[p].from <= Area(p, top, zoom)[1]
                           /\ Area(p, top, zoom)[2] <= q.area[p].to
    BY DEF DetailCovers
  <2>1. Covered(q, Visible(top, zoom), top, zoom)
    BY DEF RenderInv, ViewerSound
  <2> QED BY <2>1 DEF Covered, Covers, Asked
<1> QED BY <1>1, RenderInvariant, PTL

\* When nothing is under way any more, all that is to be seen is drawn: no
\* cancelled, paused, dropped or late drawing ends without one who asks for
\* what is next (renderHighestPriority, renderView and the views' draw in
\* pdf_viewer.mjs).
THEOREM RestsAllDrawn == RenderSpec => []RestsDrawn
<1>1. RenderInv => RestsDrawn
  <2> SUFFICES ASSUME RenderInv, ~frame, ~timer, q.kicks = 0,
                      \A v \in 1..(3 * N) : q.loads[v] = 0,
                      \A v \in Views : q.task[v] # "going"
               PROVE  \A p \in Visible(top, zoom) :
                        Finished(q, p) /\ q.state[Detail(p)] \in {"absent", "finished"}
    BY DEF RestsDrawn
  <2>1. ~Awaited(q)
    BY DEF Awaited
  <2>2. AllDrawn(q, Visible(top, zoom))
    BY <2>1 DEF RenderInv, ViewerSound
  <2> QED BY <2>2 DEF AllDrawn
<1> QED BY <1>1, RenderInvariant, PTL

-----------------------------------------------------------------------------
(***************************************************************************)
(* Rendering: the visible pages.                                           *)
(***************************************************************************)

\* One round of the binary search.
Narrowed(y, z, g, n) ==
    IF n = 0 THEN [min |-> 1, max |-> N]
    ELSE LET i == g[n - 1]
             mid == (i.min + i.max) \div 2
         IN  IF i.min >= i.max THEN i
             ELSE IF Bottom(mid, z) > y THEN [min |-> i.min, max |-> mid]
                  ELSE [min |-> mid + 1, max |-> i.max]

\* Up to any n there is a function that takes these rounds.
LEMMA NarrowedExists ==
    ASSUME NEW y, NEW z, NEW n \in Nat
    PROVE  \E g : g = [i \in 0..n |-> Narrowed(y, z, g, i)]
<1> DEFINE T == {m \in Nat : \E g : g = [i \in 0..m |-> Narrowed(y, z, g, i)]}
<1>1. 0 \in T
  <2> DEFINE g == [i \in 0..0 |-> [min |-> 1, max |-> N]]
  <2>1. g = [i \in 0..0 |-> Narrowed(y, z, g, i)]
    BY DEF Narrowed
  <2> QED
    BY <2>1
<1>2. ASSUME NEW m \in T
      PROVE  m + 1 \in T
  <2>1. PICK g : g = [i \in 0..m |-> Narrowed(y, z, g, i)]
    OBVIOUS
  <2> DEFINE h == [i \in 0..(m + 1) |-> IF i <= m THEN g[i] ELSE Narrowed(y, z, g, i)]
  <2>2. \A i \in 0..(m + 1) : Narrowed(y, z, h, i) = Narrowed(y, z, g, i)
    <3> TAKE i \in 0..(m + 1)
    <3>1. i # 0 => i - 1 \in 0..(m + 1) /\ i - 1 <= m
      OBVIOUS
    <3>2. i # 0 => h[i - 1] = g[i - 1]
      BY <3>1
    <3> HIDE DEF h
    <3> QED
      BY <3>2 DEF Narrowed
  <2>3. \A i \in 0..(m + 1) : i <= m => i \in 0..m
    OBVIOUS
  <2>4. \A i \in 0..m : g[i] = Narrowed(y, z, g, i)
    BY <2>1
  <2>5. \A i \in 0..(m + 1) : h[i] = Narrowed(y, z, h, i)
    BY <2>2, <2>3, <2>4
  <2>6. h = [i \in 0..(m + 1) |-> Narrowed(y, z, h, i)]
    BY <2>5
  <2>7. m + 1 \in Nat
    OBVIOUS
  <2> QED
    BY <2>6, <2>7
<1>3. T = Nat
  <2> HIDE DEF T
  <2>1. T \in SUBSET Nat
    BY DEF T
  <2> QED
    BY <1>1, <1>2, <2>1, NumberInduction
<1> QED
  BY <1>3

\* The search ends with a page that reaches below y, when one does, and the
\* one before it does not.
LEMMA FirstBelowFound ==
    ASSUME layout \in Layouts, NEW z \in Nat \ {0}, NEW y \in Nat
    PROVE  LET i == FirstBelow(y, z)
           IN  /\ i \in 1..(N + 1)
               /\ i = N + 1 => ~(Bottom(N, z) > y)
               /\ i # N + 1 => Bottom(i, z) > y
               /\ i # N + 1 /\ i # 1 => ~(Bottom(i - 1, z) > y)
<1> DEFINE n == N
           g == CHOOSE g : g = [i \in 0..N |-> Narrowed(y, z, g, i)]
<1>1. n \in Nat \ {0} /\ Pages = 1..n
  BY LayoutType
<1>2. g = [i \in 0..n |-> Narrowed(y, z, g, i)]
  BY <1>1, NarrowedExists
<1>3. FirstBelow(y, z) = CASE ~(Bottom(n, z) > y) -> n + 1
                           [] Bottom(n, z) > y /\ Bottom(1, z) > y -> 1
                           [] OTHER -> g[n].min
  BY DEF FirstBelow, Narrowed
<1> HIDE DEF g
<1>4. \A i \in 0..n : g[i] = Narrowed(y, z, g, i)
  BY <1>2
<1>5. CASE ~(Bottom(n, z) > y)
  BY <1>1, <1>3, <1>5
<1>6. CASE Bottom(n, z) > y /\ Bottom(1, z) > y
  <2>1. FirstBelow(y, z) = 1
    BY <1>3, <1>6
  <2> QED BY <1>1, <1>6, <2>1
<1>7. CASE Bottom(n, z) > y /\ ~(Bottom(1, z) > y)
  <2> DEFINE Right(i) == /\ i.min \in 1..n /\ i.max \in 1..n /\ i.min <= i.max
                         /\ Bottom(i.max, z) > y
                         /\ i.min = 1 \/ ~(Bottom(i.min - 1, z) > y)
             Fine(k) == Right(g[k]) /\ (g[k].min = g[k].max \/ g[k].max - g[k].min <= n - 1 - k)
             T == {k \in Nat : k <= n => Fine(k)}
  <2>1. 0 \in T
    <3>1. g[0] = [min |-> 1, max |-> n]
      <4>1. 0 \in 0..n
        BY <1>1
      <4>2. g[0] = Narrowed(y, z, g, 0)
        BY <1>4, <4>1
      <4>3. Narrowed(y, z, g, 0) = [min |-> 1, max |-> n]
        BY DEF Narrowed
      <4> QED BY <4>2, <4>3
    <3>2. g[0].min = 1 /\ g[0].max = n
      BY <3>1
    <3> QED BY <1>1, <1>7, <3>2
  <2>2. ASSUME NEW k \in T
        PROVE  k + 1 \in T
    <3> SUFFICES ASSUME k + 1 <= n
                 PROVE  Fine(k + 1)
      OBVIOUS
    <3>1. k \in Nat /\ k + 1 \in 0..n /\ (k + 1) - 1 = k /\ k + 1 # 0
      BY <1>1
    <3> DEFINE a == g[k].min
               b == g[k].max
               mid == (a + b) \div 2
    <3>2. Fine(k)
      BY <1>1, <3>1
    <3>3. g[k + 1] = IF a >= b THEN g[k]
                     ELSE IF Bottom(mid, z) > y THEN [min |-> a, max |-> mid]
                          ELSE [min |-> mid + 1, max |-> b]
      BY <1>4, <3>1 DEF Narrowed
    <3>4. /\ a \in 1..n /\ b \in 1..n /\ a <= b /\ Bottom(b, z) > y
          /\ a = 1 \/ ~(Bottom(a - 1, z) > y)
          /\ a = b \/ b - a <= n - 1 - k
      BY <3>2
    <3> HIDE DEF Fine
    <3>5. CASE a >= b
      <4>1. g[k + 1] = g[k] /\ a = b
        BY <1>1, <3>3, <3>4, <3>5
      <4> QED BY <3>2, <4>1 DEF Fine
    <3>6. CASE ~(a >= b)
      <4> HIDE DEF a, b
      <4>1. mid \in 1..n /\ a <= mid /\ mid < b /\ (mid + 1) - 1 = mid
        BY <1>1, <3>4, <3>6
      <4> HIDE DEF mid
      <4>2. CASE Bottom(mid, z) > y
        <5>1. g[k + 1] = [min |-> a, max |-> mid]
          BY <3>3, <3>6, <4>2
        <5>2. g[k + 1].min = a /\ g[k + 1].max = mid
          BY <5>1
        <5>3. a = mid \/ mid - a <= n - 1 - (k + 1)
          BY <1>1, <3>1, <3>4, <3>6, <4>1
        <5> QED BY <3>4, <4>1, <4>2, <5>2, <5>3 DEF Fine
      <4>3. CASE ~(Bottom(mid, z) > y)
        <5>1. g[k + 1] = [min |-> mid + 1, max |-> b]
          BY <3>3, <3>6, <4>3
        <5>2. g[k + 1].min = mid + 1 /\ g[k + 1].max = b
          BY <5>1
        <5>3. mid + 1 = b \/ b - (mid + 1) <= n - 1 - (k + 1)
          BY <1>1, <3>1, <3>4, <3>6, <4>1
        <5>4. mid + 1 \in 1..n /\ mid + 1 <= b
          BY <1>1, <3>4, <4>1
        <5> QED BY <3>4, <4>1, <4>3, <5>2, <5>3, <5>4 DEF Fine
      <4> QED BY <4>2, <4>3
    <3> QED BY <3>5, <3>6
  <2>3. T = Nat
    <3> HIDE DEF T
    <3>1. T \in SUBSET Nat
      BY DEF T
    <3> QED BY <2>1, <2>2, <3>1, NumberInduction
  <2>4. Fine(n)
    <3>1. n \in T
      BY <1>1, <2>3
    <3> HIDE DEF Fine
    <3> QED BY <1>1, <3>1
  <2>5. g[n].min \in 1..n /\ g[n].max \in 1..n /\ g[n].min <= g[n].max
    BY <2>4
  <2>6. g[n].min = g[n].max
    <3>1. g[n].min = g[n].max \/ g[n].max - g[n].min <= n - 1 - n
      BY <2>4
    <3> QED BY <1>1, <2>5, <3>1
  <2>7. FirstBelow(y, z) = g[n].min
    BY <1>3, <1>7
  <2> QED BY <1>1, <1>7, <2>4, <2>5, <2>6, <2>7
<1> QED
  BY <1>5, <1>6, <1>7

\* Two pages lie side by side.
Beside(p, o, z) == Top(p, z) < Bottom(o, z) /\ Top(o, z) < Bottom(p, z)

LEMMA ScaledOrder ==
    ASSUME NEW a \in Nat, NEW b \in Nat, NEW z \in Nat \ {0}
    PROVE  /\ a * z < b * z <=> a < b
           /\ a * z <= b * z <=> a <= b
<1>1. a * z \in Nat /\ b * z \in Nat
  OBVIOUS
<1>2. CASE a < b
  BY <1>1, <1>2, ScaledBy
<1>3. CASE b < a
  BY <1>1, <1>3, ScaledBy
<1>4. CASE a = b
  BY <1>1, <1>4
<1> QED
  BY <1>2, <1>3, <1>4

\* The rows are rows at every zoom.
LEMMA RowsAtZoom ==
    ASSUME layout \in Layouts, InRows(layout), NEW z \in Nat \ {0}
    PROVE  /\ \A p, o \in Pages : p < o => Beside(p, o, z) \/ Bottom(p, z) <= Top(o, z)
           /\ \A p, o, m \in Pages : Beside(p, o, z) /\ Beside(o, m, z) => Beside(p, m, z)
<1> DEFINE beside(p, o) == /\ layout.page[p].top < layout.page[o].bottom
                           /\ layout.page[o].top < layout.page[p].bottom
<1>1. DOMAIN layout.page = Pages
  BY LayoutType, RenderingAssumption DEF Pages, N
<1>2. /\ \A p, o \in Pages : p < o => beside(p, o) \/ layout.page[p].bottom <= layout.page[o].top
      /\ \A p, o, m \in Pages : beside(p, o) /\ beside(o, m) => beside(p, m)
  BY <1>1 DEF InRows
<1>3. \A p \in Pages : layout.page[p].top \in Nat /\ layout.page[p].bottom \in Nat
  BY LayoutType
<1>4. ASSUME NEW p \in Pages, NEW o \in Pages
      PROVE  /\ Beside(p, o, z) <=> beside(p, o)
             /\ Bottom(p, z) <= Top(o, z) <=> layout.page[p].bottom <= layout.page[o].top
  <2>1. Top(p, z) < Bottom(o, z) <=> layout.page[p].top < layout.page[o].bottom
    BY <1>3, ScaledOrder DEF Top, Bottom
  <2>2. Top(o, z) < Bottom(p, z) <=> layout.page[o].top < layout.page[p].bottom
    BY <1>3, ScaledOrder DEF Top, Bottom
  <2>3. Bottom(p, z) <= Top(o, z) <=> layout.page[p].bottom <= layout.page[o].top
    BY <1>3, ScaledOrder DEF Top, Bottom
  <2> QED BY <2>1, <2>2, <2>3 DEF Beside
<1> HIDE DEF beside
<1> QED
  BY <1>2, <1>4

\* A page between two of a row is of that row.
LEMMA BetweenBeside ==
    ASSUME layout \in Layouts, InRows(layout), NEW z \in Nat \ {0},
           NEW p \in Pages, NEW k \in Pages, NEW m \in Pages, p <= k, k <= m,
           p # m, Beside(p, m, z)
    PROVE  (k # m => Beside(k, m, z)) /\ (p # k => Beside(p, k, z))
<1>1. N \in Nat /\ Pages = 1..N
  BY LayoutType
<1>2. \A o \in Pages : Top(o, z) \in Nat /\ Bottom(o, z) \in Nat /\ Top(o, z) < Bottom(o, z)
  BY EdgesType
<1>3. \A o, i \in Pages : Beside(o, i, z) <=> Beside(i, o, z)
  BY DEF Beside
<1>4. CASE p = k \/ k = m
  BY <1>4
<1>5. CASE p < k /\ k < m
  <2>1. Beside(p, k, z) \/ Bottom(p, z) <= Top(k, z)
    BY <1>5, RowsAtZoom
  <2>2. Beside(k, m, z) \/ Bottom(k, z) <= Top(m, z)
    BY <1>5, RowsAtZoom
  <2>3. Top(m, z) < Bottom(p, z)
    BY DEF Beside
  <2>4. Beside(p, k, z) \/ Beside(k, m, z)
    BY <1>2, <2>1, <2>2, <2>3
  <2>5. Beside(p, k, z) => Beside(k, m, z)
    BY <1>3, RowsAtZoom
  <2>6. Beside(k, m, z) => Beside(p, k, z)
    BY <1>3, RowsAtZoom
  <2> QED BY <2>4, <2>5, <2>6
<1> QED
  BY <1>1, <1>4, <1>5

\* The last page is in sight wherever the user can scroll.
LEMMA LastInSight ==
    ASSUME layout \in Layouts, InRows(layout), NEW z \in 1..layout.maxZoom, NEW y \in 0..MaxTop(z)
    PROVE  Bottom(N, z) > y
<1>1. N \in Nat \ {0} /\ Pages = 1..N /\ N \in Pages /\ layout.maxZoom \in Nat \ {0}
  BY LayoutType
<1>2. z \in Nat \ {0} /\ Height \in Nat \ {0}
  BY <1>1, RenderingAssumption
<1>3. \A p \in Pages : Top(p, z) \in Nat /\ Bottom(p, z) \in Nat /\ Top(p, z) < Bottom(p, z)
  BY <1>2, EdgesType
<1>4. MaxTop(z) = 0 \/ \E p \in Pages : MaxTop(z) = Bottom(p, z) - Height
  BY <1>2, MaxTopType
<1>5. ASSUME NEW p \in Pages
      PROVE  Bottom(p, z) - Bottom(N, z) < Height
  <2> DEFINE a == layout.page[p].bottom
             b == layout.page[N].bottom
  <2>1. DOMAIN layout.page = Pages
    BY LayoutType, RenderingAssumption DEF Pages, N
  <2>2. (a - b) * z < Height
    BY <2>1 DEF InRows, N
  <2>3. a \in Nat /\ b \in Nat
    BY <1>1, LayoutType
  <2> HIDE DEF a, b
  <2>4. (a - b) * z = a * z - b * z
    BY <1>2, <2>3
  <2> QED BY <2>2, <2>4 DEF Bottom, a, b
<1>6. MaxTop(z) \in Nat
  BY <1>2, MaxTopType
<1> QED
  BY <1>1, <1>2, <1>3, <1>4, <1>5, <1>6

\* No page before the start of the row reaches below y.
LEMMA RowStartBefore ==
    ASSUME layout \in Layouts, InRows(layout), NEW z \in Nat \ {0}, NEW y \in Nat,
           NEW i \in Pages, i # 1 => ~(Bottom(i - 1, z) > y)
    PROVE  LET start == RowStart(i, y, z)
           IN  start \in 1..i /\ \A p \in Pages : Bottom(p, z) > y => p >= start
<1> DEFINE edge == IF Top(i, z) >= y THEN Top(i - 1, z) ELSE Top(i, z)
           inRow == {j \in 1..(i - 2) : \A k \in j..(i - 2) : Bottom(k, z) > edge}
           start == RowStart(i, y, z)
<1>1. N \in Nat /\ Pages = 1..N
  BY LayoutType
<1>2. \A o \in Pages : Top(o, z) \in Nat /\ Bottom(o, z) \in Nat /\ Top(o, z) < Bottom(o, z)
  BY EdgesType
<1>3. start = CASE i < 3 -> i
                [] i >= 3 /\ inRow = {} -> i
                [] OTHER -> Min(inRow)
  BY DEF RowStart
<1> HIDE DEF start
<1>4. CASE i < 3
  <2>1. start = i
    BY <1>3, <1>4
  <2>2. \A p \in Pages : p < i => i # 1 /\ p = i - 1
    BY <1>1, <1>4
  <2> QED BY <1>1, <2>1, <2>2 DEF start
<1>5. CASE i >= 3
  <2>1. ASSUME NEW p \in Pages, Bottom(p, z) > y, p < i
        PROVE  p \in inRow
    <3> DEFINE h == i - 1
    <3>1. h \in Pages /\ h < i /\ i # 1
      BY <1>1, <1>5
    <3>2. Bottom(h, z) <= y
      <4>1. ~(Bottom(h, z) > y)
        BY <3>1
      <4> QED BY <1>2, <3>1, <4>1
    <3>3. p # h
      BY <1>2, <2>1, <3>1, <3>2
    <3>4. p < h /\ p \in 1..(i - 2)
      BY <1>1, <1>5, <2>1, <3>3
    <3> HIDE DEF h
    <3>5. Beside(p, h, z)
      <4>1. Beside(p, h, z) \/ Bottom(p, z) <= Top(h, z)
        BY <3>1, <3>4, RowsAtZoom
      <4> QED BY <1>2, <2>1, <3>1, <3>2, <4>1
    <3>6. ASSUME NEW k \in p..(i - 2)
          PROVE  Bottom(k, z) > edge
      <4>1. k \in Pages /\ p <= k /\ k <= h /\ k # h /\ k <= i /\ k # i /\ p # i
        BY <1>1, <3>4, <2>1 DEF h
      <4>2. Beside(k, h, z)
        BY <3>1, <3>4, <3>5, <4>1, BetweenBeside
      <4>3. CASE Top(i, z) >= y
        <5>1. edge = Top(h, z)
          BY <4>3 DEF h
        <5> HIDE DEF edge
        <5> QED BY <1>2, <3>1, <4>1, <4>2, <5>1 DEF Beside
      <4>4. CASE ~(Top(i, z) >= y)
        <5>1. edge = Top(i, z)
          BY <4>4
        <5>2. Beside(p, i, z) \/ Bottom(p, z) <= Top(i, z)
          BY <2>1, RowsAtZoom
        <5>3. Beside(p, i, z)
          BY <1>2, <2>1, <4>4, <5>2
        <5>4. Beside(k, i, z)
          BY <4>1, <5>3, BetweenBeside
        <5> HIDE DEF edge
        <5> QED BY <1>2, <4>1, <5>1, <5>4 DEF Beside
      <4> QED BY <4>3, <4>4
    <3> HIDE DEF edge
    <3> QED BY <3>4, <3>6
  <2> DEFINE n == i - 2
  <2>2. inRow \in SUBSET (1..n) /\ n \in Nat /\ n <= i /\ i \in Nat
    BY <1>1, <1>5
  <2>3. \A p \in Pages : p < i => p \in Int
    BY <1>1
  <2>4. start = IF inRow = {} THEN i ELSE Min(inRow)
    BY <1>1, <1>3, <1>5
  <2>5. inRow # {} => Min(inRow) \in inRow /\ \A p \in inRow : Min(inRow) <= p
    <3> HIDE DEF inRow, n
    <3> QED BY <2>2, FirstAndLast
  <2>6. inRow # {} => Min(inRow) \in 1..i /\ Min(inRow) <= i
    <3> DEFINE m == Min(inRow)
    <3> HIDE DEF inRow, n
    <3>1. inRow # {} => m \in 1..n
      BY <2>2, <2>5
    <3> HIDE DEF m
    <3>2. m \in 1..n => m \in 1..i /\ m <= i
      BY <2>2
    <3> QED BY <3>1, <3>2 DEF m
  <2> HIDE DEF inRow, n
  <2>7. start \in 1..i
    BY <1>1, <2>4, <2>6
  <2>8. ASSUME NEW p \in Pages, Bottom(p, z) > y
        PROVE  p >= start
    <3>1. CASE p < i
      BY <2>1, <2>4, <2>5, <2>7, <2>8, <3>1, <1>1
    <3>2. CASE ~(p < i)
      BY <1>1, <2>7, <3>2
    <3> QED BY <3>1, <3>2
  <2> QED BY <2>7, <2>8 DEF start
<1> QED
  BY <1>1, <1>4, <1>5

\* What is shown is what overlaps the view.
LEMMA VisibleIsOverlap ==
    ASSUME layout \in Layouts, InRows(layout), NEW z \in 1..layout.maxZoom, NEW y \in 0..MaxTop(z)
    PROVE  Visible(y, z) = {p \in Pages : layout.page[p].seen /\ Bottom(p, z) > y
                                            /\ Top(p, z) < y + Height}
<1> DEFINE hit == FirstBelow(y, z)
           start == IF hit > N THEN hit ELSE RowStart(hit, y, z)
           reach == {p \in start..N : Bottom(p, z) >= y + Height}
           edge == IF reach = {} THEN N ELSE Min(reach)
           loop == {p \in Pages : p >= start /\ \A j \in (edge + 1)..p : Top(j, z) <= Bottom(edge, z)}
<1>1. N \in Nat \ {0} /\ Pages = 1..N /\ layout.maxZoom \in Nat \ {0}
  BY LayoutType
<1>2. z \in Nat \ {0} /\ Height \in Nat \ {0} /\ y \in Nat
  <2>1. z \in Nat \ {0} /\ Height \in Nat \ {0}
    BY <1>1, RenderingAssumption
  <2> QED BY <2>1, MaxTopType
<1>3. \A p \in Pages : Top(p, z) \in Nat /\ Bottom(p, z) \in Nat /\ Top(p, z) < Bottom(p, z)
  BY <1>2, EdgesType
<1>4. Visible(y, z) = {p \in loop : layout.page[p].seen /\ Bottom(p, z) > y /\ Top(p, z) < y + Height}
  BY DEF Visible
<1>5. hit \in Pages /\ (hit # 1 => ~(Bottom(hit - 1, z) > y)) /\ start = RowStart(hit, y, z)
  <2>1. /\ hit \in 1..(N + 1)
        /\ hit = N + 1 => ~(Bottom(N, z) > y)
        /\ hit # N + 1 /\ hit # 1 => ~(Bottom(hit - 1, z) > y)
    BY <1>2, FirstBelowFound
  <2>2. Bottom(N, z) > y
    BY LastInSight
  <2> HIDE DEF hit
  <2> QED BY <1>1, <2>1, <2>2
<1> HIDE DEF hit, start
<1>6. start \in Pages /\ \A p \in Pages : Bottom(p, z) > y => p >= start
  <2> DEFINE s == RowStart(hit, y, z)
  <2>1. s \in 1..hit /\ \A p \in Pages : Bottom(p, z) > y => p >= s
    BY <1>2, <1>5, RowStartBefore
  <2> HIDE DEF s
  <2>2. s \in Pages
    BY <1>1, <1>5, <2>1
  <2> QED BY <1>5, <2>1, <2>2 DEF s
<1>7. reach # {} => edge \in Pages /\ Bottom(edge, z) >= y + Height
  <2>1. reach \in SUBSET (1..N)
    BY <1>1, <1>6
  <2>2. reach # {} => Min(reach) \in reach
    <3> HIDE DEF reach
    <3> QED BY <1>1, <2>1, FirstAndLast
  <2> QED BY <1>1, <2>1, <2>2
<1>8. reach = {} => edge = N
  OBVIOUS
<1> HIDE DEF reach, edge
<1>9. ASSUME NEW p \in Pages, Bottom(p, z) > y, Top(p, z) < y + Height
      PROVE  p \in loop
  <2> SUFFICES ASSUME NEW j \in (edge + 1)..p
               PROVE  Top(j, z) <= Bottom(edge, z)
    BY <1>6, <1>9
  <2>1. reach # {}
    BY <1>1, <1>8
  <2>2. edge \in Pages /\ Bottom(edge, z) >= y + Height
    BY <1>7, <2>1
  <2>3. j \in Pages /\ edge <= j /\ edge # j /\ j <= p /\ edge < p
    BY <1>1, <2>2
  <2>4. Beside(edge, p, z) \/ Bottom(edge, z) <= Top(p, z)
    BY <2>2, <2>3, RowsAtZoom, <1>2
  <2>5. Beside(edge, p, z)
    BY <1>2, <1>3, <1>9, <2>2, <2>4
  <2>6. edge # p
    BY <1>1, <2>2, <2>3
  <2>7. Beside(edge, j, z)
    BY <1>2, <2>2, <2>3, <2>5, <2>6, BetweenBeside
  <2> QED BY <1>3, <2>2, <2>3, <2>7 DEF Beside
<1> HIDE DEF loop
<1>10. \A p \in loop : p \in Pages
  BY DEF loop
<1> QED
  BY <1>4, <1>9, <1>10

\* Where the pages are in rows, the view knows exactly the pages that are in
\* sight, at each place the user can scroll to and each zoom
\* (binarySearchFirstItem, backtrackBeforeAllVisibleElements and
\* getVisibleElements of pdf_viewer.mjs).
THEOREM VisibleIsExact ==
    ASSUME \A l \in Layouts : InRows(l)
    PROVE  RenderSpec => []VisibleExact
<1>1. RenderInv => VisibleExact
  <2> SUFFICES ASSUME RenderInv
               PROVE  VisibleExact
    OBVIOUS
  <2>1. /\ layout \in Layouts /\ InRows(layout) /\ zoom \in 1..layout.maxZoom
        /\ top \in 0..MaxTop(zoom)
    BY InvTypes
  <2> QED BY <2>1, VisibleIsOverlap DEF VisibleExact
<1> QED BY <1>1, RenderInvariant, PTL
=============================================================================
