---------------------------- MODULE MCRendering ----------------------------
(* Layouts for Rendering: a column of pages, a spread of which a narrow     *)
(* view shows one side, wrapped rows of centred pages, and short documents  *)
(* that are zoomed.                                                         *)
EXTENDS Rendering

Box(t, b) == [top |-> t, bottom |-> b, seen |-> TRUE]
Aside(t, b) == [top |-> t, bottom |-> b, seen |-> FALSE]
Layout(boxes, spread, s, z, m) ==
    [page |-> boxes, spread |-> spread, scrolls |-> s, zooms |-> z, maxZoom |-> m]

Column == Layout(<<Box(0, 2), Box(2, 4), Box(4, 6), Box(6, 8)>>, FALSE, 1, 0, 1)
Spreads == Layout(<<Box(0, 3), Aside(1, 2), Box(3, 5), Aside(3, 5)>>, TRUE, 1, 0, 1)
Wrapped == Layout(<<Box(1, 3), Box(0, 4), Box(1, 3), Box(4, 6), Box(4, 6)>>, FALSE, 1, 0, 1)
Zoomed == Layout(<<Box(0, 2), Box(2, 4)>>, FALSE, 1, 1, 2)
Rezoomed == Layout(<<Box(0, 2)>>, FALSE, 1, 2, 3)

MCLayouts == {Column, Spreads, Wrapped, Zoomed, Rezoomed}

\* What the theorem on VisibleExact asks of the layouts.
ASSUME LayoutsInRows == \A l \in MCLayouts : InRows(l)
=============================================================================
