----------------------------- MODULE MCViewing -----------------------------
(* Documents and zooms for Viewing: a fitted page and an actual one of the *)
(* same size as a number, a small one of which two fit in the view, and a  *)
(* large one; a document that is shown page by page, one that is shorter   *)
(* than it, and one whose pages are asked for together.                    *)
EXTENDS Viewing

Zoom(name, scale, preset) == [name |-> name, scale |-> scale, preset |-> preset]
PageWidth == Zoom("page-width", 6, TRUE)
MCValues == {PageWidth, Zoom("page-actual", 3, TRUE), Zoom("1", 3, FALSE), Zoom("0.8", 2, FALSE)}
MCOptions == {v \in MCValues : v.name # "0.8"}
MCLinkValues == {PageWidth}
MCDocs == <<4,2,3>>
=============================================================================
