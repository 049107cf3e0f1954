----------------------------- MODULE AnalysisMC -----------------------------
(***************************************************************************)
(* A small instance of Analysis for TLC: an archive with a text, a document*)
(* of three pages, an archive of its own, and entries that the code passes *)
(* over: one that leaves the directory, one of no known type, one that     *)
(* replaces the text; an archive beyond the limit; and one that holds a    *)
(* text and itself.                                                        *)
(***************************************************************************)
EXTENDS Analysis

SmallFiles ==
    {"zip", "note", "note2", "evil", "exe", "doc", "pdf", "p1", "p2", "p3",
     "inner", "pic", "icon", "none", "bomb", "big", "quine"}

SmallKind == [f \in SmallFiles |->
    CASE f \in {"zip", "inner", "bomb", "quine"} -> "ARCHIVE"
      [] f \in {"note", "note2", "evil", "big"} -> "TEXT"
      [] f = "doc" -> "OFFICE"
      [] f \in {"pdf", "none"} -> "PDF"
      [] f \in {"p1", "p2", "p3"} -> "PAGE"
      [] f \in {"pic", "icon"} -> "IMAGE"
      [] f = "exe" -> "OTHER"]

SmallParts == [f \in SmallFiles |->
    CASE f = "zip" -> <<"note", "evil", "doc", "note2", "exe", "inner">>
      [] f = "inner" -> <<"icon", "pic">>
      [] f = "bomb" -> <<"big">>
      [] f = "quine" -> <<"quine", "note">>
      [] f = "doc" -> <<"pdf">>
      [] f = "pdf" -> <<"p1", "p2", "p3">>
      [] OTHER -> <<>>]

SmallPath == [f \in SmallFiles |->
    CASE f = "evil" -> 0
      [] f \in {"note", "note2", "icon"} -> 2
      [] f \in {"exe", "quine"} -> 3
      [] f = "doc" -> 4
      [] f = "inner" -> 5
      [] OTHER -> 1]

SmallSize == [f \in SmallFiles |->
    CASE f \in {"pic", "inner", "note"} -> 2 [] f = "big" -> 9 [] OTHER -> 1]

\* Bound: the nesting that is looked at, one more than "zip" needs.
MaxDepth == 4
Within == Submit_Data /\ Len(stack') =< MaxDepth

\* An analysis that would go deeper may stay where it is for ever.
Deeper == Len(stack) = MaxDepth /\ UNCHANGED vars

BoundedNext == Within \/ Deeper \/ \E f \in Submissions : DoWork(f)
BoundedSpec == Init /\ [][BoundedNext]_vars /\ WF_vars(Within)
=============================================================================
