-------------------------- MODULE ServerLifetimeMC --------------------------
(***************************************************************************)
(* Small instances of ServerLifetime for TLC: an environment with all that *)
(* the code asks for, and one with all that the deployment guide does.     *)
(***************************************************************************)
EXTENDS ServerLifetime

Full == [s \in Texts \cup Numbers |-> IF s \in Texts THEN "text" ELSE "1"]
Bare == [Full EXCEPT !["RUNAS"] = "unset", !["CONFIG_SLEEP"] = "unset"]

FullOnly == {Full}
FullOrBare == {Full, Bare}

\* Bound: four signals in a behaviour, two and a failure or an edit, or two of these.
\* Fairness is about none of them, so that a fair behaviour within the bound is a
\* fair behaviour of the server.
FewEvents == sent + 2 * faults + 2 * (edition - 1) =< 4
=============================================================================
