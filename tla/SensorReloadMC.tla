--------------------------- MODULE SensorReloadMC ---------------------------
(***************************************************************************)
(* Small instances of SensorReload for TLC: every edition after the first   *)
(* names another server.                                                   *)
(***************************************************************************)
EXTENDS SensorReload

SecondServer == [e \in Editions |-> IF e = 1 THEN "first" ELSE "second"]

\* Bound: of edits, signals, expiries, failures and stops no more than three in a
\* behaviour, whichever they are.  None of them has to happen, so that a
\* behaviour within the bound may stay within it.
FewEvents == happened + faults =< 3
=============================================================================
