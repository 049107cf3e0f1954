------------------------ MODULE ReloadWhileServingMC ------------------------
(***************************************************************************)
(* Small instances of ReloadWhileServing for TLC: the second edition moves *)
(* the queue directory, and every edition after the first leaves out two   *)
(* optional fields, one of which has a default.                            *)
(***************************************************************************)
EXTENDS ReloadWhileServing

SecondLeavesOut ==
    [e \in Editions |-> IF e = 1 THEN {} ELSE {"max_queue_size", "mime_types.text"}]
SecondMoves == [e \in Editions |-> IF e = 1 THEN "/queue" ELSE "/spool"]

\* Bound: edits and reload signals, and one SIGHUP, debug level or failed fetch
\* (a failure, an expired token or both), no more than three in a behaviour.
\* None of them has to happen, so that a behaviour within the bound may stay
\* within it.
Failed == faults + (good - 1)
Others == hups + (level - 1) + Failed
FewEvents ==
    /\ Others =< 1 \/ Others = Failed
    /\ (edition - 1) + (signal - 1) + Others =< 3
=============================================================================
