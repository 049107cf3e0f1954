--------------------------- MODULE QueueDeliveryMC ---------------------------
(***************************************************************************)
(* Small instances of QueueDelivery for TLC.                               *)
(***************************************************************************)
EXTENDS QueueDelivery, TLC

CONSTANTS a, b, c, d, w1, w2

\* Submissions that only differ in their identity may be exchanged; so may
\* workers.
Symmetry == Permutations(Analysable) \cup Permutations(Workers)

\* Bound: of stops, failures, seconds and refusals no more than two in a
\* behaviour, whichever they are.
Refused == {s \in Submissions : writer[s] = "400"}
FewEvents == stops + faults + now + Cardinality(Refused) =< 2
=============================================================================
