--------------------------- MODULE DurableDelivery ---------------------------
(***************************************************************************)
(* What the submission pipeline promises, whatever its queue directory,    *)
(* channel and goroutines do: a submission is refused, or it becomes       *)
(* durable; from then on a stop of the server costs nothing until it is    *)
(* taken off the disk, which only a bounded number of submissions are at   *)
(* a time; what has been settled or lost stays so.                         *)
(***************************************************************************)
EXTENDS Naturals, FiniteSets

CONSTANTS Submissions,
          Capacity       \* how many may be off the disk and not yet settled

VARIABLE stage

Stages == {"new", "refused", "queued", "taken", "settled", "lost"}

In(st) == {s \in Submissions : stage[s] = st}

Init == stage = [s \in Submissions |-> "new"]

Move(s, from, to) ==
    /\ stage[s] \in from
    /\ stage' = [stage EXCEPT ![s] = to]

Accept(s) == Move(s, {"new"}, "queued")
Refuse(s) == Move(s, {"new"}, "refused")

Take(s) ==
    /\ Cardinality(In("taken")) < Capacity
    /\ Move(s, {"queued"}, "taken")

Settle(s) == Move(s, {"queued", "taken"}, "settled")

\* A failure that is logged and not retried.
Lose(s) == Move(s, {"queued", "taken"}, "lost")

\* The server stops: the requests under way are cut, and what only the process
\* held is gone.
Stop ==
    \E cut \in SUBSET In("new") :
        stage' = [s \in Submissions |->
                     IF stage[s] = "taken" THEN "lost"
                     ELSE IF s \in cut THEN "refused" ELSE stage[s]]

Next ==
    \/ \E s \in Submissions :
          Accept(s) \/ Refuse(s) \/ Take(s) \/ Settle(s) \/ Lose(s)
    \/ Stop

Spec == Init /\ [][Next]_stage

\* What is queued does not stay so for ever.
FairSpec ==
    /\ Spec
    /\ \A s \in Submissions : WF_stage(Settle(s) \/ Lose(s))
=============================================================================
