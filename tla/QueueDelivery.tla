---------------------------- MODULE QueueDelivery ----------------------------
(***************************************************************************)
(* The pipeline of SubmissionQueue implements DurableDelivery: the stage   *)
(* of a submission is read off the queue directory first, then off the     *)
(* memory of the process.                                                  *)
(***************************************************************************)
EXTENDS SubmissionQueue

Unwritten == {"idle", "counted", "open", "written"}

Stage ==
    [s \in Submissions |->
        IF s \in settled THEN "settled"
        ELSE IF name[s] = "data" THEN "queued"
        ELSE IF s \in AtRisk THEN "taken"
        ELSE IF s \in dropped THEN "lost"
        ELSE IF writer[s] \in Unwritten THEN "new" ELSE "refused"]

Delivery == INSTANCE DurableDelivery
                WITH stage <- Stage, Capacity <- 2 * MaxWorkers

\* Every step of handlers, monitor, workers and process is a step of the
\* abstract delivery, or changes nothing it can see.
ImplementsDelivery == Delivery!Spec

\* And nothing queued stays queued: the fairness of the goroutines is enough
\* for the fairness of the abstract delivery.
ImplementsFairDelivery == Delivery!FairSpec
=============================================================================
