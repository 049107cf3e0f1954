-------------------------------- MODULE AwsS3 --------------------------------
(***************************************************************************)
(* AWS-S3: a program, run by hand or by cron, that goes once through every *)
(* object of every bucket of an organisation, with a registry of the paths *)
(* it is done with.                                                        *)
(***************************************************************************)
EXTENDS Registry

\* main: one pass, and the process returns.  An account or a bucket that cannot
\* be listed is left out of the pass.
Main(c) ==
    /\ c \in Buckets
    /\ \/ Begins(c)
       \/ Finishes(c)
       \/ /\ pc[c] = "next" /\ todo[c] # {} /\ Fault
          /\ todo' = [todo EXCEPT ![c] = {}]
          /\ UNCHANGED <<pc, cur, token, books, network, expiries, store>>

\* Analyze up to the query.  An object too large, or of a type the client does
\* not submit, is entered in the registry; one that cannot be read is not.
AnalyzeObject(c) ==
    /\ c \in Buckets /\ pc[c] = "next"
    /\ \E i \in todo[c] :
        \/ /\ i \in registry[c] /\ NoFault
           /\ todo' = [todo EXCEPT ![c] = @ \ {i}] /\ UNCHANGED <<pc, cur>>
        \/ /\ i \notin registry[c] /\ NoFault
           /\ Goto(c, IF i \in OutOfScope THEN "known" ELSE "query")
           /\ Take(c, i)
        \/ /\ i \notin registry[c] /\ Fault
           /\ todo' = [todo EXCEPT ![c] = @ \ {i}] /\ UNCHANGED <<pc, cur>>
    /\ UNCHANGED <<token, books, network, expiries, store>>

\* Analyze: the query and the submission.
AnalyzeContent(c) == c \in Buckets /\ Exchange(c)

\* Mutant of Record: the object is recorded when the scan failed, too.
Record_Always(c) ==
    /\ c \in Buckets
    /\ \/ pc[c] \in {"known", "sent", "failed"} /\ Enter(c, cur[c])
       \/ Encode(c)

\* Analyze from there on: the object is recorded, by its path.
Record(c) ==
    /\ c \in Buckets
    /\ \/ pc[c] \in {"known", "sent"} /\ Enter(c, cur[c])
       \/ GivesUp(c)
       \/ Encode(c)

AwsS3Step(c) ==
    Main(c) \/ AnalyzeObject(c) \/ AnalyzeContent(c) \/ Record(c)
=============================================================================
