----------------------------- MODULE AwsS3Lambda -----------------------------
(***************************************************************************)
(* The lambda: one event for each object created, no registry, and nothing *)
(* left behind whatever happens.  An instance handles one event at a time; *)
(* the service that starts it and hands it events is external.             *)
(***************************************************************************)
EXTENDS ClientSession

\* init: the process ends when it gets no token, and is started again.
ColdStart(c) ==
    /\ c \in Lambdas /\ pc[c] = "rest" /\ todo[c] # {}
    /\ \/ Goto(c, "next") /\ token' = [token EXCEPT ![c] = TRUE] /\ NoFault
       \/ Fault /\ UNCHANGED <<pc, token>>
    /\ UNCHANGED <<cur, todo, books, network, expiries, store>>

\* handler and Analyze up to the query: an event that is not for the lambda, or
\* whose object cannot be read, is dropped.
Handler(c) ==
    /\ c \in Lambdas /\ pc[c] = "next"
    /\ \E i \in todo[c] :
        \/ i \notin OutOfScope /\ Goto(c, "query") /\ Take(c, i) /\ NoFault
        \/ /\ IF i \in OutOfScope THEN NoFault ELSE Fault
           /\ todo' = [todo EXCEPT ![c] = @ \ {i}] /\ UNCHANGED <<pc, cur>>
    /\ UNCHANGED <<token, books, network, expiries, store>>

\* Analyze: the query and the submission.
AnalyzeEvent(c) == c \in Lambdas /\ Exchange(c)

\* Analyze returns nothing and handler returns nil: the event is done with.
Return(c) ==
    /\ c \in Lambdas /\ pc[c] \in {"known", "sent", "failed"}
    /\ Goto(c, "next") /\ PutDown(c) /\ NoFault
    /\ UNCHANGED <<todo, token, books, network, expiries, store>>

LambdaStep(c) == ColdStart(c) \/ Handler(c) \/ AnalyzeEvent(c) \/ Return(c)
=============================================================================
