------------------------------ MODULE Suricata ------------------------------
(***************************************************************************)
(* The Suricata client: pops the events Suricata pushes to a list in redis *)
(* and submits the files it stored, one file for each sha256, which it     *)
(* deletes afterwards.  Its items are the events.                          *)
(***************************************************************************)
EXTENDS ClientSession

VARIABLES
    unseen,   \* unseen[c]: what Suricata has still to come across
    stored    \* stored[c]: hashes of the files in its file store

\* History, read by the properties only.
VARIABLE filed    \* filed[c][h]: times a file was stored that was not there

sensor == <<unseen, stored, filed>>

SensorTypeOK ==
    /\ unseen \in [Sensors -> SUBSET AllItems]
    /\ stored \in [Sensors -> SUBSET Hashes]
    /\ filed \in [Sensors -> [Hashes -> Nat]]

SensorInit ==
    /\ unseen = [c \in Sensors |-> Items[c]]
    /\ stored = [c \in Sensors |-> {}]
    /\ filed = [c \in Sensors |-> [h \in Hashes |-> 0]]

\* Suricata stores a file, unless it has it, and pushes an event.
Observe(c) ==
    /\ c \in Sensors /\ pc[c] # "off"
    /\ \E i \in unseen[c] :
        /\ unseen' = [unseen EXCEPT ![c] = @ \ {i}]
        /\ todo' = [todo EXCEPT ![c] = @ \cup {i}]
        /\ IF i \in OutOfScope THEN UNCHANGED <<stored, filed>> ELSE
           /\ stored' = [stored EXCEPT ![c] = @ \cup {Hash[i]}]
           /\ filed' = [filed EXCEPT ![c][Hash[i]] =
                            @ + Count(Hash[i] \notin stored[c])]
    /\ NoFault
    /\ UNCHANGED <<pc, cur, token, books, network, expiries, store>>

\* main up to the loop.
StartClient(c) ==
    /\ c \in Sensors /\ pc[c] = "rest"
    /\ \/ Goto(c, "next") /\ token' = [token EXCEPT ![c] = TRUE] /\ NoFault
       \/ Goto(c, "next") /\ UNCHANGED token /\ Fault
       \/ UNCHANGED <<pc, token>> /\ Fault
    /\ UNCHANGED <<cur, todo, books, network, expiries, store, sensor>>

\* From here on the event is in this process only.  One that says the file was
\* not stored, or lacks a field, is dropped; one whose reply is lost is gone.
LPop(c) ==
    /\ c \in Sensors /\ pc[c] = "next"
    /\ \E i \in todo[c] :
        \/ Goto(c, "query") /\ Take(c, i) /\ NoFault
        \/ /\ IF i \in OutOfScope THEN NoFault ELSE Fault
           /\ todo' = [todo EXCEPT ![c] = @ \ {i}] /\ UNCHANGED <<pc, cur>>
    /\ UNCHANGED <<token, books, network, expiries, store, sensor>>

Submission(c) == c \in Sensors /\ Exchange(c) /\ UNCHANGED sensor

\* MIMEType and ReadFile: the file may be of a type the client does not submit,
\* or gone with an earlier event, or fail to be read.
ReadStored(c) ==
    /\ c \in Sensors /\ pc[c] = "read"
    /\ LET there == cur[c] \notin OutOfScope /\ Hash[cur[c]] \in stored[c]
       IN  \/ there /\ Goto(c, "submit") /\ UNCHANGED cur /\ NoFault
           \/ /\ IF there THEN Fault ELSE NoFault
              /\ Goto(c, "next") /\ PutDown(c)
    /\ UNCHANGED <<todo, token, books, network, expiries, store, sensor>>

\* The end of the loop: the file goes once it was sent, and only then.
Remove(c) ==
    /\ c \in Sensors /\ pc[c] \in {"known", "sent", "failed"}
    /\ \/ /\ NoFault
          /\ stored' = [stored EXCEPT ![c] =
                 IF pc[c] = "sent" THEN @ \ {Hash[cur[c]]} ELSE @]
       \/ pc[c] = "sent" /\ Fault /\ UNCHANGED stored
    /\ Goto(c, "next") /\ PutDown(c)
    /\ UNCHANGED <<todo, token, books, network, expiries, store, unseen, filed>>

SuricataStep(c) ==
    Observe(c) \/ StartClient(c) \/ LPop(c) \/ Submission(c) \/ ReadStored(c)
        \/ Remove(c)
=============================================================================
