------------------------------- MODULE Voltage -------------------------------
(***************************************************************************)
(* Voltage: a service that walks the directories of a host, pass after     *)
(* pass, with a registry of the sha256 of the files it is done with.       *)
(***************************************************************************)
EXTENDS Registry

\* run starts the next pass after a sleep, or after the service is restarted.
Run(c) == c \in Voltages /\ (Begins(c) \/ Finishes(c))

\* The function of WalkDir and the first half of processFile.  A file that
\* cannot be opened or read is passed over, and so is one out of scope, each
\* time it is met.
WalkDir(c) ==
    /\ c \in Voltages /\ pc[c] = "next"
    /\ \E i \in todo[c] :
        \/ /\ i \notin OutOfScope /\ Hash[i] \notin registry[c]
           /\ Goto(c, "query") /\ Take(c, i) /\ NoFault
        \/ /\ i \in OutOfScope \/ Hash[i] \in registry[c]
           /\ todo' = [todo EXCEPT ![c] = @ \ {i}]
           /\ UNCHANGED <<pc, cur>> /\ NoFault
        \/ /\ todo' = [todo EXCEPT ![c] = @ \ {i}]
           /\ UNCHANGED <<pc, cur>> /\ Fault
    /\ UNCHANGED <<token, books, network, expiries, store>>

FileScan(c) == c \in Voltages /\ Exchange(c)

\* The second half of processFile: FileScan returned true or false.
ProcessFile(c) ==
    /\ c \in Voltages
    /\ \/ pc[c] \in {"known", "sent"} /\ Enter(c, Hash[cur[c]])
       \/ GivesUp(c)
       \/ Encode(c)

\* Somebody runs "voltage -nuke", another process, beside the service: os.Remove
\* takes the registry file away, with what is being written to it, and leaves
\* the map of the pass under way, which the next entry writes out again.
NukeDB(c) ==
    /\ c \in Voltages /\ pc[c] # "off"
    /\ disk' = [disk EXCEPT ![c] = {}] /\ Fault
    /\ IF pc[c] = "encode" THEN Goto(c, "next") ELSE UNCHANGED pc
    /\ UNCHANGED <<cur, todo, token, registry, network, expiries, store>>

VoltageStep(c) == Run(c) \/ WalkDir(c) \/ FileScan(c) \/ ProcessFile(c)
=============================================================================
