-------------------------------- MODULE Fleet --------------------------------
(***************************************************************************)
(* Clients of the four kinds submitting to one server.  They know nothing  *)
(* of each other: all they share is what the server has accepted and what  *)
(* its stores hold.                                                        *)
(***************************************************************************)
EXTENDS Voltage, AwsS3, AwsS3Lambda, Suricata

CONSTANT Deployments   \* the sets of clients that may be installed together

ASSUME DeploymentsAssumption == Deployments \subseteq SUBSET Clients

vars == <<store, faults, client, sensor>>

Init ==
    /\ StoreInit /\ SessionInit /\ SensorInit
    /\ faults = 0
    /\ \E deployed \in Deployments :
        pc = [c \in Clients |-> IF c \in deployed THEN "rest" ELSE "off"]
    /\ todo = [c \in Clients |-> IF c \in Lambdas THEN Items[c] ELSE {}]

Step(c) ==
    \/ (VoltageStep(c) \/ AwsS3Step(c) \/ LambdaStep(c)) /\ UNCHANGED sensor
    \/ SuricataStep(c)

Next ==
    \/ StoreNext /\ UNCHANGED <<client, sensor>>
    \/ \E c \in Clients :
        \/ Step(c)
        \/ Expire(c) /\ UNCHANGED <<store, sensor>>
        \/ (Crash(c) \/ NukeDB(c)) /\ UNCHANGED sensor
    \/ \E p \in limbo : Arrives(p) /\ UNCHANGED sensor

Spec == Init /\ [][Next]_vars

\* Voltage is a service, AWS-S3 is run by cron, the Suricata client and the
\* lambda are started again when they end; each then goes on with its work.
FairSpec == Spec /\ \A c \in Clients : WF_vars(Step(c))

FleetTypeOK == StoreTypeOK /\ SessionTypeOK /\ SensorTypeOK /\ faults \in Nat

-----------------------------------------------------------------------------
\* The items client c will not look at again, as things stand: those in its
\* registry, in memory or on disk, or the events it has consumed.
Settled(c) ==
    {i \in Items[c] :
        \/ c \in Voltages /\ Hash[i] \in registry[c] \cup disk[c]
        \/ c \in Buckets /\ i \in registry[c] \cup disk[c]
        \/ c \in Lambdas /\ i \notin Pending(c)
        \/ c \in Sensors /\ i \notin unseen[c] \cup Pending(c)}

\* docs/README.md: every client "submits them to the highvolt-server": without a
\* failure every file in scope that a client is done with was accepted from it
\* or from another client, whatever tokens expire in between and however the
\* queries and the submissions of the clients interleave.
NothingLostWithoutFailure ==
    faults = 0 =>
        \A c \in Clients : \A i \in Settled(c) \ OutOfScope :
            Senders(Hash[i]) # {}

\* With failures, too, an entry in a registry means a submission accepted, of
\* this client or another, but for the one case the code does not tell from it:
\* the server answered with an error.  The same goes for the files deleted from
\* the file store of Suricata.
DoneMeansAnswered ==
    /\ \A c \in Voltages \cup Buckets : \A i \in Settled(c) \ OutOfScope :
        Senders(Hash[i]) # {} \/ <<c, Hash[i]>> \in refused
    /\ \A c \in Sensors, h \in Hashes : filed[c][h] > 0 =>
        h \in stored[c] \/ sends[c][h] > 0 \/ <<c, h>> \in refused

Copies(c, h) == {i \in Items[c] : Hash[i] = h}

\* The submissions of a hash that the design of each client allows it.
Allowance(c, h) ==
    IF c \in Voltages THEN 1
    ELSE IF c \in Sensors THEN filed[c][h]
    ELSE Cardinality(Copies(c, h))

\* What one failure may cost in submissions made again: a registry of paths that
\* is lost is lost for every copy, one of hashes holds one entry for all of them.
Setback(c, h) == IF c \in Buckets THEN Cardinality(Copies(c, h)) ELSE 1

\* Once the failures are over every client is done with every file in scope it
\* has come across: no failed scan is forgotten, and no client is stuck in the
\* renewal of its token.
EventuallySettled ==
    <>[](\A c \in Clients : pc[c] # "off" =>
            Items[c] \ (OutOfScope \cup IF c \in Sensors THEN unseen[c] ELSE {})
                \subseteq Settled(c))

\* docs/README.md: "Results are deduplicated".  Each client submits a hash once
\* (Voltage), once for each object (AWS) or file stored (Suricata), and once
\* more at most for each failure, pass after pass; AWS-S3 once more for each
\* object of that hash, for a crash while the registry is written out leaves the
\* next pass none of its entries.
SubmittedOnce ==
    \A c \in Clients, h \in Hashes :
        sends[c][h] <= Allowance(c, h) + faults * Setback(c, h)
=============================================================================
