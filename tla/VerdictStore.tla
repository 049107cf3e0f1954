---------------------------- MODULE VerdictStore ----------------------------
(***************************************************************************)
(* The verdicts highvolt-server keeps: db/store.go writes each analysed    *)
(* file to every backend of write_backends, and answers /query from the    *)
(* one backend query_backend names.                                        *)
(*                                                                         *)
(* A document is abstracted to the sha256 of its file.  What happens to a  *)
(* submission before Index_Document is SubmissionQueue's: here `queue'     *)
(* counts the submissions accepted and not yet with a worker, and the one  *)
(* worker of this module runs the tail of DoWork.                          *)
(***************************************************************************)
EXTENDS Integers, FiniteSets, Functions

CONSTANTS
    Hashes,          \* the sha256 of the files submitted
    Write_Backends,  \* the list write_backends of the configuration
    Query_Backend,   \* query_backend of the configuration
    Unsupported,     \* the hashes of files of a MIME type the server skips
    Idle,            \* what a worker without a job holds
    MaxFaults        \* bound on the number of failures

Backends == {"opensearch", "openobserve"}

\* Load_Config ends the process over any other value; that query_backend is
\* not among write_backends it only warns about.
ASSUME BackendsAssumption ==
    /\ Range(Write_Backends) \subseteq Backends
    /\ Range(Write_Backends) # {}
    /\ Query_Backend \in Backends
ASSUME StoreBoundsAssumption == 
    /\ Unsupported \subseteq Hashes
    /\ Idle \notin Hashes /\ MaxFaults \in Nat

\* Init_Store keeps the first of each name in write_backends.
writeStores == Range(Write_Backends)

VARIABLES
    queue,    \* queue[h]: submissions of h accepted and not with the worker
    job,      \* the hash the worker is indexing
    left,     \* the backends Index_Document has still to write it to
    docs,     \* docs[b][h]: documents of h in backend b
    faults    \* failures so far, of the stores, the network and the clients

\* History, read by the properties only.
VARIABLE missed   \* <<b, h>>: a write of h to b failed or never came

store == <<queue, job, left, docs, missed>>

StoreTypeOK ==
    /\ queue \in [Hashes -> Nat]
    /\ job \in Hashes \cup {Idle}
    /\ left \subseteq writeStores
    /\ docs \in [Backends -> [Hashes -> Nat]]
    /\ missed \subseteq Backends \X Hashes

StoreInit ==
    /\ queue = [h \in Hashes |-> 0]
    /\ job = Idle /\ left = {}
    /\ docs = [b \in Backends |-> [h \in Hashes |-> 0]]
    /\ missed = {}

Count(yes) == IF yes THEN 1 ELSE 0

Fault == faults < MaxFaults /\ faults' = faults + 1
NoFault == UNCHANGED faults

-----------------------------------------------------------------------------

\* A worker takes a job and analyses it, unless its MIME type is not supported: a
\* failed verdict is a document, too.
DoWork ==
    \E h \in Hashes :
        /\ job = Idle /\ queue[h] > 0
        /\ queue' = [queue EXCEPT ![h] = @ - 1]
        /\ job' = h /\ left' = IF h \in Unsupported THEN {} ELSE writeStores
        /\ UNCHANGED <<docs, missed>> /\ NoFault

\* OpenSearch replaces the document with the same id, the sha256; OpenObserve
\* adds a record at each write.
Replaced(h) == [docs EXCEPT !["opensearch"][h] = 1]
Appended(h) == [docs EXCEPT !["openobserve"][h] = @ + 1]
Written(b, h) == IF b = "opensearch" THEN Replaced(h) ELSE Appended(h)

\* Mutant of IndexDocument: the first error ends the loop.
IndexDocument_FirstError(b) ==
    /\ b \in left
    /\ \/ /\ left' = left \ {b}
          /\ docs' = Written(b, job) /\ UNCHANGED missed /\ NoFault
       \/ /\ left' = {} /\ Fault
          /\ docs' \in {docs, Written(b, job)}
          /\ missed' = missed \cup {<<b, job>>}
    /\ UNCHANGED <<queue, job>>

\* One round of the loop of Index_Document.  A write that returns an error may
\* have been carried out, and never keeps the loop from the next backend.
IndexDocument(b) ==
    /\ b \in left
    /\ left' = left \ {b}
    /\ \/ docs' = Written(b, job) /\ UNCHANGED missed /\ NoFault
       \/ /\ Fault
          /\ docs' \in {docs, Written(b, job)}
          /\ missed' = missed \cup {<<b, job>>}
    /\ UNCHANGED <<queue, job>>

\* DoWork returns the joined errors; Worker logs them and takes the next job.
DoWorkReturns ==
    /\ job # Idle /\ left = {}
    /\ job' = Idle
    /\ UNCHANGED <<queue, left, docs, missed>> /\ NoFault

\* The process ends and is started again (SubmissionQueue): of what it held of
\* each hash a submission may be lost, and a job whose file is still in the
\* queue directory is analysed again.
Stop ==
    /\ job # Idle \/ \E h \in Hashes : queue[h] > 0
    /\ Fault
    /\ \E lost \in SUBSET {h \in Hashes : queue[h] > 0},
          found \in SUBSET ({job} \ {Idle}) :
           queue' = [h \in Hashes |-> queue[h] + Count(h \in found)
                                               - Count(h \in lost)]
    /\ missed' = missed \cup (left \X {job})
    /\ job' = Idle /\ left' = {}
    /\ UNCHANGED docs

StoreNext ==
    \/ DoWork
    \/ \E b \in Backends : IndexDocument(b)
    \/ DoWorkReturns
    \/ Stop

-----------------------------------------------------------------------------
\* What comes of a search the backend fails.  OpenSearch's body to a status of
\* error has no hits in it, and OpenObserve's 400 passes for a stream that does
\* not exist yet: "not found".  All else is an error.
OpenSearchFails == {404, 500}
OpenObserveFails == {404, 500}

SearchBySHA256(h, code) ==
    \/ code = (IF docs[Query_Backend][h] > 0 THEN 200 ELSE 404) /\ NoFault
    \/ /\ Fault
       /\ code \in IF Query_Backend = "opensearch" THEN OpenSearchFails
                                                   ELSE OpenObserveFails

\* The code in the body Query answers with; no code at all is 500 here, and also
\* what becomes of a query that the rate limiter turns down.
Query(h, code) == SearchBySHA256(h, code) \/ (code = 500 /\ Fault)

\* Submit: SanityCheck and WriteQueue accept what the clients send.
Submit(h) == queue' = [queue EXCEPT ![h] = @ + 1]

-----------------------------------------------------------------------------
\* store.go: "Writes fan out to every backend".  Once no write is under way a
\* file that one write backend knows is known to all, but for the writes that
\* failed themselves: a failing backend costs the others nothing.
BackendsAgree ==
    \A h \in Hashes \ {job} : \A b, other \in writeStores :
        docs[b][h] > 0 => docs[other][h] > 0 \/ <<other, h>> \in missed
=============================================================================
