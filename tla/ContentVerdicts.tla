--------------------------- MODULE ContentVerdicts ---------------------------
(***************************************************************************)
(* What a sha256 stands for on its way from a file to a verdict.  Voltage  *)
(* hashes a file, and reads it once more to submit it; the AWS S3 client   *)
(* hashes the bytes it submits.  Neither the server nor its store compares *)
(* the two: a document is found by the hash that came with the data,       *)
(* whatever the data were, and whether or not the model gave a verdict.    *)
(*                                                                         *)
(* The hash of a content is the content.  Each place -- a file of a host,  *)
(* an object of a bucket -- has a client of its own.  The steps between    *)
(* acceptance and DoWork, and what may be lost there, are                  *)
(* SubmissionQueue's, the exchange with its tokens and failures            *)
(* ClientSession's; the store is OpenSearch, which replaces the document   *)
(* of a hash.                                                              *)
(***************************************************************************)
EXTENDS Integers, FiniteSets

CONSTANTS
    Files, Objects,      \* what Voltage and the AWS S3 client scan
    Contents, Sensitive,
    First,               \* First[p]: what is in place p to begin with
    NoDoc,
    MaxEdits, MaxFaults  \* bounds

Places == Files \cup Objects

ASSUME ContentsAssumption ==
    /\ IsFiniteSet(Places) /\ Files \cap Objects = {}
    /\ Places \cap Contents = {}
    /\ Sensitive \subseteq Contents /\ First \in [Places -> Contents]
    /\ MaxEdits \in Nat /\ MaxFaults \in Nat

VARIABLES
    content,       \* what is in each place
    pc, hash, data,    \* of each client: its place, what it hashed and read
    registry,      \* registry[p]: what it is done with
    jobs,          \* jobs[h][d]: submissions of data d under the hash h
    docs,          \* the document of each hash: its data and verdict
    edits, faults

\* History, read by the properties only.
VARIABLES
    mixed,     \* hashes that were submitted with other data
    failed,    \* hashes of submissions that the model gave no verdict on
    dropped,   \* hashes of submissions that left no document
    submitted  \* how often something was submitted under a hash

client == <<pc, hash, data, registry>>
past == <<mixed, failed, dropped, submitted>>
vars == <<content, client, jobs, docs, edits, faults, past>>

Fault == faults < MaxFaults /\ faults' = faults + 1

ContentInit ==
    /\ content = First
    /\ pc = [p \in Places |-> "rest"]
    /\ hash = First /\ data = First
    /\ registry = [p \in Places |-> {}]
    /\ jobs = [h \in Contents |-> [d \in Contents |-> 0]]
    /\ docs = [h \in Contents |-> NoDoc]
    /\ edits = 0 /\ faults = 0
    /\ mixed = {} /\ failed = {} /\ dropped = {} /\ submitted = [h \in Contents |-> 0]

-----------------------------------------------------------------------------
(* The clients                                                             *)

\* Somebody writes a file or an object.
Modify(p) ==
    /\ edits < MaxEdits /\ edits' = edits + 1
    /\ \E d \in Contents \ {content[p]} : content' = [content EXCEPT ![p] = d]
    /\ UNCHANGED <<client, jobs, docs, faults, past>>

\* Voltage's registry is keyed by hash, the other one by path.
Key(p) == IF p \in Objects THEN p ELSE hash[p]

\* Mutant of ProcessFile: the entry is made before the scan, not after it.
ProcessFile_EntersFirst(p) ==
    /\ p \in Files /\ pc[p] = "rest"
    /\ content[p] \notin registry[p]
    /\ registry' = [registry EXCEPT ![p] = @ \cup {content[p]}]
    /\ hash' = [hash EXCEPT ![p] = content[p]]
    /\ pc' = [pc EXCEPT ![p] = "read"]
    /\ UNCHANGED <<content, data, jobs, docs, edits, faults, past>>

\* processFile hashes the file, and is done if the registry has the hash.
ProcessFile(p) ==
    /\ p \in Files /\ pc[p] = "rest"
    /\ content[p] \notin registry[p]
    /\ hash' = [hash EXCEPT ![p] = content[p]]
    /\ pc' = [pc EXCEPT ![p] = "read"]
    /\ UNCHANGED <<content, data, registry, jobs, docs, edits, faults, past>>

\* FileScan: os.ReadFile.
ReadFile(p) ==
    /\ pc[p] = "read"
    /\ data' = [data EXCEPT ![p] = content[p]]
    /\ pc' = [pc EXCEPT ![p] = "query"]
    /\ UNCHANGED <<content, hash, registry, jobs, docs, edits, faults, past>>

\* Analyze: one copy feeds the hashes and the payload.
Analyze(p) ==
    /\ p \in Objects /\ pc[p] = "rest"
    /\ p \notin registry[p]
    /\ hash' = [hash EXCEPT ![p] = content[p]]
    /\ data' = [data EXCEPT ![p] = content[p]]
    /\ pc' = [pc EXCEPT ![p] = "query"]
    /\ UNCHANGED <<content, registry, jobs, docs, edits, faults, past>>

Enter(p) == registry' = [registry EXCEPT ![p] = @ \cup {Key(p)}]

\* Mutant of Query: any answer is taken for one that has the document.
Query_AnyAnswer(p) ==
    /\ pc[p] = "query"
    /\ pc' = [pc EXCEPT ![p] = "rest"] /\ Enter(p)
    /\ UNCHANGED <<content, hash, data, jobs, docs, edits, faults, past>>

\* The answer is 200 for any hash that has a document, and the client is done.
Query(p) ==
    /\ pc[p] = "query"
    /\ IF docs[hash[p]] # NoDoc
       THEN pc' = [pc EXCEPT ![p] = "rest"] /\ Enter(p)
       ELSE pc' = [pc EXCEPT ![p] = "submit"] /\ UNCHANGED registry
    /\ UNCHANGED <<content, hash, data, jobs, docs, edits, faults, past>>

\* Mutant of Submit: the hash of the last file is sent along.
Submit_StaleHash(p) ==
    /\ pc[p] = "submit"
    /\ jobs' = [jobs EXCEPT ![First[p]][data[p]] = @ + 1]
    /\ submitted' = [submitted EXCEPT ![First[p]] = @ + 1]
    /\ mixed' = IF hash[p] = data[p] THEN mixed ELSE mixed \cup {hash[p]}
    /\ Enter(p)
    /\ pc' = [pc EXCEPT ![p] = "rest"]
    /\ UNCHANGED <<content, hash, data, docs, edits, faults, failed, dropped>>

\* SanityCheck looks at the form of the hash only.
Submit(p) ==
    /\ pc[p] = "submit"
    /\ jobs' = [jobs EXCEPT ![hash[p]][data[p]] = @ + 1]
    /\ submitted' = [submitted EXCEPT ![hash[p]] = @ + 1]
    /\ mixed' = IF hash[p] = data[p] THEN mixed ELSE mixed \cup {hash[p]}
    /\ Enter(p)
    /\ pc' = [pc EXCEPT ![p] = "rest"]
    /\ UNCHANGED <<content, hash, data, docs, edits, faults, failed, dropped>>

\* The file cannot be read, or a request gets no answer: the next pass tries
\* again.
GivesUp(p) ==
    /\ pc[p] # "rest" /\ Fault
    /\ pc' = [pc EXCEPT ![p] = "rest"]
    /\ UNCHANGED <<content, hash, data, registry, jobs, docs, edits, past>>

\* The registry was not saved, or not as a whole: a pass starts with nothing.
LoadRegistry(p) ==
    /\ pc[p] = "rest" /\ registry[p] # {} /\ Fault
    /\ registry' = [registry EXCEPT ![p] = {}]
    /\ UNCHANGED <<content, pc, hash, data, jobs, docs, edits, past>>

-----------------------------------------------------------------------------
(* The server                                                              *)

Verdict(d) == IF d \in Sensitive THEN "yes" ELSE "no"
Document(d, v) == [of |-> d, verdict |-> v]

\* The submission is nowhere any more, and its hash has the document it had.
Drop(h) == dropped' = dropped \cup {h} /\ UNCHANGED <<docs, failed>>

\* DoWork: what Submit_Data returns is indexed under the hash, a failure too.  A
\* submission is dropped if the server does not list the type that came with it, and
\* if the document cannot be indexed: worker logs the error and takes the next.
DoWork(h, d) ==
    /\ jobs[h][d] > 0
    /\ jobs' = [jobs EXCEPT ![h][d] = @ - 1]
    /\ \/ /\ docs' = [docs EXCEPT ![h] = Document(d, Verdict(d))]
          /\ UNCHANGED <<failed, dropped, faults>>
       \/ /\ docs' = [docs EXCEPT ![h] = Document(d, "none")]
          /\ failed' = failed \cup {h} /\ Fault
          /\ UNCHANGED dropped
       \/ Drop(h) /\ UNCHANGED faults
       \/ Drop(h) /\ Fault
    /\ UNCHANGED <<content, client, edits, mixed, submitted>>

ClientStep(p) ==
    \/ ProcessFile(p) \/ ReadFile(p) \/ Analyze(p)
    \/ Query(p) \/ Submit(p) \/ GivesUp(p) \/ LoadRegistry(p)

ContentNext ==
    \/ \E p \in Places : Modify(p) \/ ClientStep(p)
    \/ \E h, d \in Contents : DoWork(h, d)

ContentSpec == ContentInit /\ [][ContentNext]_vars

\* Voltage makes pass after pass, AWS S3 is run again and again, and workers
\* get to every job.
ContentFairSpec ==
    /\ ContentSpec
    /\ \A p \in Places : WF_vars(ClientStep(p))
    /\ \A h, d \in Contents : WF_vars(DoWork(h, d))

-----------------------------------------------------------------------------
(* Properties                                                              *)

\* Every variable keeps its type.
ContentTypeOK ==
    /\ content \in [Places -> Contents]
    /\ pc \in [Places -> {"rest", "read", "query", "submit"}]
    /\ hash \in [Places -> Contents] /\ data \in [Places -> Contents]
    /\ registry \in [Places -> SUBSET (Contents \cup Objects)]
    /\ jobs \in [Contents -> [Contents -> Nat]]
    /\ docs \in [Contents -> {NoDoc} \cup [of : Contents, verdict : {"yes", "no", "none"}]]
    /\ edits \in 0..MaxEdits /\ faults \in 0..MaxFaults
    /\ mixed \subseteq Contents /\ failed \subseteq Contents /\ dropped \subseteq Contents
    /\ submitted \in [Contents -> Nat]

Judged(c) == docs[c] = Document(c, Verdict(c))

\* It went out as something else, or the model failed on it and the document says so,
\* or it was dropped and there is no document.
Excused(c) ==
    \/ c \in mixed
    \/ c \in failed /\ docs[c] = Document(c, "none")
    \/ c \in dropped /\ docs[c] = NoDoc

\* What a host is done with was judged as what it is, or will be, or is one of the
\* three exceptions.
DoneMeansJudgedOrDue ==
    \A p \in Files : \A c \in registry[p] :
        Judged(c) \/ jobs[c][c] > 0 \/ Excused(c)

\* The same of the store: a document tells the truth about its hash, or that there
\* is no verdict, unless something else was submitted under it.
DocumentsTellTheTruth ==
    \A c \in Contents : docs[c] = NoDoc \/ Judged(c) \/ Excused(c)

\* However often files change back and forth, and whoever races with whom, each
\* client submits a hash once, unless its registry got lost: what is analysed
\* again was submitted by another.
OncePerClient ==
    \A h \in Contents : submitted[h] =< Cardinality(Places) + faults

\* Together: what the store holds is true, and was paid for once by each client.
ContentInv == ContentTypeOK /\ DocumentsTellTheTruth /\ OncePerClient

\* A file that is left alone is judged in the end, unless it is excused; so is
\* an object, unless its path was entered for what it held before.
LeftAloneIsJudged ==
    \A p \in Places, c \in Contents :
        <>[](content[p] = c) =>
            <>(Judged(c) \/ Excused(c) \/ (p \in registry[p] /\ hash[p] # c))
=============================================================================
