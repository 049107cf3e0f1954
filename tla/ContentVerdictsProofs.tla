------------------------- MODULE ContentVerdictsProofs -------------------------
(***************************************************************************)
(* Machine-checked proofs about ContentVerdicts, for any files, objects    *)
(* and contents, and any number of changes and failures.                   *)
(***************************************************************************)
EXTENDS ContentVerdicts, FiniteSetTheorems, TLAPS

USE DEF Places

\* What the jobs and the documents are worth: a job under a hash its data do not
\* have was recorded as one, and every document is true but for the exceptions.
WorthInv ==
    /\ \A h, d \in Contents : jobs[h][d] > 0 => h = d \/ h \in mixed
    /\ \A h \in Contents : docs[h] = NoDoc \/ Judged(h) \/ Excused(h)

\* A client is about nothing that is in its registry: hashes for the files of a
\* host, for an object its own path.
Asking == {"read", "query", "submit"}

AboutInv ==
    /\ \A p \in Files :
        registry[p] \subseteq Contents /\ (pc[p] \in Asking => hash[p] \notin registry[p])
    /\ \A p \in Objects :
        registry[p] \subseteq {p} /\ (pc[p] \in Asking => p \notin registry[p])

\* The clients that are done with h stand for its submissions.
DoneWith(h) ==
    {p \in Files : h \in registry[p]} \cup {p \in Objects : p \in registry[p] /\ hash[p] = h}

CountInv == \A h \in Contents : submitted[h] <= Cardinality(DoneWith(h)) + faults

VerdictInv ==
    ContentTypeOK /\ WorthInv /\ AboutInv /\ CountInv /\ DoneMeansJudgedOrDue

-----------------------------------------------------------------------------
LEMMA Numbers ==
    /\ MaxEdits \in Nat /\ MaxFaults \in Nat
    /\ IsFiniteSet(Places) /\ Cardinality(Places) \in Nat
    /\ Files \cap Objects = {} /\ Places \cap Contents = {}
<1>1. IsFiniteSet(Places)
  BY ContentsAssumption
<1>2. QED
  BY <1>1, FS_CardinalityType, ContentsAssumption

LEMMA Counts ==
    ASSUME NEW D \in SUBSET Places
    PROVE  /\ Cardinality(D) \in Nat /\ Cardinality(D) <= Cardinality(Places)
           /\ \A E \in SUBSET Places : D \subseteq E => Cardinality(D) <= Cardinality(E)
           /\ \A x \in Places \ D : Cardinality(D \cup {x}) = Cardinality(D) + 1
           /\ \A x \in Places : Cardinality(D) <= Cardinality(D \ {x}) + 1
<1>1. \A E \in SUBSET Places : IsFiniteSet(E) /\ Cardinality(E) \in Nat
  BY Numbers, FS_Subset, FS_CardinalityType
<1>2. Cardinality(D) <= Cardinality(Places)
  BY Numbers, FS_Subset
<1>3. ASSUME NEW E \in SUBSET Places, D \subseteq E
      PROVE  Cardinality(D) <= Cardinality(E)
  BY <1>1, <1>3, FS_Subset
<1>4. ASSUME NEW x \in Places \ D PROVE Cardinality(D \cup {x}) = Cardinality(D) + 1
  BY <1>1, <1>4, FS_AddElement
<1>5. ASSUME NEW x \in Places PROVE Cardinality(D) <= Cardinality(D \ {x}) + 1
  <2>1. Cardinality(D \ {x}) = IF x \in D THEN Cardinality(D) - 1 ELSE Cardinality(D)
    BY <1>1, FS_RemoveElement
  <2>2. Cardinality(D) \in Nat
    BY <1>1
  <2>3. QED
    BY <2>1, <2>2
<1>6. QED
  BY <1>1, <1>2, <1>3, <1>4, <1>5

LEMMA VerdictType == ContentTypeOK /\ [ContentNext]_vars => ContentTypeOK'
<1> SUFFICES ASSUME ContentTypeOK, [ContentNext]_vars PROVE ContentTypeOK'
  OBVIOUS
<1> USE DEF ContentTypeOK
<1>1. ASSUME NEW p \in Places, Modify(p) PROVE ContentTypeOK'
  BY <1>1, Numbers DEF Modify, client, past
<1>2. ASSUME NEW p \in Places, ProcessFile(p) \/ ReadFile(p) \/ Analyze(p)
      PROVE  ContentTypeOK'
  <2>1. content[p] \in Contents
    BY <1>2
  <2>2. CASE ProcessFile(p)
    BY <2>1, <2>2 DEF ProcessFile, past
  <2>3. CASE ReadFile(p)
    BY <2>1, <2>3 DEF ReadFile, past
  <2>4. CASE Analyze(p)
    BY <2>1, <2>4 DEF Analyze, past
  <2>5. QED
    BY <1>2, <2>2, <2>3, <2>4
<1>3. ASSUME NEW p \in Places, Enter(p)
      PROVE  registry' \in [Places -> SUBSET (Contents \cup Objects)]
  BY <1>3 DEF Enter, Key
<1>4. ASSUME NEW p \in Places, Query(p) PROVE ContentTypeOK'
  <2>1. pc' \in [Places -> {"rest", "read", "query", "submit"}]
    BY <1>4 DEF Query
  <2>2. registry' \in [Places -> SUBSET (Contents \cup Objects)]
    BY <1>3, <1>4 DEF Query
  <2>3. QED
    BY <1>4, <2>1, <2>2 DEF Query, past
<1>5. ASSUME NEW p \in Places, Submit(p) PROVE ContentTypeOK'
  <2>1. /\ pc' \in [Places -> {"rest", "read", "query", "submit"}]
        /\ submitted' \in [Contents -> Nat] /\ mixed' \subseteq Contents
    BY <1>5 DEF Submit
  <2>2. registry' \in [Places -> SUBSET (Contents \cup Objects)]
    BY <1>3, <1>5 DEF Submit
  <2>3. jobs' \in [Contents -> [Contents -> Nat]]
    BY <1>5 DEF Submit
  <2>4. QED
    BY <1>5, <2>1, <2>2, <2>3 DEF Submit
<1>6. ASSUME NEW p \in Places, GivesUp(p) \/ LoadRegistry(p) PROVE ContentTypeOK'
  <2>1. faults' \in 0..MaxFaults
    BY <1>6, Numbers DEF GivesUp, LoadRegistry, Fault
  <2>2. CASE GivesUp(p)
    BY <2>1, <2>2 DEF GivesUp, past
  <2>3. CASE LoadRegistry(p)
    BY <2>1, <2>3 DEF LoadRegistry, past
  <2>4. QED
    BY <1>6, <2>2, <2>3
<1>7. ASSUME NEW h \in Contents, NEW d \in Contents, DoWork(h, d) PROVE ContentTypeOK'
  <2>1. jobs' \in [Contents -> [Contents -> Nat]]
    BY <1>7 DEF DoWork
  <2>2. docs' \in [Contents -> {NoDoc} \cup [of : Contents, verdict : {"yes", "no", "none"}]]
    <3>1. CASE docs' = docs
      BY <3>1
    <3>2. CASE docs' = [docs EXCEPT ![h] = Document(d, Verdict(d))]
      <4>1. Document(d, Verdict(d)) \in [of : Contents, verdict : {"yes", "no", "none"}]
        BY DEF Document, Verdict
      <4>2. QED
        BY <3>2, <4>1
    <3>3. CASE docs' = [docs EXCEPT ![h] = Document(d, "none")]
      <4>1. Document(d, "none") \in [of : Contents, verdict : {"yes", "no", "none"}]
        BY DEF Document
      <4>2. QED
        BY <3>3, <4>1
    <3>4. QED
      BY <1>7, <3>1, <3>2, <3>3 DEF DoWork, Drop
  <2>3. /\ failed' \subseteq Contents /\ dropped' \subseteq Contents
        /\ faults' \in 0..MaxFaults
    BY <1>7, Numbers DEF DoWork, Drop, Fault
  <2>4. QED
    BY <1>7, <2>1, <2>2, <2>3 DEF DoWork, client
<1>8. CASE UNCHANGED vars
  BY <1>8 DEF vars, client, past
<1>9. QED
  BY <1>1, <1>2, <1>4, <1>5, <1>6, <1>7, <1>8 DEF ContentNext, ClientStep

-----------------------------------------------------------------------------
\* The hash of a submission that a worker is done with is judged or excused.
LEMMA SettledBy ==
    ASSUME VerdictInv, NEW h \in Contents, NEW d \in Contents, DoWork(h, d)
    PROVE  Judged(h)' \/ Excused(h)'
<1> USE DEF VerdictInv, ContentTypeOK
<1>1. (h = d \/ h \in mixed) /\ UNCHANGED mixed
  BY DEF DoWork, WorthInv
<1>2. CASE docs' = [docs EXCEPT ![h] = Document(d, Verdict(d))]
  BY <1>1, <1>2 DEF Judged, Excused
<1>3. CASE docs' = [docs EXCEPT ![h] = Document(d, "none")] /\ failed' = failed \cup {h}
  BY <1>1, <1>3 DEF Excused
<1>4. CASE Drop(h)
  <2>1. docs[h] = NoDoc \/ Judged(h) \/ Excused(h)
    BY DEF WorthInv
  <2>2. UNCHANGED <<docs, failed>> /\ h \in dropped'
    BY <1>4 DEF Drop
  <2>3. QED
    BY <1>1, <2>1, <2>2 DEF Judged, Excused
<1>5. QED
  BY <1>2, <1>3, <1>4 DEF DoWork

LEMMA WorthStep == VerdictInv /\ [ContentNext]_vars => WorthInv'
<1> SUFFICES ASSUME VerdictInv, [ContentNext]_vars PROVE WorthInv'
  OBVIOUS
<1> USE DEF VerdictInv, ContentTypeOK
<1>1. CASE UNCHANGED <<jobs, docs, mixed, failed, dropped>>
  BY <1>1 DEF WorthInv, Judged, Excused
<1>2. ASSUME NEW p \in Places, Submit(p) PROVE WorthInv'
  <2>1. hash[p] \in Contents /\ data[p] \in Contents
    BY <1>2
  <2>2. /\ mixed \subseteq mixed' /\ UNCHANGED <<docs, failed, dropped>>
        /\ hash[p] = data[p] \/ hash[p] \in mixed'
    BY <1>2 DEF Submit
  <2>3. \A h, d \in Contents : jobs'[h][d] > 0 =>
            jobs[h][d] > 0 \/ (h = hash[p] /\ d = data[p])
    BY <1>2, <2>1 DEF Submit
  <2>4. QED
    BY <2>2, <2>3 DEF WorthInv, Judged, Excused
<1>3. ASSUME NEW h \in Contents, NEW d \in Contents, DoWork(h, d) PROVE WorthInv'
  <2>1. h = d \/ h \in mixed
    BY <1>3 DEF DoWork, WorthInv
  <2>2. UNCHANGED mixed /\ failed \subseteq failed' /\ dropped \subseteq dropped'
        /\ \A g \in Contents : g # h => docs'[g] = docs[g]
    BY <1>3 DEF DoWork, Drop
  <2>3. \A g, e \in Contents : jobs'[g][e] > 0 => jobs[g][e] > 0
    BY <1>3 DEF DoWork
  <2>4. docs'[h] = NoDoc \/ Judged(h)' \/ Excused(h)'
    BY <1>3, SettledBy
  <2>5. QED
    BY <2>1, <2>2, <2>3, <2>4 DEF WorthInv, Judged, Excused
<1>4. QED
  BY <1>1, <1>2, <1>3
     DEF ContentNext, ClientStep, Modify, ProcessFile, ReadFile, Analyze, Query,
         GivesUp, LoadRegistry, vars, past

LEMMA AboutStep == VerdictInv /\ [ContentNext]_vars => AboutInv'
<1> SUFFICES ASSUME VerdictInv, [ContentNext]_vars PROVE AboutInv'
  OBVIOUS
<1> USE DEF VerdictInv, ContentTypeOK
<1>1. CASE UNCHANGED client
  BY <1>1 DEF AboutInv, client
<1>2. ASSUME NEW p \in Places, ProcessFile(p) \/ ReadFile(p) \/ Analyze(p)
      PROVE  AboutInv'
  <2>1. UNCHANGED registry /\ content[p] \in Contents
    BY <1>2 DEF ProcessFile, ReadFile, Analyze
  <2>2. CASE ProcessFile(p)
    BY <2>1, <2>2, Numbers DEF ProcessFile, AboutInv, Asking
  <2>3. CASE ReadFile(p)
    BY <2>1, <2>3 DEF ReadFile, AboutInv, Asking
  <2>4. CASE Analyze(p)
    BY <2>1, <2>4, Numbers DEF Analyze, AboutInv, Asking
  <2>5. QED
    BY <1>2, <2>2, <2>3, <2>4
<1>3. ASSUME NEW p \in Places, Query(p) \/ Submit(p) PROVE AboutInv'
  <2>1. hash[p] \in Contents /\ UNCHANGED hash /\ "rest" \notin Asking
        /\ pc[p] \in Asking
    BY <1>3 DEF Query, Submit, Asking
  <2>2. \A q \in Places : q # p => pc'[q] = pc[q] /\ registry'[q] = registry[q]
    BY <1>3 DEF Query, Submit, Enter
  <2>3. \/ pc'[p] = "rest" /\ registry'[p] = registry[p] \cup {Key(p)}
        \/ pc'[p] \in Asking /\ registry'[p] = registry[p]
    BY <1>3 DEF Query, Submit, Enter, Asking
  <2>4. CASE p \in Files
    <3>1. Key(p) = hash[p] /\ p \notin Objects
      BY <2>4, Numbers DEF Key
    <3>2. \A q \in Objects : pc'[q] = pc[q] /\ registry'[q] = registry[q]
      BY <2>2, <3>1
    <3>3. \A q \in Files : registry'[q] \subseteq Contents
                          /\ (pc'[q] \in Asking => hash[q] \notin registry'[q])
      <4>1. registry'[p] \subseteq Contents
            /\ (pc'[p] \in Asking => hash[p] \notin registry'[p])
        BY <2>1, <2>3, <2>4, <3>1 DEF AboutInv
      <4>2. QED
        BY <2>2, <4>1 DEF AboutInv
    <3>4. QED
      BY <2>1, <3>2, <3>3 DEF AboutInv
  <2>5. CASE p \in Objects
    <3>1. Key(p) = p /\ p \notin Files
      BY <2>5, Numbers DEF Key
    <3>2. \A q \in Files : pc'[q] = pc[q] /\ registry'[q] = registry[q]
      BY <2>2, <3>1
    <3>3. registry'[p] \subseteq {p} /\ (pc'[p] \in Asking => p \notin registry'[p])
      BY <2>1, <2>3, <2>5, <3>1 DEF AboutInv
    <3>4. QED
      BY <2>1, <2>2, <3>2, <3>3 DEF AboutInv
  <2>6. QED
    BY <2>4, <2>5
<1>4. ASSUME NEW p \in Places, GivesUp(p) \/ LoadRegistry(p) PROVE AboutInv'
  BY <1>4 DEF GivesUp, LoadRegistry, AboutInv, Asking
<1>5. QED
  BY <1>1, <1>2, <1>3, <1>4
     DEF ContentNext, ClientStep, Modify, DoWork, vars

LEMMA CountStep == VerdictInv /\ [ContentNext]_vars => CountInv'
<1> SUFFICES ASSUME VerdictInv, [ContentNext]_vars, NEW h \in Contents
             PROVE  submitted'[h] <= Cardinality(DoneWith(h)') + faults'
  BY DEF CountInv
<1> USE DEF VerdictInv, ContentTypeOK
<1>1. /\ DoneWith(h) \subseteq Places /\ DoneWith(h)' \subseteq Places
      /\ Cardinality(DoneWith(h)) \in Nat /\ Cardinality(DoneWith(h)') \in Nat
  BY Counts DEF DoneWith
<1>2. /\ submitted[h] <= Cardinality(DoneWith(h)) + faults
      /\ submitted[h] \in Nat /\ faults \in Nat
  BY Numbers DEF CountInv
<1>3. ASSUME DoneWith(h) \subseteq DoneWith(h)', submitted'[h] = submitted[h],
             faults' = faults \/ faults' = faults + 1
      PROVE  submitted'[h] <= Cardinality(DoneWith(h)') + faults'
  <2>1. Cardinality(DoneWith(h)) <= Cardinality(DoneWith(h)')
    BY <1>1, <1>3, Counts
  <2>2. QED
    BY <1>1, <1>2, <1>3, <2>1
<1>4. CASE UNCHANGED <<hash, registry, submitted>>
           /\ (faults' = faults \/ faults' = faults + 1)
  BY <1>3, <1>4 DEF DoneWith
<1>5. ASSUME NEW p \in Places, ProcessFile(p) \/ Analyze(p)
      PROVE  submitted'[h] <= Cardinality(DoneWith(h)') + faults'
  <2>1. /\ UNCHANGED <<registry, submitted, faults>>
        /\ \A q \in Places : hash'[q] = hash[q] \/ (q = p /\ p \in Files)
                             \/ (q = p /\ p \notin registry[p])
    BY <1>5 DEF ProcessFile, Analyze, past
  <2>2. DoneWith(h) \subseteq DoneWith(h)'
    BY <2>1, Numbers DEF DoneWith
  <2>3. QED
    BY <1>3, <2>1, <2>2
<1>6. ASSUME NEW p \in Places, Query(p)
      PROVE  submitted'[h] <= Cardinality(DoneWith(h)') + faults'
  <2>1. /\ UNCHANGED <<hash, submitted, faults>>
        /\ \A q \in Places : registry[q] \subseteq registry'[q]
    <3>1. UNCHANGED <<hash, submitted, faults>>
      BY <1>6 DEF Query, past
    <3>2. UNCHANGED registry \/ Enter(p)
      BY <1>6 DEF Query
    <3>3. QED
      BY <3>1, <3>2 DEF Enter
  <2>2. DoneWith(h) \subseteq DoneWith(h)'
    BY <2>1 DEF DoneWith
  <2>3. QED
    BY <1>3, <2>1, <2>2
<1>7. ASSUME NEW p \in Places, Submit(p)
      PROVE  submitted'[h] <= Cardinality(DoneWith(h)') + faults'
  <2>1. /\ UNCHANGED <<hash, faults>> /\ hash[p] \in Contents
        /\ \A q \in Places : registry[q] \subseteq registry'[q]
        /\ registry'[p] = registry[p] \cup {Key(p)} /\ pc[p] \in Asking
        /\ submitted'[h] = IF h = hash[p] THEN submitted[h] + 1 ELSE submitted[h]
    BY <1>7 DEF Submit, Enter, Asking
  <2>2. DoneWith(h) \subseteq DoneWith(h)'
    BY <2>1 DEF DoneWith
  <2>3. CASE h # hash[p]
    BY <1>3, <2>1, <2>2, <2>3
  <2>4. CASE h = hash[p]
    <3>1. p \notin DoneWith(h) /\ p \in DoneWith(h)'
      BY <2>1, <2>4, Numbers DEF AboutInv, DoneWith, Key
    <3>2. Cardinality(DoneWith(h) \cup {p}) = Cardinality(DoneWith(h)) + 1
      BY <1>1, <3>1, Counts
    <3>3. Cardinality(DoneWith(h) \cup {p}) <= Cardinality(DoneWith(h)')
      <4>1. DoneWith(h) \cup {p} \subseteq DoneWith(h)'
        BY <2>2, <3>1
      <4>2. DoneWith(h) \cup {p} \subseteq Places
        BY <1>1
      <4>3. QED
        BY <1>1, <4>1, <4>2, Counts
    <3>4. QED
      BY <1>1, <1>2, <2>1, <2>4, <3>2, <3>3
  <2>5. QED
    BY <2>3, <2>4
<1>8. ASSUME NEW p \in Places, LoadRegistry(p)
      PROVE  submitted'[h] <= Cardinality(DoneWith(h)') + faults'
  <2>1. /\ UNCHANGED <<hash, submitted>> /\ faults' = faults + 1
        /\ \A q \in Places : q # p => registry'[q] = registry[q]
    BY <1>8 DEF LoadRegistry, Fault, past
  <2>2. DoneWith(h) \ {p} \subseteq DoneWith(h)'
    BY <2>1 DEF DoneWith
  <2>3. Cardinality(DoneWith(h) \ {p}) <= Cardinality(DoneWith(h)')
    BY <1>1, <2>2, Counts
  <2>4. /\ Cardinality(DoneWith(h)) <= Cardinality(DoneWith(h) \ {p}) + 1
        /\ Cardinality(DoneWith(h) \ {p}) \in Nat
    BY <1>1, Counts
  <2>5. QED
    BY <1>1, <1>2, <2>1, <2>3, <2>4
<1>9. QED
  BY <1>4, <1>5, <1>6, <1>7, <1>8
     DEF ContentNext, ClientStep, Modify, ReadFile, GivesUp, DoWork, Fault, vars,
         client, past

LEMMA DoneStep ==
    ASSUME VerdictInv, [ContentNext]_vars
    PROVE  DoneMeansJudgedOrDue'
<1> USE DEF VerdictInv, ContentTypeOK
<1>1. CASE UNCHANGED <<registry, jobs, docs, mixed, failed, dropped>>
  BY <1>1 DEF DoneMeansJudgedOrDue, Judged, Excused
<1> DEFINE Due(c) == Judged(c) \/ jobs[c][c] > 0 \/ Excused(c)
<1>2. \A p \in Files, c \in Contents : c \in registry[p] => Due(c)
  BY DEF DoneMeansJudgedOrDue
<1>3. ASSUME \A c \in Contents : Due(c) => Due(c)',
             \A p \in Files : registry'[p] \subseteq Contents,
             \A p \in Files : \A c \in registry'[p] : c \in registry[p] \/ Due(c)'
      PROVE  DoneMeansJudgedOrDue'
  BY <1>2, <1>3 DEF DoneMeansJudgedOrDue
<1>4. \A p \in Files : registry'[p] \subseteq Contents
  BY AboutStep DEF AboutInv
<1>5. ASSUME NEW p \in Places, Query(p) PROVE DoneMeansJudgedOrDue'
  <2>1. UNCHANGED <<jobs, docs, mixed, failed, dropped>> /\ hash[p] \in Contents
    BY <1>5 DEF Query, past
  <2>2. \A c \in Contents : Due(c) => Due(c)'
    BY <2>1 DEF Judged, Excused
  <2>3. \A q \in Files : \A c \in registry'[q] :
            c \in registry[q] \/ (c = hash[p] /\ docs[hash[p]] # NoDoc)
    <3>1. UNCHANGED registry \/ (Enter(p) /\ docs[hash[p]] # NoDoc)
      BY <1>5 DEF Query
    <3>2. CASE Enter(p) /\ docs[hash[p]] # NoDoc
      <4>1. p \in Files => Key(p) = hash[p]
        BY Numbers DEF Key
      <4>2. QED
        BY <3>2, <4>1 DEF Enter
    <3>3. QED
      BY <3>1, <3>2
  <2>4. docs[hash[p]] # NoDoc => Due(hash[p])
    BY <2>1 DEF WorthInv
  <2>5. QED
    BY <1>3, <1>4, <2>1, <2>2, <2>3, <2>4
<1>6. ASSUME NEW p \in Places, Submit(p) PROVE DoneMeansJudgedOrDue'
  <2>1. /\ UNCHANGED <<docs, failed, dropped>> /\ mixed \subseteq mixed'
        /\ hash[p] \in Contents /\ data[p] \in Contents
        /\ hash[p] = data[p] \/ hash[p] \in mixed'
    BY <1>6 DEF Submit
  <2>2. /\ \A c \in Contents : jobs[c][c] > 0 => jobs'[c][c] > 0
        /\ jobs'[hash[p]][data[p]] > 0
    BY <1>6, <2>1 DEF Submit
  <2>3. \A c \in Contents : Due(c) => Due(c)'
    BY <2>1, <2>2 DEF Judged, Excused
  <2>4. Due(hash[p])'
    BY <1>6, <2>1, <2>2 DEF Excused, Submit
  <2>5. \A q \in Files : \A c \in registry'[q] : c \in registry[q] \/ c = hash[p]
    BY <1>6, Numbers DEF Submit, Enter, Key
  <2>6. QED
    BY <1>3, <1>4, <1>6, <2>3, <2>4, <2>5 DEF Submit
<1>7. ASSUME NEW p \in Places, LoadRegistry(p) PROVE DoneMeansJudgedOrDue'
  <2>1. UNCHANGED <<jobs, docs, mixed, failed, dropped>>
        /\ \A q \in Places : registry'[q] \subseteq registry[q]
    BY <1>7 DEF LoadRegistry, past
  <2>2. \A c \in Contents : Due(c) => Due(c)'
    BY <2>1 DEF Judged, Excused
  <2>3. QED
    BY <1>3, <1>4, <2>1, <2>2
<1>8. ASSUME NEW h \in Contents, NEW d \in Contents, DoWork(h, d)
      PROVE  DoneMeansJudgedOrDue'
  <2>1. /\ UNCHANGED <<registry, mixed>> /\ failed \subseteq failed'
        /\ dropped \subseteq dropped'
    BY <1>8 DEF DoWork, Drop, client
  <2>2. Judged(h)' \/ Excused(h)'
    BY <1>8, SettledBy
  <2>3. \A c \in Contents : c # h => docs'[c] = docs[c] /\ jobs'[c][c] = jobs[c][c]
    BY <1>8 DEF DoWork, Drop
  <2>4. \A c \in Contents : Due(c) => Due(c)'
    <3>1. ASSUME NEW c \in Contents, Due(c), c # h PROVE Due(c)'
      <4>1. Judged(c) => Judged(c)'
        BY <2>3, <3>1 DEF Judged
      <4>2. Excused(c) => Excused(c)'
        BY <2>1, <2>3, <3>1 DEF Excused
      <4>3. jobs[c][c] > 0 => jobs'[c][c] > 0
        BY <2>3, <3>1
      <4>4. QED
        BY <3>1, <4>1, <4>2, <4>3
    <3>2. Due(h)'
      BY <2>2
    <3>3. QED
      BY <3>1, <3>2
  <2>5. \A p \in Files : \A c \in registry'[p] : c \in registry[p]
    BY <2>1
  <2>6. QED
    BY <1>3, <1>4, <2>4, <2>5
<1>9. QED
  BY <1>1, <1>5, <1>6, <1>7, <1>8
     DEF ContentNext, ClientStep, Modify, ProcessFile, ReadFile, Analyze, GivesUp,
         vars, client, past

LEMMA VerdictInit == ContentInit => VerdictInv
<1> SUFFICES ASSUME ContentInit PROVE VerdictInv
  OBVIOUS
<1> USE DEF ContentInit
<1>1. ContentTypeOK
  BY ContentsAssumption, Numbers DEF ContentTypeOK
<1>2. WorthInv /\ AboutInv /\ DoneMeansJudgedOrDue
  BY DEF WorthInv, AboutInv, Asking, DoneMeansJudgedOrDue
<1>3. CountInv
  <2>1. \A h : Cardinality(DoneWith(h)) \in Nat
    BY Counts DEF DoneWith
  <2>2. QED
    BY <2>1 DEF CountInv
<1>4. QED
  BY <1>1, <1>2, <1>3 DEF VerdictInv

LEMMA VerdictNext == VerdictInv /\ [ContentNext]_vars => VerdictInv'
  BY VerdictType, WorthStep, AboutStep, CountStep, DoneStep DEF VerdictInv

\* A document tells the truth about its hash, or that the model gave no verdict,
\* unless something else went out under it; and each client submits a hash once,
\* unless it lost its registry, however files change while they are read.
THEOREM VerdictsTrue == ContentSpec => []ContentInv
<1>1. VerdictInv => ContentInv
  <2> SUFFICES ASSUME VerdictInv PROVE ContentInv
    OBVIOUS
  <2>1. DocumentsTellTheTruth
    BY DEF VerdictInv, WorthInv, DocumentsTellTheTruth
  <2>2. ASSUME NEW h \in Contents
        PROVE  submitted[h] =< Cardinality(Places) + faults
    <3>1. /\ Cardinality(DoneWith(h)) <= Cardinality(Places)
          /\ Cardinality(DoneWith(h)) \in Nat /\ Cardinality(Places) \in Nat
      BY Counts, Numbers DEF DoneWith
    <3>2. /\ submitted[h] <= Cardinality(DoneWith(h)) + faults
          /\ submitted[h] \in Nat /\ faults \in Nat
      BY Numbers DEF VerdictInv, CountInv, ContentTypeOK
    <3>3. QED
      BY <3>1, <3>2
  <2>3. QED
    BY <2>1, <2>2 DEF ContentInv, OncePerClient, VerdictInv
<1>2. QED
  BY <1>1, VerdictInit, VerdictNext, PTL DEF ContentSpec

\* A host is done with a hash only when its content was judged, or is about to be, or
\* something else went out under it, or its document says that there is no verdict, or
\* it was dropped by a worker and has no document: whatever fails, at the client or in
\* DoWork, nothing else comes between an entry of the registry and a verdict.
THEOREM DoneIsJudged == ContentSpec => []DoneMeansJudgedOrDue
<1>1. VerdictInv => DoneMeansJudgedOrDue
  BY DEF VerdictInv
<1>2. QED
  BY <1>1, VerdictInit, VerdictNext, PTL DEF ContentSpec
=============================================================================
