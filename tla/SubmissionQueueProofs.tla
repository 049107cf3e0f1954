------------------------ MODULE SubmissionQueueProofs ------------------------
(***************************************************************************)
(* Machine-checked proofs about SubmissionQueue, for any number of         *)
(* submissions and workers, any failures and any number of restarts; that  *)
(* it implements DurableDelivery; and about the answers of HAProxyAgent.   *)
(***************************************************************************)
EXTENDS QueueDelivery, HAProxyAgent, FiniteSetTheorems, SequenceTheorems,
        WellFoundedInduction, TLAPS

-----------------------------------------------------------------------------
(* Helpers on the operators of the model                                   *)

LEMMA MaxWorkersType == MaxWorkers \in Nat \ {0}
BY WorkersAssumption, FS_CardinalityType, FS_EmptySet DEF MaxWorkers

\* A listing is a sequence of distinct files of the directory.
LEMMA ListingsType ==
    ASSUME NEW S \in SUBSET Submissions, NEW q \in Listings(S)
    PROVE  /\ q \in Seq(S)
           /\ \A i, j \in 1..Len(q) : i # j => q[i] # q[j]
<1>1. IsFiniteSet(S)
  BY SubmissionsAssumption, FS_Subset
<1>2. Cardinality(S) \in Nat
  BY <1>1, FS_CardinalityType
<1>3. q \in [1..Cardinality(S) -> S]
  BY DEF Listings
<1>4. q \in Seq(S) /\ Len(q) = Cardinality(S) /\ DOMAIN q = 1..Len(q)
  BY <1>2, <1>3
<1>5. \A i, j \in 1..Len(q) : i < j => q[i] # q[j]
  BY <1>4 DEF Listings
<1>6. QED
  BY <1>2, <1>4, <1>5

\* The elements of a sequence that grows at its end.
LEMMA AppendRange ==
    ASSUME NEW S, NEW q \in Seq(S), NEW e \in S
    PROVE  Range(Append(q, e)) = Range(q) \cup {e}
<1>1. /\ Append(q, e) \in Seq(S) /\ Len(Append(q, e)) = Len(q) + 1
      /\ \A i \in 1..Len(q) : Append(q, e)[i] = q[i]
      /\ Append(q, e)[Len(q) + 1] = e
  OBVIOUS
<1>2. 1..Len(Append(q, e)) = 1..Len(q) \cup {Len(q) + 1}
  BY <1>1
<1>3. Range(Append(q, e)) = {Append(q, e)[i] : i \in 1..Len(Append(q, e))}
  BY <1>1, RangeEquality
<1>4. Range(q) = {q[i] : i \in 1..Len(q)}
  BY RangeEquality
<1>5. QED
  BY <1>1, <1>2, <1>3, <1>4

\* The elements of a sequence that shrinks at its head.
LEMMA HeadTailRange ==
    ASSUME NEW S, NEW q \in Seq(S), q # <<>>
    PROVE  Range(q) = {Head(q)} \cup Range(Tail(q))
<1>1. /\ Len(Tail(q)) = Len(q) - 1 /\ Head(q) = q[1] /\ Len(q) \in Nat \ {0}
      /\ \A i \in 1..Len(Tail(q)) : Tail(q)[i] = q[i + 1]
      /\ Tail(q) \in Seq(S)
  OBVIOUS
<1>2. \A i \in 1..Len(q) : i = 1 \/ i - 1 \in 1..Len(Tail(q))
  BY <1>1
<1>3. \A i \in 1..Len(Tail(q)) : i + 1 \in 1..Len(q)
  BY <1>1
<1>4. \A i \in 1..Len(q) : i = 1 \/ Tail(q)[i - 1] = q[i]
  BY <1>1, <1>2
<1>5. Range(q) = {q[i] : i \in 1..Len(q)}
  BY RangeEquality
<1>6. Range(Tail(q)) = {Tail(q)[i] : i \in 1..Len(Tail(q))}
  BY <1>1, RangeEquality
<1>7. ASSUME NEW x \in Range(q)
      PROVE  x \in {Head(q)} \cup Range(Tail(q))
  <2>1. PICK i \in 1..Len(q) : x = q[i]
    BY <1>5
  <2>2. CASE i = 1
    BY <1>1, <2>1, <2>2
  <2>3. CASE i # 1
    BY <1>2, <1>4, <1>6, <2>1, <2>3
  <2>4. QED
    BY <2>2, <2>3
<1>8. Range(Tail(q)) \subseteq Range(q)
  BY <1>1, <1>3, <1>5, <1>6
<1>9. Head(q) \in Range(q)
  BY <1>1, <1>5
<1>10. QED
  BY <1>7, <1>8, <1>9

-----------------------------------------------------------------------------
(* Type correctness                                                        *)

\* The monitor holds a listing exactly when it is not about to take one.
ListingHeld == monitor = "scan" <=> matches = <<>>

TypeInv == TypeOK /\ ListingHeld

LEMMA TypeInvInit == Init => TypeInv
BY MaxWorkersType, SubmissionsAssumption
   DEF Init, TypeInv, TypeOK, ListingHeld, InFlight, Answers

LEMMA TypeInvHandle ==
    ASSUME TypeInv, NEW s \in Submissions, Handle(s)
    PROVE  TypeInv'
<1> USE DEF TypeInv, TypeOK, ListingHeld, InFlight, Answers, Move, Accepted,
            server, handler, disk, monitoring, pool, bounds, history, Fault
<1>1. CASE Refuse(s)
  BY <1>1 DEF Refuse
<1>2. CASE Count(s)
  BY <1>2 DEF Count
<1>3. CASE CreateTemp(s)
  BY <1>3 DEF CreateTemp
<1>4. CASE CreateFails(s)
  BY <1>4 DEF CreateFails
<1>5. CASE Write(s)
  BY <1>5 DEF Write
<1>6. CASE CloseFails(s)
  BY <1>6 DEF CloseFails
<1>7. CASE WriteFails(s)
  <2>1. name' = name \/ name' = [name EXCEPT ![s] = "none"]
    BY <1>7 DEF WriteFails, Removed
  <2>2. name' \in [Submissions -> {"none", "tmp", "data"}]
    BY <2>1
  <2>3. UNCHANGED <<server, epoch, whole, monitoring, jobs, pool, settled,
                    history, stops>>
        /\ faults' = faults + 1 /\ writer' = [writer EXCEPT ![s] = "undo"]
    BY <1>7 DEF WriteFails
  <2>4. QED
    BY <2>2, <2>3
<1>8. CASE Rename(s)
  BY <1>8 DEF Rename
<1>9. CASE RenameFails(s)
  <2>1. name' = name \/ name' = [name EXCEPT ![s] = "none"]
    BY <1>9 DEF RenameFails, Removed
  <2>2. name' \in [Submissions -> {"none", "tmp", "data"}]
    BY <2>1
  <2>3. UNCHANGED <<server, epoch, whole, monitoring, jobs, pool, settled,
                    history, stops>>
        /\ faults' = faults + 1 /\ writer' = [writer EXCEPT ![s] = "undo"]
    BY <1>9 DEF RenameFails
  <2>4. QED
    BY <2>2, <2>3
<1>10. CASE Undo(s)
  BY <1>10 DEF Undo
<1>11. CASE Respond(s)
  BY <1>11 DEF Respond
<1>12. QED
  BY <1>1, <1>2, <1>3, <1>4, <1>5, <1>6, <1>7, <1>8, <1>9, <1>10, <1>11
     DEF Handle, Arrive, Continue

LEMMA TypeInvMonitor ==
    ASSUME TypeInv, Monitor_Queue
    PROVE  TypeInv'
<1> USE DEF TypeInv, TypeOK, ListingHeld, InFlight, Answers,
            server, handler, disk, monitoring, pool, bounds, history, Fault
<1>1. CASE Scan
  <2>1. PICK q \in Listings(DataFiles) : Proceed(q)
    BY <1>1 DEF Scan
  <2>2. DataFiles \in SUBSET Submissions
    BY DEF DataFiles
  <2>3. q \in Seq(Submissions)
    <3>1. q \in Seq(DataFiles)
      BY <2>1, <2>2, ListingsType
    <3>2. QED
      BY <2>2, <3>1, SeqMonotonic
  <2>4. UNCHANGED <<server, handler, disk, jobs, pool, settled, bounds, history>>
    BY <1>1 DEF Scan
  <2>5. QED
    BY <2>1, <2>3, <2>4 DEF Proceed
<1>2. CASE ScanFails
  BY <1>2 DEF ScanFails
<1>3. CASE Read
  BY <1>3 DEF Read
<1>4. CASE ReadFails
  <2>1. matches # <<>> /\ Head(matches) \in Submissions
    BY <1>4 DEF ReadFails
  <2>2. name' = name \/ name' = [name EXCEPT ![Head(matches)] = "none"]
    BY <1>4 DEF ReadFails, Removed
  <2>3. name' \in [Submissions -> {"none", "tmp", "data"}]
    BY <2>1, <2>2
  <2>4. undeleted' \in Nat
    BY <1>4 DEF ReadFails
  <2>5. UNCHANGED <<server, handler, whole, matches, jobs, pool, settled, ahead,
                    sent, again, leaked, inherited, stops>>
        /\ faults' = faults + 1 /\ monitor' = "decrement" /\ monitor = "read"
        /\ dropped' = dropped \cup {Head(matches)}
    BY <1>4 DEF ReadFails
  <2>6. QED
    BY <2>1, <2>3, <2>4, <2>5
<1>5. CASE Send
  <2>1. matches # <<>> /\ Head(matches) \in Submissions
    BY <1>5 DEF Send
  <2>2. jobs' \in Seq(Submissions) /\ Len(jobs') = Len(jobs) + 1
    BY <1>5, <2>1 DEF Send
  <2>3. Len(jobs') =< MaxWorkers
    BY <1>5, <2>2, MaxWorkersType DEF Send
  <2>4. QED
    BY <1>5, <2>1, <2>2, <2>3 DEF Send
<1>6. CASE Remove
  BY <1>6 DEF Remove
<1>7. CASE RemoveFails
  <2>1. matches # <<>> /\ Head(matches) \in Submissions
    BY <1>7 DEF RemoveFails
  <2>2. QED
    BY <1>7, <2>1 DEF RemoveFails
<1>8. CASE Decrement
  <2>1. Tail(matches) \in Seq(Submissions)
    BY <1>8 DEF Decrement
  <2>2. QED
    <3>1. monitor' \in {"scan", "read"} /\ ListingHeld'
      BY <1>8 DEF Decrement, Proceed
    <3>2. matches' = Tail(matches) /\ queue_size' \in Int
      BY <1>8 DEF Decrement, Proceed
    <3>3. QED
      BY <1>8, <2>1, <3>1, <3>2 DEF Decrement
<1>9. QED
  BY <1>1, <1>2, <1>3, <1>4, <1>5, <1>6, <1>7, <1>8 DEF Monitor_Queue

LEMMA TypeInvWorker ==
    ASSUME TypeInv, NEW w \in Workers, Worker(w)
    PROVE  TypeInv'
<1> USE DEF TypeInv, TypeOK, ListingHeld, InFlight, Answers, Idle, Done,
            server, handler, disk, monitoring, pool, bounds, history, Fault
<1>1. CASE Take(w)
  <2>1. jobs # <<>> /\ Head(jobs) \in Submissions
    BY <1>1 DEF Take
  <2>2. jobs' \in Seq(Submissions) /\ Len(jobs') = Len(jobs) - 1
    BY <1>1, <2>1 DEF Take
  <2>3. Len(jobs') =< MaxWorkers
    BY <2>2, MaxWorkersType
  <2>4. QED
    BY <1>1, <2>1, <2>2, <2>3 DEF Take
<1>2. CASE Skip(w)
  BY <1>2 DEF Skip
<1>3. CASE Index(w)
  BY <1>3 DEF Index
<1>4. CASE IndexFails(w)
  BY <1>4 DEF IndexFails
<1>5. CASE Quit(w)
  BY <1>5 DEF Quit
<1>6. QED
  BY <1>1, <1>2, <1>3, <1>4, <1>5 DEF Worker

LEMMA TypeInvProcess ==
    ASSUME TypeInv, Tick \/ Signal \/ Exit \/ Crash \/ Start
    PROVE  TypeInv'
<1> USE DEF TypeInv, TypeOK, ListingHeld, InFlight, Answers,
            server, handler, disk, monitoring, pool, bounds, history
<1>1. CASE Tick
  BY <1>1 DEF Tick
<1>2. CASE Signal
  BY <1>2 DEF Signal
<1>3. ASSUME End, stops' \in Nat
      PROVE  TypeInv'
  <2>1. InMemory \subseteq Submissions \cup {NoJob} /\ AtRisk \subseteq Submissions
    <3>1. InHand \subseteq Submissions
      BY DEF InHand
    <3>2. InChannel \subseteq Submissions
      BY RangeOfSeq DEF InChannel
    <3>3. InWork \subseteq Submissions
      BY DEF InWork
    <3>4. QED
      BY <3>1, <3>2, <3>3 DEF InMemory, AtRisk
  <2>2. again' \subseteq Submissions
    BY <1>3 DEF End
  <2>3. dropped' \subseteq Submissions
    BY <1>3, <2>1 DEF End
  <2>4. jobs' \in Seq(Submissions) /\ Len(jobs') =< MaxWorkers
    BY <1>3, MaxWorkersType DEF End
  <2>5. QED
    BY <1>3, <2>2, <2>3, <2>4 DEF End
<1>4. CASE Exit
  BY <1>3, <1>4 DEF Exit
<1>5. CASE Crash
  <2>1. End /\ stops' \in Nat
    BY <1>5 DEF Crash
  <2>2. QED
    BY <1>3, <2>1
<1>6. CASE Start
  <2>1. Cardinality(DataFiles) \in Nat
    BY SubmissionsAssumption, FS_Subset, FS_CardinalityType DEF DataFiles
  <2>2. QED
    BY <1>6, <2>1 DEF Start
<1>7. QED
  BY <1>1, <1>2, <1>4, <1>5, <1>6

LEMMA TypeInvStep == TypeInv /\ [Next]_vars => TypeInv'
<1>1. ASSUME TypeInv, UNCHANGED vars
      PROVE  TypeInv'
  BY <1>1 DEF TypeInv, TypeOK, ListingHeld, vars, server, handler, disk,
              monitoring, pool, bounds, history
<1>2. QED
  BY <1>1, TypeInvHandle, TypeInvMonitor, TypeInvWorker, TypeInvProcess DEF Next

\* Every variable keeps its type, in every reachable state of every instance.
THEOREM TypeCorrect == Spec => []TypeOK
<1>1. TypeInv => TypeOK
  BY DEF TypeInv
<1>2. QED
  BY <1>1, TypeInvInit, TypeInvStep, PTL DEF Spec

-----------------------------------------------------------------------------
(* The queue directory as handlers and monitor see it                      *)

\* Only a handler that got past the rename has a .data file, and only files
\* still on disk are in the rest of the listing, each of them once; the file in
\* hand may be gone once its counter is due.
DiskInv ==
    /\ \A s \in DataFiles : writer[s] \in {"committed", "202", "cut"}
    /\ \A i \in 1..Len(matches) :
          matches[i] \in DataFiles \/ (i = 1 /\ monitor = "decrement")
    /\ \A i, j \in 1..Len(matches) : i # j => matches[i] # matches[j]

LEMMA DiskInvInit == Init => DiskInv
BY DEF Init, DiskInv, DataFiles

LEMMA DiskInvHandle ==
    ASSUME TypeInv, DiskInv, NEW s \in Submissions, Handle(s)
    PROVE  DiskInv'
<1> USE DEF TypeInv, TypeOK, DiskInv, Move, DataFiles
<1>1. /\ \A t \in Submissions \ {s} : name'[t] = name[t] /\ writer'[t] = writer[t]
      /\ UNCHANGED <<matches, monitor>>
  BY DEF Handle, Arrive, Continue, Refuse, Count, CreateTemp, CreateFails, Write,
         CloseFails, WriteFails, Rename, RenameFails, Undo, Respond, Removed,
         disk, handler, monitoring
<1>2. /\ name[s] = "data" => name'[s] = "data"
      /\ name'[s] = "data" => writer'[s] \in {"committed", "202", "cut"}
  BY DEF Handle, Arrive, Continue, Refuse, Count, CreateTemp, CreateFails, Write,
         CloseFails, WriteFails, Rename, RenameFails, Undo, Respond, Removed,
         disk, handler, monitoring
<1>3. QED
  BY <1>1, <1>2

\* Going on to the next file keeps what is known of the listing.
LEMMA DiskInvMonitor ==
    ASSUME TypeInv, DiskInv, Monitor_Queue
    PROVE  DiskInv'
<1> USE DEF TypeInv, TypeOK, ListingHeld, DiskInv, DataFiles, server, handler,
            disk, monitoring
<1>1. CASE Scan
  <2>1. PICK q \in Listings(DataFiles) : Proceed(q)
    BY <1>1 DEF Scan
  <2>2. q \in Seq(DataFiles) /\ \A i, j \in 1..Len(q) : i # j => q[i] # q[j]
    BY <2>1, ListingsType
  <2>3. UNCHANGED <<handler, disk>> /\ matches' = q
    BY <1>1, <2>1 DEF Scan, Proceed
  <2>4. QED
    BY <2>2, <2>3
<1>2. CASE ScanFails
  BY <1>2 DEF ScanFails
<1>3. CASE Read
  BY <1>3 DEF Read
<1>4. CASE Send
  BY <1>4 DEF Send
<1>5. ASSUME monitor \in {"read", "remove"}, monitor' = "decrement",
             name' = name \/ name' = [name EXCEPT ![Head(matches)] = "none"],
             UNCHANGED <<handler, matches>>
      PROVE  DiskInv'
  <2>1. matches # <<>> /\ Head(matches) = matches[1] /\ matches[1] \in Submissions
    BY <1>5
  <2>2. DataFiles \ {matches[1]} \subseteq DataFiles' /\ DataFiles' \subseteq DataFiles
    BY <1>5, <2>1
  <2>3. \A i \in 1..Len(matches') :
          matches'[i] \in DataFiles' \/ (i = 1 /\ monitor' = "decrement")
    <3>1. ASSUME NEW i \in 1..Len(matches), i # 1
          PROVE  matches[i] \in DataFiles'
      <4>1. matches[i] \in DataFiles /\ matches[i] # matches[1]
        BY <2>1, <3>1
      <4>2. QED
        BY <2>2, <4>1
    <3>2. QED
      BY <1>5, <3>1
  <2>4. QED
    BY <1>5, <2>2, <2>3
<1>6. CASE ReadFails
  BY <1>5, <1>6 DEF ReadFails, Removed
<1>7. CASE Remove
  BY <1>5, <1>7 DEF Remove
<1>8. CASE RemoveFails
  BY <1>5, <1>8 DEF RemoveFails
<1>9. CASE Decrement
  <2>1. matches # <<>> /\ matches' = Tail(matches) /\ UNCHANGED <<handler, disk>>
    BY <1>9 DEF Decrement, Proceed
  <2>2. /\ Len(matches') = Len(matches) - 1
        /\ \A i \in 1..Len(matches') :
              matches'[i] = matches[i + 1] /\ i + 1 \in 2..Len(matches)
    BY <2>1
  <2>3. ASSUME NEW i \in 1..Len(matches')
        PROVE  matches'[i] \in DataFiles
    <3>1. i + 1 \in 1..Len(matches) /\ i + 1 # 1 /\ matches'[i] = matches[i + 1]
      BY <2>2
    <3>2. QED
      BY <3>1
  <2>4. ASSUME NEW i \in 1..Len(matches'), NEW j \in 1..Len(matches'), i # j
        PROVE  matches'[i] # matches'[j]
    <3>1. /\ i + 1 \in 1..Len(matches) /\ matches'[i] = matches[i + 1]
          /\ j + 1 \in 1..Len(matches) /\ matches'[j] = matches[j + 1]
          /\ i + 1 # j + 1
      BY <2>2, <2>4
    <3>2. QED
      BY <3>1
  <2>5. QED
    BY <2>1, <2>3, <2>4
<1>10. QED
  BY <1>1, <1>2, <1>3, <1>4, <1>6, <1>7, <1>8, <1>9 DEF Monitor_Queue

LEMMA DiskInvStep == TypeInv /\ DiskInv /\ [Next]_vars => DiskInv'
<1> USE DEF TypeInv, TypeOK, DiskInv, DataFiles, server, handler, disk, monitoring
<1>1. ASSUME TypeInv, DiskInv, NEW w \in Workers, Worker(w)
      PROVE  DiskInv'
  BY <1>1 DEF Worker, Take, Skip, Index, IndexFails, Quit
<1>2. ASSUME TypeInv, DiskInv, Tick \/ Signal \/ Start \/ UNCHANGED vars
      PROVE  DiskInv'
  BY <1>2 DEF Tick, Signal, Start, vars
<1>3. ASSUME TypeInv, DiskInv, Exit \/ Crash
      PROVE  DiskInv'
  <2>1. /\ \A s \in Submissions : writer'[s] \in {writer[s], "cut"}
        /\ matches' = <<>> /\ UNCHANGED disk
    BY <1>3 DEF Exit, Crash, End
  <2>2. QED
    BY <1>3, <2>1
<1>4. QED
  BY <1>1, <1>2, <1>3, DiskInvHandle, DiskInvMonitor DEF Next

THEOREM DiskCorrect == Spec => [](TypeInv /\ DiskInv)
BY TypeInvInit, TypeInvStep, DiskInvInit, DiskInvStep, PTL DEF Spec

\* What the monitor has read and not sent is still on disk.
LEMMA InHandOnDisk ==
    ASSUME TypeInv, DiskInv
    PROVE  InHand \subseteq DataFiles
<1>1. ASSUME monitor = "send"
      PROVE  Head(matches) \in DataFiles
  <2>1. 1 \in 1..Len(matches) /\ Head(matches) = matches[1]
    BY <1>1 DEF TypeInv, TypeOK, ListingHeld
  <2>2. QED
    BY <1>1, <2>1 DEF DiskInv
<1>2. QED
  BY <1>1 DEF InHand

-----------------------------------------------------------------------------
(* What a stop of the process costs                                        *)

LEMMA InChannelBound ==
    ASSUME TypeInv
    PROVE  IsFiniteSet(InChannel) /\ Cardinality(InChannel) =< Len(jobs)
<1> DEFINE f == [i \in 1..Len(jobs) |-> jobs[i]]
<1>1. Len(jobs) \in Nat
  BY DEF TypeInv, TypeOK
<1>2. f \in Surjection(1..Len(jobs), InChannel)
  <2>1. InChannel = {jobs[i] : i \in 1..Len(jobs)}
    BY RangeEquality DEF InChannel, TypeInv, TypeOK
  <2>2. QED
    BY <2>1 DEF Surjection
<1>3. IsFiniteSet(1..Len(jobs)) /\ Cardinality(1..Len(jobs)) = Len(jobs)
  <2>1. /\ IsFiniteSet(1..Len(jobs))
        /\ Cardinality(1..Len(jobs)) =
              IF 1 > Len(jobs) THEN 0 ELSE Len(jobs) - 1 + 1
    BY <1>1, FS_Interval
  <2>2. QED
    BY <1>1, <2>1
<1>4. QED
  BY <1>2, <1>3, FS_Surjection

LEMMA InWorkBound == IsFiniteSet(InWork) /\ Cardinality(InWork) =< MaxWorkers
<1> DEFINE taken == {work[w] : w \in Workers}
           f == [w \in Workers |-> work[w]]
<1>1. f \in Surjection(Workers, taken)
  BY DEF Surjection
<1>2. IsFiniteSet(taken) /\ Cardinality(taken) =< MaxWorkers
  BY <1>1, WorkersAssumption, FS_Surjection DEF MaxWorkers
<1>3. InWork \in SUBSET taken
  BY DEF InWork
<1>4. IsFiniteSet(InWork) /\ Cardinality(InWork) =< Cardinality(taken)
  BY <1>2, <1>3, FS_Subset
<1>5. Cardinality(InWork) \in Nat /\ Cardinality(taken) \in Nat
  BY <1>2, <1>4, FS_CardinalityType
<1>6. QED
  BY <1>2, <1>4, <1>5, MaxWorkersType

LEMMA AtRiskBound ==
    ASSUME TypeInv, DiskInv
    PROVE  AtMostTwoPerWorker
<1>1. AtRisk \in SUBSET (InChannel \cup InWork)
  BY InHandOnDisk DEF AtRisk, InMemory, DataFiles, TypeInv, TypeOK
<1>2. /\ IsFiniteSet(InChannel) /\ Cardinality(InChannel) \in Nat
      /\ IsFiniteSet(InWork) /\ Cardinality(InWork) \in Nat
      /\ Cardinality(InChannel \cap InWork) \in Nat
  BY InChannelBound, InWorkBound, FS_CardinalityType, FS_Intersection
<1>3. /\ IsFiniteSet(InChannel \cup InWork)
      /\ Cardinality(InChannel \cup InWork) =<
            Cardinality(InChannel) + Cardinality(InWork)
      /\ Cardinality(InChannel \cup InWork) \in Nat
  <2>1. /\ IsFiniteSet(InChannel \cup InWork)
        /\ Cardinality(InChannel \cup InWork) = Cardinality(InChannel)
              + Cardinality(InWork) - Cardinality(InChannel \cap InWork)
    BY <1>2, FS_Union
  <2>2. Cardinality(InChannel \cup InWork) \in Nat
    BY <2>1, FS_CardinalityType
  <2>3. QED
    BY <1>2, <2>1, <2>2
<1>4. Cardinality(AtRisk) =< Cardinality(InChannel \cup InWork)
      /\ Cardinality(AtRisk) \in Nat
  BY <1>1, <1>3, FS_Subset, FS_CardinalityType
<1>5. Len(jobs) \in Nat /\ Len(jobs) =< MaxWorkers
  BY DEF TypeInv, TypeOK
<1>6. QED
  BY <1>2, <1>3, <1>4, <1>5, InChannelBound, InWorkBound, MaxWorkersType
     DEF AtMostTwoPerWorker

\* SIGTERM or a crash, at any moment, destroys at most two submissions per
\* worker, whatever fails and however many submissions there are.
THEOREM StopLosesLittle == Spec => []AtMostTwoPerWorker
BY DiskCorrect, AtRiskBound, PTL

-----------------------------------------------------------------------------
(* No half submission                                                      *)

WholeInv ==
    \A s \in Submissions :
        writer[s] = "written" \/ s \in DataFiles \cup InChannel \cup InWork
            => whole[s]

LEMMA WholeInvStep ==
    ASSUME "close" \notin Faults, TypeInv, DiskInv, WholeInv, [Next]_vars
    PROVE  WholeInv'
<1> USE DEF TypeInv, TypeOK, WholeInv, server, handler, disk, monitoring, pool
<1>1. ASSUME NEW s \in Submissions, Handle(s)
      PROVE  WholeInv'
  <2>1. UNCHANGED <<InChannel, InWork>>
    BY <1>1 DEF Handle, Arrive, Continue, Refuse, Count, CreateTemp, CreateFails,
         Write, CloseFails, WriteFails, Rename, RenameFails, Undo, Respond,
         InChannel, InWork
  <2>2. \A t \in Submissions \ {s} :
           name'[t] = name[t] /\ writer'[t] = writer[t] /\ whole'[t] = whole[t]
    BY <1>1 DEF Handle, Arrive, Continue, Refuse, Count, CreateTemp, CreateFails,
         Write, CloseFails, WriteFails, Rename, RenameFails, Undo, Respond,
         Removed, Move
  <2>3. /\ whole[s] => whole'[s]
        /\ writer'[s] = "written" => whole'[s]
        /\ name'[s] = "data" => name[s] = "data" \/ writer[s] = "written"
    BY <1>1 DEF Handle, Arrive, Continue, Refuse, Count, CreateTemp, CreateFails,
         Write, CloseFails, WriteFails, Rename, RenameFails, Undo, Respond,
         Removed, Move, Fault
  <2>4. QED
    BY <2>1, <2>2, <2>3 DEF DataFiles
<1>2. CASE Monitor_Queue
  <2>1. UNCHANGED <<writer, whole, InWork>> /\ DataFiles' \subseteq DataFiles
    BY <1>2 DEF Monitor_Queue, Scan, ScanFails, Read, ReadFails, Send, Remove,
         RemoveFails, Decrement, Removed, DataFiles, InWork
  <2>2. InChannel' \subseteq InChannel \cup DataFiles
    <3>1. CASE Send
      <4>1. Head(matches) \in DataFiles
        BY <3>1, InHandOnDisk DEF Send, InHand
      <4>2. InChannel' = InChannel \cup {Head(matches)}
        BY <3>1, <4>1, AppendRange DEF Send, InChannel, DataFiles
      <4>3. QED
        BY <4>1, <4>2
    <3>2. CASE ~Send
      BY <1>2, <3>2 DEF Monitor_Queue, Scan, ScanFails, Read, ReadFails, Remove,
           RemoveFails, Decrement, InChannel
    <3>3. QED
      BY <3>1, <3>2
  <2>3. QED
    BY <2>1, <2>2
<1>3. ASSUME NEW w \in Workers, Worker(w)
      PROVE  WholeInv'
  <2>1. UNCHANGED <<writer, whole, DataFiles>>
    BY <1>3 DEF Worker, Take, Skip, Index, IndexFails, Quit, DataFiles
  <2>2. InChannel' \cup InWork' \subseteq InChannel \cup InWork
    <3>1. CASE Take(w)
      <4>1. InChannel = {Head(jobs)} \cup InChannel'
        BY <3>1, HeadTailRange DEF Take, InChannel
      <4>2. InWork' \subseteq InWork \cup {Head(jobs)}
        BY <3>1 DEF Take, InWork
      <4>3. QED
        BY <4>1, <4>2
    <3>2. CASE ~Take(w)
      BY <1>3, <3>2 DEF Worker, Skip, Index, IndexFails, Quit, Done, InChannel,
                        InWork
    <3>3. QED
      BY <3>1, <3>2
  <2>3. QED
    BY <2>1, <2>2
<1>4. CASE Exit \/ Crash
  BY <1>4 DEF Exit, Crash, End, InChannel, InWork, DataFiles, Range
<1>5. CASE Tick \/ Signal \/ Start \/ UNCHANGED vars
  BY <1>5 DEF Tick, Signal, Start, vars, InChannel, InWork, DataFiles
<1>6. QED
  BY <1>1, <1>2, <1>3, <1>4, <1>5 DEF Next

\* Where Close() does not fail, no interleaving of handlers, monitor, crashes
\* and restarts hands half a submission to the workers.
THEOREM OnlyWholeSubmissions ==
    ASSUME "close" \notin Faults
    PROVE  Spec => []NoHalfSubmission
<1>1. Init => WholeInv
  BY DEF Init, WholeInv, DataFiles, InChannel, InWork, Range
<1>2. TypeInv /\ DiskInv /\ WholeInv /\ [Next]_vars => WholeInv'
  BY WholeInvStep
<1>3. TypeInv /\ DiskInv /\ WholeInv => NoHalfSubmission
  BY InHandOnDisk DEF WholeInv, NoHalfSubmission, InMemory
<1>4. QED
  BY <1>1, <1>2, <1>3, DiskCorrect, PTL DEF Spec

-----------------------------------------------------------------------------
(* Every accepted submission is accounted for                              *)

\* Submissions that the channel has had.
Handed == InChannel \cup InWork \cup settled \cup dropped

\* A handler touches its own file and answer only, and never a .data file.
LEMMA HandlerFrame ==
    ASSUME TypeInv, DiskInv, NEW s \in Submissions, Handle(s)
    PROVE  /\ UNCHANGED <<phase, jobs, work, settled, dropped, monitor, matches,
                          sent, again, inherited, undeleted>>
           /\ \A t \in Submissions \ {s} :
                 name'[t] = name[t] /\ writer'[t] = writer[t]
           /\ name[s] = "data" => name'[s] = "data"
<1> USE DEF Handle, Arrive, Continue, Refuse, Count, CreateTemp, CreateFails, Write,
        CloseFails, WriteFails, Rename, RenameFails, Undo, Respond, Move
<1>1. UNCHANGED <<phase, jobs, work, settled, dropped, monitor, matches, sent, again,
                  inherited, undeleted>>
  BY DEF server, monitoring, pool, history
<1>2. \A t \in Submissions \ {s} : name'[t] = name[t] /\ writer'[t] = writer[t]
  BY DEF TypeInv, TypeOK, disk, Removed
<1>3. name[s] = "data" => name'[s] = "data"
  BY DEF TypeInv, TypeOK, DiskInv, DataFiles, disk, Removed
<1>4. QED
  BY <1>1, <1>2, <1>3

VanishInv ==
    /\ \A s \in Submissions : writer[s] \in {"committed", "202"}
                                  => s \in DataFiles \cup Handed
    /\ monitor = "remove" => Head(matches) \in Handed

LEMMA VanishInvMonitor ==
    ASSUME TypeInv, DiskInv, VanishInv, Monitor_Queue
    PROVE  VanishInv'
<1> USE DEF TypeInv, TypeOK, VanishInv, Handed, server, handler, disk,
            monitoring, pool, history
<1>1. CASE Scan
  <2>1. UNCHANGED <<writer, name, jobs, work, settled, dropped>>
        /\ monitor' # "remove"
    BY <1>1 DEF Scan, Proceed
  <2>2. QED
    BY <2>1 DEF DataFiles, InChannel, InWork
<1>2. CASE ScanFails
  BY <1>2 DEF ScanFails, DataFiles, InChannel, InWork
<1>3. CASE Read
  BY <1>3 DEF Read, DataFiles, InChannel, InWork
<1>4. CASE ReadFails
  <2>1. UNCHANGED <<writer, InChannel, InWork, settled>>
        /\ dropped' = dropped \cup {Head(matches)} /\ monitor' # "remove"
    BY <1>4 DEF ReadFails, InChannel, InWork
  <2>2. DataFiles \subseteq DataFiles' \cup {Head(matches)}
    BY <1>4 DEF ReadFails, Removed, DataFiles
  <2>3. QED
    BY <2>1, <2>2
<1>5. CASE Send
  <2>1. Head(matches) \in Submissions
    BY <1>5 DEF Send, ListingHeld
  <2>2. UNCHANGED <<writer, DataFiles, InWork, settled, dropped, matches>>
    BY <1>5 DEF Send, DataFiles, InWork
  <2>3. InChannel' = InChannel \cup {Head(matches)}
    BY <1>5, <2>1, AppendRange DEF Send, InChannel
  <2>4. QED
    BY <2>2, <2>3
<1>6. CASE Remove
  <2>1. UNCHANGED <<writer, Handed>> /\ monitor = "remove" /\ monitor' # "remove"
    BY <1>6 DEF Remove, InChannel, InWork
  <2>2. DataFiles \subseteq DataFiles' \cup {Head(matches)}
    BY <1>6 DEF Remove, DataFiles
  <2>3. QED
    BY <2>1, <2>2
<1>7. CASE RemoveFails
  BY <1>7 DEF RemoveFails, DataFiles, InChannel, InWork
<1>8. CASE Decrement
  <2>1. UNCHANGED <<writer, name, jobs, work, settled, dropped>>
        /\ monitor' # "remove"
    BY <1>8 DEF Decrement, Proceed
  <2>2. QED
    BY <2>1 DEF DataFiles, InChannel, InWork
<1>9. QED
  BY <1>1, <1>2, <1>3, <1>4, <1>5, <1>6, <1>7, <1>8 DEF Monitor_Queue

\* What a worker takes or finishes stays handed over.
LEMMA HandedWorker ==
    ASSUME TypeInv, NEW w \in Workers, Worker(w)
    PROVE  Handed \subseteq Handed'
<1> USE DEF TypeInv, TypeOK, Handed
<1>1. CASE Take(w)
  <2>1. InChannel = {Head(jobs)} \cup InChannel'
    BY <1>1, HeadTailRange DEF Take, InChannel
  <2>2. InWork' = InWork \cup {Head(jobs)}
    <3>1. Head(jobs) \in Submissions /\ Head(jobs) # NoJob
      BY <1>1, NoJobAssumption DEF Take
    <3>2. work[w] = NoJob /\ work' = [work EXCEPT ![w] = Head(jobs)]
      BY <1>1 DEF Take, Idle
    <3>3. QED
      BY <3>1, <3>2 DEF InWork
  <2>3. UNCHANGED <<settled, dropped>>
    BY <1>1 DEF Take, history
  <2>4. QED
    BY <2>1, <2>2, <2>3
<1>2. CASE Skip(w) \/ Index(w) \/ IndexFails(w)
  <2>1. UNCHANGED InChannel
    BY <1>2 DEF Skip, Index, IndexFails, InChannel
  <2>2. InWork \subseteq InWork' \cup {work[w]}
    BY <1>2 DEF Skip, Index, IndexFails, Done, InWork
  <2>3. settled \cup dropped \cup {work[w]} = settled' \cup dropped'
    BY <1>2 DEF Skip, Index, IndexFails, history
  <2>4. QED
    BY <2>1, <2>2, <2>3
<1>3. CASE Quit(w)
  BY <1>3 DEF Quit, InChannel, InWork, history
<1>4. QED
  BY <1>1, <1>2, <1>3 DEF Worker

LEMMA VanishInvStep == TypeInv /\ DiskInv /\ VanishInv /\ [Next]_vars => VanishInv'
<1> SUFFICES ASSUME TypeInv, DiskInv, VanishInv, [Next]_vars
             PROVE  VanishInv'
  OBVIOUS
<1> USE DEF VanishInv
<1>1. ASSUME NEW s \in Submissions, Handle(s)
      PROVE  VanishInv'
  <2>1. UNCHANGED <<Handed, monitor, matches>>
    BY <1>1, HandlerFrame DEF Handed, InChannel, InWork
  <2>2. DataFiles \subseteq DataFiles'
    BY <1>1, HandlerFrame DEF DataFiles
  <2>3. writer'[s] \in {"committed", "202"} =>
           writer[s] \in {"committed", "202"} \/ name'[s] = "data"
    BY <1>1 DEF Handle, Arrive, Continue, Refuse, Count, CreateTemp, CreateFails,
         Write, CloseFails, WriteFails, Rename, RenameFails, Undo, Respond,
         Move, TypeInv, TypeOK
  <2>4. \A t \in Submissions \ {s} : writer'[t] = writer[t]
    BY <1>1, HandlerFrame
  <2>5. QED
    BY <2>1, <2>2, <2>3, <2>4 DEF DataFiles
<1>2. CASE Monitor_Queue
  BY <1>2, VanishInvMonitor
<1>3. ASSUME NEW w \in Workers, Worker(w)
      PROVE  VanishInv'
  <2>1. UNCHANGED <<writer, DataFiles, monitor, matches>>
    BY <1>3 DEF Worker, Take, Skip, Index, IndexFails, Quit, DataFiles,
         handler, disk, monitoring
  <2>2. QED
    BY <1>3, <2>1, HandedWorker
<1>4. CASE Exit \/ Crash
  <2>1. /\ dropped' = dropped \cup AtRisk /\ monitor' = "scan"
        /\ UNCHANGED <<name, settled>>
        /\ \A s \in Submissions : writer'[s] \in {writer[s], "cut"}
    BY <1>4 DEF Exit, Crash, End, TypeInv, TypeOK, disk
  <2>2. \A s \in Submissions : s \in Handed => s \in Handed' \cup DataFiles'
    BY <2>1 DEF Handed, AtRisk, InMemory, DataFiles
  <2>3. DataFiles' = DataFiles
    BY <2>1 DEF DataFiles
  <2>4. QED
    BY <2>1, <2>2, <2>3
<1>5. CASE Tick \/ Signal \/ Start \/ UNCHANGED vars
  BY <1>5 DEF Tick, Signal, Start, vars, Handed, InChannel, InWork, DataFiles,
              handler, disk, monitoring, pool, history
<1>6. QED
  BY <1>1, <1>2, <1>3, <1>4, <1>5 DEF Next

\* Every submission answered with code 202 can be found on disk, in the process,
\* among the settled ones, or among those a failure or a stop dropped: none
\* slips through between handler, monitor, channel and workers.
THEOREM NothingLostSilently == Spec => []NothingVanishes
<1>1. Init => VanishInv
  BY DEF Init, VanishInv
<1>2. TypeInv /\ DiskInv /\ VanishInv => NothingVanishes
  BY DEF VanishInv, Handed, NothingVanishes, Accepted, InMemory
<1>3. QED
  BY <1>1, <1>2, VanishInvStep, DiskCorrect, PTL DEF Spec

-----------------------------------------------------------------------------
(* Hand-over: not twice, and not after the file is gone                    *)

OnceInv ==
    /\ \A s \in Submissions :
          sent[s] > 0 => writer[s] \in {"committed", "202", "cut"}
    /\ \A s \in DataFiles :
          sent[s] > 0 => s \in again \/ (monitor = "remove" /\ s = Head(matches))
    /\ monitor = "remove" => sent[Head(matches)] > 0
    /\ HandedOverOnce

LEMMA OnceInvHandle ==
    ASSUME TypeInv, DiskInv, OnceInv, NEW s \in Submissions, Handle(s)
    PROVE  OnceInv'
<1> USE DEF OnceInv, HandedOverOnce
<1>1. UNCHANGED <<sent, again, monitor, matches>>
  BY HandlerFrame
<1>2. \A t \in Submissions \ {s} : name'[t] = name[t] /\ writer'[t] = writer[t]
  BY HandlerFrame
<1>3. /\ writer[s] \in {"committed", "202", "cut"} =>
            writer'[s] \in {"committed", "202", "cut"}
      /\ name'[s] = "data" => name[s] = "data" \/ writer[s] = "written"
  BY DEF Handle, Arrive, Continue, Refuse, Count, CreateTemp, CreateFails, Write,
         CloseFails, WriteFails, Rename, RenameFails, Undo, Respond, Move, Removed,
         TypeInv, TypeOK, disk
<1>4. QED
  BY <1>1, <1>2, <1>3 DEF DataFiles

LEMMA OnceInvMonitor ==
    ASSUME TypeInv, DiskInv, OnceInv, Monitor_Queue
    PROVE  OnceInv'
<1> USE DEF TypeInv, TypeOK, ListingHeld, OnceInv, HandedOverOnce, handler, disk,
            monitoring, history
<1>1. CASE Scan
  BY <1>1 DEF Scan, Proceed, DataFiles
<1>2. CASE ScanFails
  BY <1>2 DEF ScanFails, DataFiles
<1>3. CASE Read
  BY <1>3 DEF Read, DataFiles
<1>4. CASE ReadFails
  <2>1. UNCHANGED <<sent, again, writer>> /\ monitor = "read" /\ monitor' # "remove"
    BY <1>4 DEF ReadFails
  <2>2. DataFiles' \subseteq DataFiles
    BY <1>4 DEF ReadFails, Removed, DataFiles
  <2>3. QED
    BY <2>1, <2>2
<1>5. CASE Send
  <2>1. Head(matches) \in DataFiles
    BY <1>5, InHandOnDisk DEF Send, InHand
  <2>2. sent' = [sent EXCEPT ![Head(matches)] = sent[Head(matches)] + 1]
    BY <1>5 DEF Send
  <2>3. writer[Head(matches)] \in {"committed", "202", "cut"}
    BY <2>1 DEF DiskInv
  <2>4. UNCHANGED <<writer, DataFiles, again, matches>> /\ monitor' = "remove"
        /\ monitor = "send"
    BY <1>5 DEF Send, DataFiles
  <2>5. sent'[Head(matches)] > 0 /\ Head(matches) \in Submissions
    BY <2>1, <2>2 DEF DataFiles
  <2>6. sent'[Head(matches)] > 1 => Head(matches) \in again
    BY <2>1, <2>2, <2>4, <2>5
  <2>7. \A t \in Submissions \ {Head(matches)} : sent'[t] = sent[t]
    BY <2>2
  <2>8. QED
    BY <2>3, <2>4, <2>5, <2>6, <2>7 DEF DataFiles
<1>6. CASE Remove
  <2>1. UNCHANGED <<sent, again, writer>> /\ monitor' # "remove" /\ matches # <<>>
    BY <1>6 DEF Remove
  <2>2. Head(matches) \in Submissions
    BY <2>1
  <2>3. DataFiles' = DataFiles \ {Head(matches)}
    BY <1>6, <2>2 DEF Remove, DataFiles
  <2>4. QED
    BY <2>1, <2>3
<1>7. CASE RemoveFails
  <2>1. UNCHANGED <<sent, writer, DataFiles>> /\ monitor' # "remove"
        /\ again' = again \cup {Head(matches)}
    BY <1>7 DEF RemoveFails, DataFiles
  <2>2. QED
    BY <2>1
<1>8. CASE Decrement
  BY <1>8 DEF Decrement, Proceed, DataFiles
<1>9. QED
  BY <1>1, <1>2, <1>3, <1>4, <1>5, <1>6, <1>7, <1>8 DEF Monitor_Queue

LEMMA OnceInvStep == TypeInv /\ DiskInv /\ OnceInv /\ [Next]_vars => OnceInv'
<1> SUFFICES ASSUME TypeInv, DiskInv, OnceInv, [Next]_vars
             PROVE  OnceInv'
  OBVIOUS
<1>1. ASSUME NEW w \in Workers, Worker(w)
      PROVE  OnceInv'
  BY <1>1 DEF Worker, Take, Skip, Index, IndexFails, Quit, OnceInv, HandedOverOnce,
              DataFiles, handler, disk, monitoring, history
<1>2. CASE Exit \/ Crash
  <2>1. /\ monitor' = "scan" /\ UNCHANGED <<sent, DataFiles>>
        /\ \A s \in Submissions : writer'[s] \in {writer[s], "cut"}
        /\ again \subseteq again'
        /\ monitor = "remove" => Head(matches) \in again'
    BY <1>2 DEF Exit, Crash, End, TypeInv, TypeOK, disk, DataFiles
  <2>2. QED
    BY <2>1 DEF OnceInv, HandedOverOnce
<1>3. CASE Tick \/ Signal \/ Start \/ UNCHANGED vars
  BY <1>3 DEF Tick, Signal, Start, vars, OnceInv, HandedOverOnce, DataFiles,
              handler, disk, monitoring, history
<1>4. QED
  BY <1>1, <1>2, <1>3, OnceInvHandle, OnceInvMonitor DEF Next

\* A submission goes to the workers a second time only where the file of the
\* first time was still there after a failed os.Remove or an end of the process.
THEOREM NoUnexplainedDuplicate == Spec => []HandedOverOnce
<1>1. Init => OnceInv
  BY DEF Init, OnceInv, HandedOverOnce, DataFiles
<1>2. OnceInv => HandedOverOnce
  BY DEF OnceInv
<1>3. QED
  BY <1>1, <1>2, OnceInvStep, DiskCorrect, PTL DEF Spec

\* No step takes the file of a committed submission away before the channel has
\* the submission, except the one that could not read it.
THEOREM FileOutlivesHandOver == Spec => DeletedOnlyAfterHandOver
<1> DEFINE Kept == \A s \in Submissions :
                      name[s] = "data" /\ name'[s] # "data" =>
                          sent[s] > 0 \/ s \in dropped'
<1>1. ASSUME TypeInv, DiskInv, OnceInv, [Next]_vars
      PROVE  [Kept]_vars
  <2>1. ASSUME NEW s \in Submissions, Handle(s)
        PROVE  Kept
    BY <1>1, <2>1, HandlerFrame
  <2>2. ASSUME monitor \in {"read", "remove"},
               name' = name \/ name' = [name EXCEPT ![Head(matches)] = "none"],
               monitor = "read" => Head(matches) \in dropped'
        PROVE  Kept
    <3>1. \A s \in Submissions \ {Head(matches)} : name'[s] = name[s]
      BY <1>1, <2>2 DEF TypeInv, TypeOK
    <3>2. QED
      BY <1>1, <2>2, <3>1 DEF OnceInv
  <2>3. CASE ReadFails
    BY <2>2, <2>3 DEF ReadFails, Removed
  <2>4. CASE Remove
    BY <2>2, <2>4 DEF Remove
  <2>5. CASE UNCHANGED name
    BY <2>5
  <2>6. CASE Monitor_Queue
    BY <2>3, <2>4, <2>5, <2>6 DEF Monitor_Queue, Scan, ScanFails, Read, Send,
       RemoveFails, Decrement, disk
  <2>7. CASE \E w \in Workers : Worker(w)
    BY <2>5, <2>7 DEF Worker, Take, Skip, Index, IndexFails, Quit, disk
  <2>8. CASE Tick \/ Signal \/ Exit \/ Crash \/ Start \/ UNCHANGED vars
    BY <2>5, <2>8 DEF Tick, Signal, Exit, Crash, End, Start, vars, disk
  <2>9. QED
    BY <1>1, <2>1, <2>6, <2>7, <2>8 DEF Next
<1>2. Init => OnceInv
  BY DEF Init, OnceInv, HandedOverOnce, DataFiles
<1>3. QED
  BY <1>1, <1>2, OnceInvStep, DiskCorrect, PTL DEF Spec, DeletedOnlyAfterHandOver

-----------------------------------------------------------------------------
(* Order of service                                                        *)

Served(s) == sent[s] > 0 \/ s \in dropped
PastRename(s) == writer[s] \in {"committed", "202", "cut"}
Earlier(t) == {s \in ahead[t] : epoch[s] < epoch[t]}

\* What was answered before t came in stays answered; a file that is gone was
\* handed over or dropped, and so was the one the monitor is done with; and whoever
\* came before a file of the listing, in an earlier second, was served or is listed
\* before it.
AheadInv == \A t \in Submissions : \A s \in ahead[t] : writer[s] = "202"
GoneInv ==
    \A s \in Submissions :
        writer[s] \in {"committed", "202"} /\ s \notin DataFiles => Served(s)
HeadInv == monitor \in {"remove", "decrement"} => Served(Head(matches))
ListedInv ==
    \A i \in 1..Len(matches) :
        /\ PastRename(matches[i])
        /\ \A s \in Earlier(matches[i]) :
              Served(s) \/ \E j \in 1..(i - 1) : matches[j] = s
OrderInv == AheadInv /\ GoneInv /\ HeadInv /\ ListedInv /\ FirstComeFirstServed

\* A handler only adds what was answered before to the submission that comes in.
LEMMA OrderInvHandle ==
    ASSUME TypeInv, DiskInv, OnceInv, OrderInv, NEW s \in Submissions, Handle(s)
    PROVE  OrderInv'
<1> USE DEF OrderInv
<1>1. /\ UNCHANGED <<monitor, matches, sent, dropped>>
      /\ \A t \in Submissions \ {s} : name'[t] = name[t] /\ writer'[t] = writer[t]
  BY HandlerFrame
<1>2. \/ UNCHANGED <<ahead, epoch>>
      \/ /\ writer[s] = "idle"
         /\ ahead' = [ahead EXCEPT ![s] = Accepted]
         /\ epoch' = [epoch EXCEPT ![s] = now]
  BY DEF Handle, Arrive, Continue, Refuse, Count, CreateTemp, CreateFails, Write,
         CloseFails, WriteFails, Rename, RenameFails, Undo, Respond, Move, handler,
         history
<1>3. /\ writer[s] = "202" => writer'[s] = "202"
      /\ PastRename(s) => PastRename(s)'
      /\ writer'[s] \in {"committed", "202"} /\ name'[s] # "data" =>
            writer[s] \in {"committed", "202"} /\ name[s] # "data"
  BY DEF Handle, Arrive, Continue, Refuse, Count, CreateTemp, CreateFails, Write,
         CloseFails, WriteFails, Rename, RenameFails, Undo, Respond, Move, Removed,
         PastRename, TypeInv, TypeOK, disk
<1>4. ahead \in [Submissions -> SUBSET Submissions] /\ epoch \in [Submissions -> Nat]
  BY DEF TypeInv, TypeOK
<1>5. \A t \in Submissions : writer[t] = "202" => writer'[t] = "202"
  BY <1>1, <1>3
<1>6. AheadInv'
  <2>1. ASSUME NEW t \in Submissions, NEW x \in ahead'[t]
        PROVE  x \in Submissions /\ writer[x] = "202"
    <3>1. x \in ahead[t] \/ x \in Accepted
      BY <1>2, <1>4, <2>1
    <3>2. QED
      BY <1>4, <3>1 DEF Accepted, AheadInv
  <2>2. QED
    BY <1>5, <2>1 DEF AheadInv
<1>7. ASSUME NEW t \in Submissions, writer[t] # "idle"
      PROVE  Earlier(t)' = Earlier(t)
  <2>1. CASE UNCHANGED <<ahead, epoch>>
    BY <2>1 DEF Earlier
  <2>2. CASE /\ writer[s] = "idle"
             /\ ahead' = [ahead EXCEPT ![s] = Accepted]
             /\ epoch' = [epoch EXCEPT ![s] = now]
    <3>1. t # s /\ ahead'[t] = ahead[t] /\ epoch'[t] = epoch[t]
      BY <1>4, <1>7, <2>2
    <3>2. \A x \in ahead[t] : x \in Submissions /\ writer[x] = "202"
      BY <1>4 DEF AheadInv
    <3>3. \A x \in ahead[t] : x # s /\ epoch'[x] = epoch[x]
      BY <1>4, <2>2, <3>2
    <3>4. QED
      BY <3>1, <3>3 DEF Earlier
  <2>3. QED
    BY <1>2, <2>1, <2>2
<1>8. \A x : Served(x)' <=> Served(x)
  BY <1>1 DEF Served
<1>9. GoneInv'
  BY <1>1, <1>3, <1>8 DEF GoneInv, DataFiles
<1>10. HeadInv'
  BY <1>1, <1>8 DEF HeadInv
<1>11. ListedInv'
  <2>1. ASSUME NEW i \in 1..Len(matches)
        PROVE  /\ PastRename(matches[i])'
               /\ \A x \in Earlier(matches[i])' :
                     Served(x)' \/ \E j \in 1..(i - 1) : matches[j] = x
    <3>1. matches[i] \in Submissions /\ PastRename(matches[i])
      BY DEF ListedInv, TypeInv, TypeOK
    <3>2. PastRename(matches[i])'
      BY <1>1, <1>3, <3>1 DEF PastRename
    <3>3. Earlier(matches[i])' = Earlier(matches[i])
      BY <1>1, <1>7, <3>1 DEF PastRename
    <3>4. QED
      BY <1>8, <3>2, <3>3 DEF ListedInv
  <2>2. QED
    BY <1>1, <2>1 DEF ListedInv
<1>12. FirstComeFirstServed'
  <2>1. ASSUME NEW t \in Submissions, sent'[t] > 0
        PROVE  \A x \in Earlier(t)' : Served(x)'
    <3>1. sent[t] > 0 /\ writer[t] # "idle"
      BY <1>1, <2>1 DEF OnceInv
    <3>2. QED
      BY <1>7, <1>8, <3>1 DEF FirstComeFirstServed, Earlier, Served
  <2>2. QED
    BY <2>1 DEF FirstComeFirstServed, Earlier, Served
<1>13. QED
  BY <1>6, <1>9, <1>10, <1>11, <1>12

\* A listing has the older files first, and everything answered and not served.
LEMMA ListedInvScan ==
    ASSUME TypeInv, DiskInv, OrderInv, NEW q \in Listings(DataFiles)
    PROVE  \A i \in 1..Len(q) :
              /\ PastRename(q[i])
              /\ \A s \in Earlier(q[i]) :
                    Served(s) \/ \E j \in 1..(i - 1) : q[j] = s
<1> SUFFICES ASSUME NEW i \in 1..Len(q)
             PROVE  /\ PastRename(q[i])
                    /\ \A s \in Earlier(q[i]) :
                          Served(s) \/ \E j \in 1..(i - 1) : q[j] = s
  OBVIOUS
<1>1. DataFiles \in SUBSET Submissions
  BY DEF DataFiles
<1>2. q \in Seq(DataFiles) /\ Len(q) \in Nat /\ DOMAIN q = 1..Len(q)
  BY <1>1, ListingsType
<1>3. q[i] \in DataFiles /\ PastRename(q[i])
  BY <1>2 DEF DiskInv, PastRename
<1>4. ASSUME NEW s \in Earlier(q[i]), ~Served(s)
      PROVE  \E j \in 1..(i - 1) : q[j] = s
  <2>1. /\ s \in Submissions /\ writer[s] = "202" /\ epoch[s] < epoch[q[i]]
        /\ epoch[s] \in Nat /\ epoch[q[i]] \in Nat
    BY <1>1, <1>3 DEF Earlier, OrderInv, AheadInv, TypeInv, TypeOK
  <2>2. s \in DataFiles
    BY <1>4, <2>1 DEF OrderInv, GoneInv
  <2>3. PICK j \in 1..Len(q) : q[j] = s
    BY <1>2, <2>2 DEF Listings
  <2>4. i < j => epoch[q[i]] =< epoch[q[j]]
    BY <1>2 DEF Listings
  <2>5. j < i
    BY <1>2, <2>1, <2>3, <2>4
  <2>6. QED
    BY <1>2, <2>3, <2>5
<1>5. QED
  BY <1>3, <1>4

LEMMA OrderInvMonitor ==
    ASSUME TypeInv, DiskInv, OnceInv, OrderInv, Monitor_Queue
    PROVE  OrderInv'
<1> USE DEF OrderInv
<1>1. UNCHANGED <<writer, epoch, ahead>>
  BY DEF Monitor_Queue, Scan, ScanFails, Read, ReadFails, Send, Remove, RemoveFails,
         Decrement, handler, history
<1>2. AheadInv' /\ \A x : (Earlier(x)' = Earlier(x)) /\ (PastRename(x)' <=> PastRename(x))
  BY <1>1 DEF AheadInv, Earlier, PastRename
<1>3. ASSUME UNCHANGED <<sent, dropped, name>>
      PROVE  GoneInv' /\ FirstComeFirstServed' /\ \A x : Served(x)' <=> Served(x)
  BY <1>1, <1>3 DEF GoneInv, FirstComeFirstServed, Served, DataFiles
<1>4. CASE Scan
  <2>1. PICK q \in Listings(DataFiles) : Proceed(q)
    BY <1>4 DEF Scan
  <2>2. matches' = q /\ monitor' \in {"scan", "read"} /\ UNCHANGED <<sent, dropped, name>>
    BY <1>4, <2>1 DEF Scan, Proceed, disk, history
  <2>3. ListedInv'
    <3>1. \A x : Served(x)' <=> Served(x)
      BY <1>3, <2>2
    <3>2. QED
      BY <1>2, <2>1, <2>2, <3>1, ListedInvScan DEF ListedInv
  <2>4. QED
    BY <1>2, <1>3, <2>2, <2>3 DEF HeadInv
<1>5. CASE ScanFails \/ Read
  <2>1. /\ UNCHANGED <<sent, dropped, name, matches>>
        /\ monitor' \notin {"remove", "decrement"}
    BY <1>5 DEF ScanFails, Read, disk, history, monitoring
  <2>2. \A x : Served(x)' <=> Served(x)
    BY <1>3, <2>1
  <2>3. QED
    BY <1>2, <1>3, <2>1, <2>2 DEF HeadInv, ListedInv
\* The head of the listing was handed over, dropped, or is about to be.
<1>6. ASSUME UNCHANGED matches, monitor # "scan",
             \A x \in Submissions : Served(x) => Served(x)', Served(Head(matches))',
             \A x \in Submissions : x \in DataFiles /\ x \notin DataFiles' => Served(x)'
      PROVE  GoneInv' /\ HeadInv' /\ ListedInv'
  <2>1. GoneInv'
    BY <1>1, <1>6 DEF GoneInv
  <2>2. HeadInv'
    BY <1>6 DEF HeadInv
  <2>3. \A x : \A s \in Earlier(matches[x]) :
            x \in 1..Len(matches) => s \in Submissions
    BY DEF Earlier, TypeInv, TypeOK
  <2>4. QED
    BY <1>2, <1>6, <2>1, <2>2, <2>3 DEF ListedInv
<1>7. CASE ReadFails
  <2>1. /\ UNCHANGED <<sent, matches>> /\ monitor = "read"
        /\ dropped' = dropped \cup {Head(matches)}
        /\ name' = name \/ name' = [name EXCEPT ![Head(matches)] = "none"]
    BY <1>7 DEF ReadFails, Removed
  <2>2. /\ \A x \in Submissions : Served(x) => Served(x)'
        /\ Served(Head(matches))'
    BY <2>1 DEF Served
  <2>3. \A x \in Submissions : x \in DataFiles /\ x \notin DataFiles' => x = Head(matches)
    BY <2>1 DEF DataFiles, TypeInv, TypeOK
  <2>4. FirstComeFirstServed'
    BY <1>1, <2>1 DEF FirstComeFirstServed
  <2>5. QED
    BY <1>2, <1>6, <2>1, <2>2, <2>3, <2>4
<1>8. CASE Send
  <2>1. /\ UNCHANGED <<dropped, matches, name>> /\ monitor = "send"
        /\ sent' = [sent EXCEPT ![Head(matches)] = @ + 1]
    BY <1>8 DEF Send, disk
  <2>2. 1 \in 1..Len(matches) /\ Head(matches) = matches[1] /\ matches[1] \in Submissions
    BY <2>1 DEF TypeInv, TypeOK, ListingHeld
  <2>3. /\ sent'[matches[1]] = sent[matches[1]] + 1 /\ sent[matches[1]] \in Nat
        /\ \A x \in Submissions \ {matches[1]} : sent'[x] = sent[x]
    BY <2>1, <2>2 DEF TypeInv, TypeOK
  <2>4. /\ \A x \in Submissions : Served(x) => Served(x)'
        /\ Served(Head(matches))'
    BY <2>1, <2>2, <2>3 DEF Served
  <2>5. \A s \in Earlier(matches[1]) : Served(s)
    BY <2>2 DEF ListedInv
  <2>6. FirstComeFirstServed'
    <3>1. ASSUME NEW t \in Submissions, sent'[t] > 0
          PROVE  \A s \in Earlier(t) : Served(s)
      <4>1. CASE t = matches[1]
        BY <2>5, <4>1
      <4>2. CASE t # matches[1]
        BY <2>3, <3>1, <4>2 DEF FirstComeFirstServed, Earlier, Served
      <4>3. QED
        BY <4>1, <4>2
    <3>2. \A t \in Submissions : \A s \in Earlier(t) : s \in Submissions
      BY DEF Earlier, TypeInv, TypeOK
    <3>3. \A t \in Submissions : sent'[t] > 0 => \A s \in Earlier(t) : Served(s)'
      BY <2>4, <3>1, <3>2
    <3>4. QED
      BY <1>1, <3>3 DEF FirstComeFirstServed, Earlier, Served
  <2>7. QED
    BY <1>2, <1>6, <2>1, <2>4, <2>6 DEF DataFiles
<1>9. CASE Remove \/ RemoveFails
  <2>1. /\ UNCHANGED <<sent, dropped, matches>> /\ monitor = "remove"
        /\ name' = name \/ name' = [name EXCEPT ![Head(matches)] = "none"]
    BY <1>9 DEF Remove, RemoveFails, disk, history
  <2>2. (\A x : Served(x)' <=> Served(x)) /\ Served(Head(matches))
    BY <2>1 DEF Served, HeadInv
  <2>3. \A x \in Submissions : x \in DataFiles /\ x \notin DataFiles' => x = Head(matches)
    BY <2>1 DEF DataFiles, TypeInv, TypeOK
  <2>4. FirstComeFirstServed'
    BY <1>1, <2>1 DEF FirstComeFirstServed
  <2>5. QED
    BY <1>2, <1>6, <2>1, <2>2, <2>3, <2>4
<1>10. CASE Decrement
  <2>1. /\ UNCHANGED <<sent, dropped, name>> /\ monitor = "decrement"
        /\ matches' = Tail(matches) /\ monitor' \in {"scan", "read"}
    BY <1>10 DEF Decrement, Proceed, disk, history
  <2>2. /\ matches # <<>> /\ matches \in Seq(Submissions) /\ Head(matches) = matches[1]
        /\ Len(matches') = Len(matches) - 1 /\ Len(matches) \in Nat
        /\ \A i \in 1..Len(matches') : matches'[i] = matches[i + 1]
    BY <2>1 DEF TypeInv, TypeOK, ListingHeld
  <2>3. \A x : Served(x)' <=> Served(x)
    BY <1>3, <2>1
  <2>4. Served(matches[1])
    BY <2>1, <2>2 DEF HeadInv
  <2>5. ASSUME NEW i \in 1..Len(matches')
        PROVE  /\ PastRename(matches'[i])
               /\ \A s \in Earlier(matches'[i]) :
                     Served(s) \/ \E j \in 1..(i - 1) : matches'[j] = s
    <3>1. i + 1 \in 1..Len(matches) /\ matches'[i] = matches[i + 1] /\ i \in Nat
      BY <2>2
    <3>2. PastRename(matches[i + 1])
      BY <3>1 DEF ListedInv
    <3>3. ASSUME NEW s \in Earlier(matches[i + 1]), ~Served(s)
          PROVE  \E j \in 1..(i - 1) : matches'[j] = s
      <4>1. PICK k \in 1..((i + 1) - 1) : matches[k] = s
        BY <3>1, <3>3 DEF ListedInv
      <4>2. k # 1
        BY <2>4, <3>3, <4>1
      <4>3. k - 1 \in 1..(i - 1) /\ k - 1 \in 1..Len(matches') /\ (k - 1) + 1 = k
        BY <2>2, <3>1, <4>1, <4>2
      <4>4. matches'[k - 1] = s
        BY <2>2, <4>1, <4>3
      <4>5. QED
        BY <4>3, <4>4
    <3>4. QED
      BY <3>1, <3>2, <3>3
  <2>6. ListedInv'
    BY <1>2, <2>3, <2>5 DEF ListedInv
  <2>7. QED
    BY <1>2, <1>3, <2>1, <2>6 DEF HeadInv
<1>11. QED
  BY <1>4, <1>5, <1>7, <1>8, <1>9, <1>10 DEF Monitor_Queue

LEMMA OrderInvStep ==
    TypeInv /\ DiskInv /\ OnceInv /\ OrderInv /\ [Next]_vars => OrderInv'
<1> SUFFICES ASSUME TypeInv, DiskInv, OnceInv, OrderInv, [Next]_vars
             PROVE  OrderInv'
  OBVIOUS
<1> USE DEF OrderInv
<1>1. ASSUME UNCHANGED <<writer, epoch, ahead, name, matches, monitor, sent>>,
             dropped \subseteq dropped'
      PROVE  OrderInv'
  BY <1>1 DEF AheadInv, GoneInv, HeadInv, ListedInv, Earlier, PastRename, Served,
     FirstComeFirstServed, DataFiles
<1>2. ASSUME NEW w \in Workers, Worker(w)
      PROVE  OrderInv'
  BY <1>1, <1>2 DEF Worker, Take, Skip, Index, IndexFails, Quit, handler, disk,
     monitoring, history
<1>3. CASE Exit \/ Crash
  <2>1. /\ UNCHANGED <<epoch, ahead, name, sent>> /\ dropped \subseteq dropped'
        /\ matches' = <<>> /\ monitor' = "scan"
        /\ \A s \in Submissions :
              /\ writer'[s] = writer[s] \/ (writer'[s] = "cut" /\ writer[s] # "202")
    BY <1>3 DEF Exit, Crash, End, disk, TypeInv, TypeOK, InFlight
  <2>2. AheadInv'
    BY <2>1 DEF AheadInv, TypeInv, TypeOK
  <2>3. GoneInv'
    BY <2>1 DEF GoneInv, Served, DataFiles
  <2>4. HeadInv' /\ ListedInv'
    BY <2>1 DEF HeadInv, ListedInv
  <2>5. FirstComeFirstServed'
    BY <2>1 DEF FirstComeFirstServed
  <2>6. QED
    BY <2>2, <2>3, <2>4, <2>5
<1>4. CASE Tick \/ Signal \/ Start \/ UNCHANGED vars
  BY <1>1, <1>4 DEF Tick, Signal, Start, vars, handler, disk, monitoring, history
<1>5. QED
  BY <1>2, <1>3, <1>4, OrderInvHandle, OrderInvMonitor DEF Next

\* Submissions are handed over in the order of the seconds in which they came in,
\* however files are created, listings interleave with handlers, files cannot be read
\* or removed, and the process ends and starts again over the same directory.
THEOREM ServedInOrder == Spec => []FirstComeFirstServed
<1>1. Init => OnceInv /\ OrderInv
  BY DEF Init, OnceInv, HandedOverOnce, DataFiles, OrderInv, AheadInv, GoneInv, HeadInv,
     ListedInv, FirstComeFirstServed
<1>2. OrderInv => FirstComeFirstServed
  BY DEF OrderInv
<1>3. QED
  BY <1>1, <1>2, OnceInvStep, OrderInvStep, DiskCorrect, PTL DEF Spec

-----------------------------------------------------------------------------
(* queue_size                                                              *)

\* A stopped process counts nothing, and its handlers are gone.
DownInv ==
    phase = "down" =>
        /\ queue_size = 0 /\ monitor = "scan"
        /\ Uncommitted = {}
        /\ leaked = 0 /\ inherited = 0 /\ undeleted = 0

CounterInv == CounterAccounts /\ DownInv

Due == IF monitor = "decrement" THEN 1 ELSE 0

LEMMA CountedFinite ==
    ASSUME TypeInv
    PROVE  /\ IsFiniteSet(Uncommitted) /\ Cardinality(Uncommitted) \in Nat
           /\ IsFiniteSet(DataFiles) /\ Cardinality(DataFiles) \in Nat
BY SubmissionsAssumption, FS_Subset, FS_CardinalityType DEF Uncommitted, DataFiles

\* Handler steps: what they add to the sets is what they add to the counter.
LEMMA CounterInvHandle ==
    ASSUME TypeInv, DiskInv, CounterInv, NEW s \in Submissions, Handle(s)
    PROVE  CounterInv'
<1> USE DEF TypeInv, TypeOK, Move, Fault, server, handler, disk, monitoring, history
<1>0. Live /\ phase' = phase /\ UNCHANGED <<monitor, inherited, undeleted>>
  BY HandlerFrame DEF Handle, Arrive, Continue, Refuse, Count, CreateTemp,
     CreateFails, Write, CloseFails, WriteFails, Rename, RenameFails, Undo, Respond
<1>1. queue_size = Cardinality(Uncommitted) + Cardinality(DataFiles) + Due
                   + leaked - inherited - undeleted
  BY <1>0 DEF CounterInv, CounterAccounts, Due
<1>2. SUFFICES queue_size' = Cardinality(Uncommitted') + Cardinality(DataFiles') + Due
                             + leaked' - inherited - undeleted
  BY <1>0 DEF CounterInv, CounterAccounts, DownInv, Due, Live
<1>3. CASE Count(s)
  <2>1. Uncommitted' = Uncommitted \cup {s} /\ s \notin Uncommitted
        /\ DataFiles' = DataFiles
    BY <1>3 DEF Count, Uncommitted, DataFiles
  <2>2. Cardinality(Uncommitted') = Cardinality(Uncommitted) + 1
    BY <2>1, CountedFinite, FS_AddElement
  <2>3. queue_size' = queue_size + 1 /\ leaked' = leaked
    BY <1>3 DEF Count
  <2>4. QED
    BY <1>1, <2>1, <2>2, <2>3, CountedFinite DEF Due
<1>4. CASE CreateFails(s)
  <2>1. Uncommitted' = Uncommitted \ {s} /\ s \in Uncommitted
        /\ DataFiles' = DataFiles
    BY <1>4 DEF CreateFails, Uncommitted, DataFiles
  <2>2. Cardinality(Uncommitted') = Cardinality(Uncommitted) - 1
    BY <2>1, CountedFinite, FS_RemoveElement
  <2>3. queue_size' = queue_size /\ leaked' = leaked + 1
    BY <1>4 DEF CreateFails
  <2>4. Cardinality(Uncommitted') + leaked' = Cardinality(Uncommitted) + leaked
    BY <2>2, <2>3, CountedFinite
  <2>5. /\ Cardinality(Uncommitted) \in Int /\ Cardinality(Uncommitted') \in Int
        /\ Cardinality(DataFiles) \in Int /\ Due \in Int
        /\ leaked \in Int /\ leaked' \in Int /\ inherited \in Int
        /\ undeleted \in Int
    BY <2>2, <2>3, CountedFinite DEF Due
  <2> HIDE DEF TypeInv, TypeOK
  <2>6. QED
    BY <1>1, <2>1, <2>3, <2>4, <2>5
<1>5. CASE Rename(s)
  <2>1. Uncommitted' = Uncommitted \ {s} /\ s \in Uncommitted
        /\ DataFiles' = DataFiles \cup {s} /\ s \notin DataFiles
    BY <1>5 DEF Rename, Uncommitted, DataFiles, DiskInv
  <2>2. Cardinality(Uncommitted') = Cardinality(Uncommitted) - 1
    BY <2>1, CountedFinite, FS_RemoveElement
  <2>3. Cardinality(DataFiles') = Cardinality(DataFiles) + 1
    BY <2>1, CountedFinite, FS_AddElement
  <2>4. queue_size' = queue_size /\ leaked' = leaked
    BY <1>5 DEF Rename
  <2>5. QED
    BY <1>1, <2>2, <2>3, <2>4, CountedFinite DEF Due
<1>6. CASE Undo(s)
  <2>1. Uncommitted' = Uncommitted \ {s} /\ s \in Uncommitted
        /\ DataFiles' = DataFiles
    BY <1>6 DEF Undo, Uncommitted, DataFiles
  <2>2. Cardinality(Uncommitted') = Cardinality(Uncommitted) - 1
    BY <2>1, CountedFinite, FS_RemoveElement
  <2>3. queue_size' = queue_size - 1 /\ leaked' = leaked
    BY <1>6 DEF Undo
  <2>4. QED
    BY <1>1, <2>1, <2>2, <2>3, CountedFinite DEF Due
<1>7. CASE Refuse(s) \/ CreateTemp(s) \/ Write(s) \/ CloseFails(s) \/ Respond(s)
  <2>1. Uncommitted' = Uncommitted
    BY <1>7 DEF Refuse, CreateTemp, Write, CloseFails, Respond, Uncommitted
  <2>2. DataFiles' = DataFiles
    BY <1>7 DEF Refuse, CreateTemp, Write, CloseFails, Respond, DataFiles, DiskInv
  <2>3. queue_size' = queue_size /\ leaked' = leaked
    BY <1>7 DEF Refuse, CreateTemp, Write, CloseFails, Respond
  <2>4. QED
    BY <1>1, <2>1, <2>2, <2>3 DEF Due
<1>8. CASE WriteFails(s) \/ RenameFails(s)
  <2>1. Uncommitted' = Uncommitted
    BY <1>8 DEF WriteFails, RenameFails, Uncommitted
  <2>2. s \notin DataFiles /\ (name' = name \/ name' = [name EXCEPT ![s] = "none"])
    BY <1>8 DEF WriteFails, RenameFails, Removed, DataFiles, DiskInv
  <2>3. DataFiles' = DataFiles
    BY <2>2 DEF DataFiles
  <2>4. queue_size' = queue_size /\ leaked' = leaked
    BY <1>8 DEF WriteFails, RenameFails
  <2>5. QED
    BY <1>1, <2>1, <2>3, <2>4 DEF Due
<1>9. QED
  BY <1>3, <1>4, <1>5, <1>6, <1>7, <1>8 DEF Handle, Arrive, Continue

\* Monitor steps: the file goes first, its count later.
LEMMA CounterInvMonitor ==
    ASSUME TypeInv, DiskInv, CounterInv, Monitor_Queue
    PROVE  CounterInv'
<1> USE DEF TypeInv, TypeOK, ListingHeld, Fault, server, handler, disk,
            monitoring, history
<1>0. Live /\ UNCHANGED <<phase, writer, leaked, inherited>>
  BY DEF Monitor_Queue, Scan, ScanFails, Read, ReadFails, Send, Remove,
         RemoveFails, Decrement
<1>1. queue_size = Cardinality(Uncommitted) + Cardinality(DataFiles) + Due
                   + leaked - inherited - undeleted
  BY <1>0 DEF CounterInv, CounterAccounts, Due
<1>2. Uncommitted' = Uncommitted
  BY <1>0 DEF Uncommitted
<1>3. SUFFICES queue_size' = Cardinality(Uncommitted) + Cardinality(DataFiles') + Due'
                             + leaked - inherited - undeleted'
  BY <1>0, <1>2 DEF CounterInv, CounterAccounts, DownInv, Due, Live
<1>4. CASE Scan \/ ScanFails \/ Read \/ Send
  <2>1. UNCHANGED <<queue_size, undeleted, DataFiles, Due>>
    BY <1>4 DEF Scan, ScanFails, Read, Send, Proceed, DataFiles, Due
  <2>2. QED
    BY <1>1, <2>1
<1>5. ASSUME monitor # "decrement", monitor # "scan", monitor' = "decrement",
             queue_size' = queue_size, undeleted' = undeleted,
             name' = [name EXCEPT ![Head(matches)] = "none"]
      PROVE  queue_size' = Cardinality(Uncommitted) + Cardinality(DataFiles') + Due'
                           + leaked - inherited - undeleted'
  <2>1. 1 \in 1..Len(matches) /\ Head(matches) = matches[1]
    BY <1>5
  <2>2. Head(matches) \in DataFiles
    BY <1>5, <2>1 DEF DiskInv
  <2>3. DataFiles' = DataFiles \ {Head(matches)}
    BY <1>5, <2>2 DEF DataFiles
  <2>4. Cardinality(DataFiles') = Cardinality(DataFiles) - 1
    BY <2>2, <2>3, CountedFinite, FS_RemoveElement
  <2>5. QED
    BY <1>1, <1>5, <2>4, CountedFinite DEF Due
<1>6. ASSUME monitor # "decrement", monitor' = "decrement", queue_size' = queue_size,
             undeleted' = undeleted + 1, name' = name
      PROVE  queue_size' = Cardinality(Uncommitted) + Cardinality(DataFiles') + Due'
                           + leaked - inherited - undeleted'
  <2>1. DataFiles' = DataFiles
    BY <1>6 DEF DataFiles
  <2>2. QED
    BY <1>1, <1>6, <2>1, CountedFinite DEF Due
<1>7. CASE ReadFails
  <2>1. matches # <<>> /\ Head(matches) \in DataFiles
    <3>1. 1 \in 1..Len(matches) /\ Head(matches) = matches[1] /\ monitor = "read"
      BY <1>7 DEF ReadFails
    <3>2. QED
      BY <3>1 DEF DiskInv
  <2>2. CASE name' = name
    BY <1>6, <1>7, <2>2 DEF ReadFails
  <2>3. CASE name' # name
    BY <1>5, <1>7, <2>3 DEF ReadFails, Removed
  <2>4. QED
    BY <2>2, <2>3
<1>8. CASE Remove
  BY <1>5, <1>8 DEF Remove
<1>9. CASE RemoveFails
  BY <1>6, <1>9 DEF RemoveFails
<1>10. CASE Decrement
  <2>1. UNCHANGED <<undeleted, DataFiles>> /\ queue_size' = queue_size - 1
        /\ Due = 1 /\ Due' = 0
    BY <1>10 DEF Decrement, Proceed, DataFiles, Due
  <2>2. QED
    BY <1>1, <2>1, CountedFinite
<1>11. QED
  BY <1>4, <1>7, <1>8, <1>9, <1>10 DEF Monitor_Queue

LEMMA CounterInvStep == TypeInv /\ DiskInv /\ CounterInv /\ [Next]_vars => CounterInv'
<1> SUFFICES ASSUME TypeInv, DiskInv, CounterInv, [Next]_vars
             PROVE  CounterInv'
  OBVIOUS
<1> USE DEF server, handler, disk, monitoring, history
<1>1. ASSUME UNCHANGED <<queue_size, writer, name, monitor, leaked, inherited, undeleted>>,
             Live, phase' # "down"
      PROVE  CounterInv'
  <2>1. UNCHANGED <<Uncommitted, DataFiles>>
    BY <1>1 DEF Uncommitted, DataFiles
  <2>2. QED
    BY <1>1, <2>1 DEF CounterInv, CounterAccounts, DownInv, Live
<1>2. ASSUME NEW w \in Workers, Worker(w)
      PROVE  CounterInv'
  BY <1>1, <1>2 DEF Worker, Take, Skip, Index, IndexFails, Quit, Done, Live
<1>3. CASE Exit \/ Crash
  <2>1. /\ phase' = "down" /\ queue_size' = 0 /\ monitor' = "scan"
        /\ leaked' = 0 /\ inherited' = 0 /\ undeleted' = 0
    BY <1>3 DEF Exit, Crash, End
  <2>2. Uncommitted' = {}
    BY <1>3 DEF Exit, Crash, End, Uncommitted, InFlight, TypeInv, TypeOK
  <2>3. QED
    BY <2>1, <2>2 DEF CounterInv, CounterAccounts, DownInv, Live
<1>4. CASE Start
  <2>1. /\ phase = "down" /\ phase' = "up" /\ inherited' = Cardinality(DataFiles)
        /\ UNCHANGED <<queue_size, writer, name, monitor, leaked, undeleted>>
    BY <1>4 DEF Start
  <2>2. UNCHANGED <<Uncommitted, DataFiles>>
    BY <2>1 DEF Uncommitted, DataFiles
  <2>3. Cardinality({}) = 0
    BY FS_EmptySet
  <2>4. QED
    BY <2>1, <2>2, <2>3, CountedFinite DEF CounterInv, CounterAccounts, DownInv, Live
<1>5. CASE UNCHANGED <<queue_size, writer, name, monitor, leaked, inherited, undeleted, phase>>
  <2>1. UNCHANGED <<Uncommitted, DataFiles>>
    BY <1>5 DEF Uncommitted, DataFiles
  <2>2. QED
    BY <1>5, <2>1 DEF CounterInv, CounterAccounts, DownInv, Live
<1>6. CASE Tick \/ UNCHANGED vars
  BY <1>5, <1>6 DEF Tick, vars
<1>7. CASE Signal
  BY <1>1, <1>7 DEF Signal, Live
<1>8. QED
  BY <1>2, <1>3, <1>4, <1>6, <1>7, CounterInvHandle, CounterInvMonitor DEF Next

LEMMA CounterInvInit == Init => CounterInv
<1> SUFFICES ASSUME Init
             PROVE  CounterInv
  OBVIOUS
<1>1. Uncommitted = {} /\ DataFiles = {}
  BY DEF Init, Uncommitted, DataFiles
<1>2. Cardinality({}) = 0
  BY FS_EmptySet
<1>3. QED
  BY <1>1, <1>2 DEF Init, CounterInv, CounterAccounts, DownInv, Live

\* The counter behind the HAProxy weight is off by what failed CreateTemps,
\* inherited files and undeleted files add up to, and by nothing else.
THEOREM CounterExplained == Spec => []CounterAccounts
<1>1. CounterInv => CounterAccounts
  BY DEF CounterInv
<1>2. QED
  BY <1>1, CounterInvInit, CounterInvStep, DiskCorrect, PTL DEF Spec

-----------------------------------------------------------------------------
(* The pipeline is never stuck, and gets through every listing             *)

\* The workers at work.
Busy == {w \in Workers : work[w] # NoJob}

\* How much of its file the monitor has done, in steps of the pipeline.
Passed == CASE monitor \in {"scan", "read"} -> 0
            [] monitor = "send" -> 1
            [] monitor = "remove" -> 4
            [] monitor = "decrement" -> 5

\* The steps monitor and workers have left to do at most before the next listing:
\* a listed file is read, sent, taken by a worker, done, removed and counted down.
Backlog == 6 * Len(matches) - Passed + 2 * Len(jobs) + Cardinality(Busy)

pipeline == <<monitoring, jobs, work>>

\* The guard of an action of Monitor_Queue past its listing, or of a Worker, that
\* needs no failure: only a full channel holds the monitor up.
CanGoOn ==
    \/ monitor \in {"read", "remove", "decrement"}
    \/ monitor = "send" /\ Len(jobs) < MaxWorkers
    \/ \E w \in Workers : work[w] # NoJob \/ (Idle(w) /\ jobs # <<>>)

\* Workers return only after CancelQueue().
ExitInv == phase # "stopping" => exited = {}

LEMMA ExitInvStep == ExitInv /\ [Next]_vars => ExitInv'
<1> SUFFICES ASSUME ExitInv, [Next]_vars PROVE ExitInv'
  OBVIOUS
<1> USE DEF ExitInv, server, pool
<1>1. CASE UNCHANGED vars
  BY <1>1 DEF vars
<1>2. CASE Tick \/ Signal \/ Start
  BY <1>2 DEF Tick, Signal, Start
<1>3. CASE Exit \/ Crash
  BY <1>3 DEF Exit, Crash, End
<1>4. ASSUME NEW s \in Submissions, Handle(s) PROVE phase' = phase /\ exited' = exited
  BY <1>4 DEF Handle, Arrive, Continue, Refuse, Count, CreateTemp, CreateFails, Write,
              CloseFails, WriteFails, Rename, RenameFails, Undo, Respond
<1>5. CASE Monitor_Queue
  BY <1>5 DEF Monitor_Queue, Scan, ScanFails, Read, ReadFails, Send, Remove,
              RemoveFails, Decrement
<1>6. ASSUME NEW w \in Workers, Worker(w) PROVE ExitInv'
  BY <1>6 DEF Worker, Take, Skip, Index, IndexFails, Quit, Done
<1>7. QED
  BY <1>1, <1>2, <1>3, <1>4, <1>5, <1>6 DEF Next

\* Of some numbers one is the least.
LEMMA LeastNumber ==
    ASSUME NEW T \in SUBSET Nat, T # {}
    PROVE  \E n \in T : \A k \in T : n =< k
<1> DEFINE R == OpToRel(<, Nat)
<1>1. \A x, y \in Nat : <<x, y>> \in R <=> x < y
  BY DEF OpToRel
<1>2. IsWellFoundedOn(R, Nat)
  BY NatLessThanWellFounded
<1> HIDE DEF R
<1>3. PICK n \in T : \A k \in T : <<k, n>> \notin R
  BY <1>2, WFMin
<1>4. ASSUME NEW k \in T PROVE n =< k
  <2>1. k \in Nat /\ n \in Nat
    OBVIOUS
  <2>2. ~(k < n)
    BY <1>1, <1>3, <2>1
  <2>3. QED
    BY <2>1, <2>2
<1>5. QED
  BY <1>4

\* Whatever files there are, natsort can list them: a listing of the others with a
\* file of the earliest second before it is one.
LEMMA ListingWithFirst ==
    ASSUME NEW S \in SUBSET Submissions, epoch \in [Submissions -> Nat], NEW m \in S,
           \A s \in S : epoch[m] =< epoch[s], NEW q \in Listings(S \ {m})
    PROVE  Listings(S) # {}
<1> DEFINE n == Cardinality(S)
           r == [i \in 1..n |-> IF i = 1 THEN m ELSE q[i - 1]]
<1>1. n \in Nat \ {0} /\ Cardinality(S \ {m}) = n - 1
  BY SubmissionsAssumption, FS_Subset, FS_CardinalityType, FS_RemoveElement, FS_EmptySet
<1> HIDE DEF n
<1>2. /\ q \in [1..n - 1 -> S \ {m}]
      /\ \A s \in S \ {m} : \E i \in 1..n - 1 : q[i] = s
      /\ \A i, j \in 1..n - 1 : i < j => q[i] # q[j] /\ epoch[q[i]] =< epoch[q[j]]
  BY <1>1 DEF Listings
<1>3. \A i \in 1..n : i # 1 => i - 1 \in 1..n - 1
  BY <1>1
<1>4. r \in [1..n -> S]
  BY <1>2, <1>3
<1>5. ASSUME NEW s \in S
      PROVE  \E i \in 1..n : r[i] = s
  <2>1. CASE s = m
    <3>1. 1 \in 1..n /\ r[1] = m
      BY <1>1
    <3>2. QED
      BY <2>1, <3>1
  <2>2. CASE s # m
    <3>1. PICK i \in 1..n - 1 : q[i] = s
      BY <1>2, <2>2
    <3>2. i + 1 \in 1..n /\ i + 1 # 1 /\ i + 1 - 1 = i
      BY <1>1
    <3>3. r[i + 1] = q[i]
      BY <3>2
    <3>4. QED
      BY <3>1, <3>2, <3>3
  <2>3. QED
    BY <2>1, <2>2
<1>6. ASSUME NEW i \in 1..n, NEW j \in 1..n, i < j
      PROVE  r[i] # r[j] /\ epoch[r[i]] =< epoch[r[j]]
  <2>1. j # 1 /\ j - 1 \in 1..n - 1 /\ r[j] = q[j - 1] /\ r[j] \in S \ {m}
    BY <1>1, <1>2, <1>3, <1>6
  <2>2. CASE i = 1
    BY <2>1, <2>2
  <2>3. CASE i # 1
    <3>1. i - 1 \in 1..n - 1 /\ r[i] = q[i - 1] /\ i - 1 < j - 1
      BY <1>3, <1>6, <2>3
    <3>2. QED
      BY <1>2, <2>1, <3>1
  <2>4. QED
    BY <2>2, <2>3
<1> HIDE DEF r
<1>7. DOMAIN r = 1..n
  BY <1>4
<1>8. r \in Listings(S)
  BY <1>4, <1>5, <1>6, <1>7 DEF Listings, n
<1>9. QED
  BY <1>8

LEMMA SomeListing ==
    ASSUME NEW S \in SUBSET Submissions, epoch \in [Submissions -> Nat]
    PROVE  Listings(S) # {}
<1> DEFINE Unlisted == {T \in SUBSET Submissions : Listings(T) = {}}
           Sizes == {Cardinality(T) : T \in Unlisted}
<1>1. \A T \in SUBSET Submissions : IsFiniteSet(T) /\ Cardinality(T) \in Nat
  BY SubmissionsAssumption, FS_Subset, FS_CardinalityType
<1>2. SUFFICES ASSUME Unlisted # {} PROVE FALSE
  OBVIOUS
<1>3. PICK n \in Sizes : \A k \in Sizes : n =< k
  <2>1. Sizes \in SUBSET Nat /\ Sizes # {}
    BY <1>1, <1>2
  <2> HIDE DEF Sizes
  <2>2. QED
    BY <2>1, LeastNumber
<1>4. PICK T \in SUBSET Submissions : Listings(T) = {} /\ Cardinality(T) = n
  BY <1>3
<1>5. T # {}
  <2>1. Cardinality({}) = 0 /\ 1..0 = {}
    BY FS_EmptySet
  <2>2. <<>> \in [{} -> {}] /\ DOMAIN <<>> = {}
    OBVIOUS
  <2>3. <<>> \in Listings({})
    BY <2>1, <2>2 DEF Listings
  <2>4. QED
    BY <1>4, <2>3
<1>6. PICK m \in T : \A s \in T : epoch[m] =< epoch[s]
  <2> DEFINE E == {epoch[s] : s \in T}
  <2>1. E \in SUBSET Nat /\ E # {}
    BY <1>5
  <2>2. PICK e \in E : \A k \in E : e =< k
    <3> HIDE DEF E
    <3>1. QED
      BY <2>1, LeastNumber
  <2>3. QED
    BY <2>2
<1>7. Cardinality(T \ {m}) = n - 1 /\ n \in Nat
  BY <1>1, <1>4, FS_RemoveElement
<1>8. T \ {m} \notin Unlisted
  <2>1. ~(n =< n - 1)
    BY <1>7
  <2>2. QED
    BY <1>3, <1>7, <2>1
<1>9. QED
  BY <1>4, <1>6, <1>8, ListingWithFirst

LEMMA BacklogType ==
    ASSUME TypeInv
    PROVE  /\ Len(matches) \in Nat /\ Len(jobs) \in Nat /\ IsFiniteSet(Busy)
           /\ Cardinality(Busy) \in Nat /\ Passed \in {0, 1, 4, 5}
           /\ matches # <<>> => Len(matches) >= 1
           /\ matches = <<>> => Passed = 0
           /\ Backlog \in Nat
<1>1. IsFiniteSet(Busy) /\ Cardinality(Busy) \in Nat
  BY WorkersAssumption, FS_Subset, FS_CardinalityType DEF Busy
<1>2. /\ Len(matches) \in Nat /\ Len(jobs) \in Nat
      /\ matches # <<>> => Len(matches) >= 1
  BY DEF TypeInv, TypeOK
<1>3. Passed \in {0, 1, 4, 5} /\ (matches = <<>> => Passed = 0)
  BY DEF TypeInv, TypeOK, ListingHeld, Passed
<1>4. 6 * Len(matches) - Passed \in Nat
  BY <1>2, <1>3
<1>5. QED
  BY <1>1, <1>2, <1>3, <1>4 DEF Backlog

LEMMA BacklogTypeNext == TypeInv' => Backlog' \in Nat
<1> SUFFICES ASSUME TypeInv'
             PROVE  Backlog' \in Nat
  OBVIOUS
<1>1. Cardinality(Busy') \in Nat
  BY WorkersAssumption, FS_Subset, FS_CardinalityType DEF Busy
<1>2. /\ Len(matches') \in Nat /\ Len(jobs') \in Nat
      /\ matches' # <<>> => Len(matches') >= 1
  BY DEF TypeInv, TypeOK
<1>3. Passed' \in {0, 1, 4, 5} /\ (matches' = <<>> => Passed' = 0)
  BY DEF TypeInv, TypeOK, ListingHeld, Passed
<1>4. 6 * Len(matches') - Passed' \in Nat
  BY <1>2, <1>3
<1>5. QED
  BY <1>1, <1>2, <1>4 DEF Backlog

\* Past its listing, every step of the monitor but a failed listing leaves less.
LEMMA BacklogMonitor ==
    ASSUME TypeInv, Monitor_Queue, ~(monitor = "scan" /\ matches' # <<>>)
    PROVE  UNCHANGED pipeline \/ Backlog' < Backlog
<1> DEFINE l == Len(matches) p == Passed c == Len(jobs) b == Cardinality(Busy)
           l1 == Len(matches') p1 == Passed' c1 == Len(jobs') b1 == Cardinality(Busy')
<1>1. /\ l \in Nat /\ c \in Nat /\ b \in Nat /\ p \in {0, 1, 4, 5}
      /\ matches # <<>> => l >= 1
  BY BacklogType
<1>2. Backlog = 6 * l - p + 2 * c + b /\ Backlog' = 6 * l1 - p1 + 2 * c1 + b1
  BY DEF Backlog
<1>3. b1 = b
  BY DEF Busy, Monitor_Queue, Scan, ScanFails, Read, ReadFails, Send, Remove,
         RemoveFails, Decrement, pool
<1>4. monitor # "scan" => matches # <<>> /\ matches \in Seq(Submissions) /\ jobs \in Seq(Submissions)
  BY DEF TypeInv, TypeOK, ListingHeld
<1>5. CASE Scan \/ ScanFails
  BY <1>5 DEF Scan, ScanFails, Proceed, pipeline, monitoring, pool, TypeInv, ListingHeld
<1>6. CASE Read
  <2>1. p = 0 /\ p1 = 1 /\ l1 = l /\ c1 = c
    BY <1>6 DEF Read, Passed
  <2> HIDE DEF l, p, c, b, l1, p1, c1, b1
  <2>2. QED
    BY <1>1, <1>2, <1>3, <2>1
<1>7. CASE ReadFails
  <2>1. p = 0 /\ p1 = 5 /\ l1 = l /\ c1 = c
    BY <1>7 DEF ReadFails, Passed
  <2> HIDE DEF l, p, c, b, l1, p1, c1, b1
  <2>2. QED
    BY <1>1, <1>2, <1>3, <2>1
<1>8. CASE Send
  <2>1. p = 1 /\ p1 = 4 /\ l1 = l
    BY <1>8 DEF Send, Passed
  <2>2. c1 = c + 1
    <3>1. Head(matches) \in Submissions /\ jobs' = Append(jobs, Head(matches))
      BY <1>4, <1>8 DEF Send
    <3>2. QED
      BY <1>4, <1>8, <3>1 DEF Send
  <2> HIDE DEF l, p, c, b, l1, p1, c1, b1
  <2>3. QED
    BY <1>1, <1>2, <1>3, <2>1, <2>2
<1>9. CASE Remove \/ RemoveFails
  <2>1. p = 4 /\ p1 = 5 /\ l1 = l /\ c1 = c
    BY <1>9 DEF Remove, RemoveFails, Passed
  <2> HIDE DEF l, p, c, b, l1, p1, c1, b1
  <2>2. QED
    BY <1>1, <1>2, <1>3, <2>1
<1>10. CASE Decrement
  <2>1. p = 5 /\ p1 = 0 /\ c1 = c
    BY <1>10 DEF Decrement, Proceed, Passed
  <2>2. l1 = l - 1
    BY <1>4, <1>10 DEF Decrement, Proceed
  <2> HIDE DEF l, p, c, b, l1, p1, c1, b1
  <2>3. QED
    BY <1>1, <1>2, <1>3, <2>1, <2>2
<1>11. QED
  BY <1>5, <1>6, <1>7, <1>8, <1>9, <1>10 DEF Monitor_Queue

LEMMA BacklogWorker ==
    ASSUME TypeInv, NEW w \in Workers, Worker(w)
    PROVE  UNCHANGED pipeline \/ Backlog' < Backlog
<1> DEFINE l == Len(matches) p == Passed c == Len(jobs) b == Cardinality(Busy)
           l1 == Len(matches') p1 == Passed' c1 == Len(jobs') b1 == Cardinality(Busy')
<1>1. /\ l \in Nat /\ c \in Nat /\ b \in Nat /\ p \in {0, 1, 4, 5}
      /\ IsFiniteSet(Busy)
  BY BacklogType
<1>2. Backlog = 6 * l - p + 2 * c + b /\ Backlog' = 6 * l1 - p1 + 2 * c1 + b1
  BY DEF Backlog
<1>3. UNCHANGED monitoring /\ l1 = l /\ p1 = p
  BY DEF Worker, Take, Skip, Index, IndexFails, Quit, Passed, monitoring
<1>4. CASE Take(w)
  <2>1. Head(jobs) \in Submissions /\ jobs \in Seq(Submissions) /\ c1 = c - 1
    BY <1>4 DEF Take, TypeInv, TypeOK
  <2>2. w \notin Busy /\ Busy' = Busy \cup {w}
    BY <1>4, <2>1, NoJobAssumption DEF Take, Idle, Busy, TypeInv, TypeOK
  <2>3. b1 = b + 1
    BY <1>1, <2>2, FS_AddElement
  <2> HIDE DEF l, p, c, b, l1, p1, c1, b1
  <2>4. QED
    BY <1>1, <1>2, <1>3, <2>1, <2>3
<1>5. CASE Skip(w) \/ Index(w) \/ IndexFails(w)
  <2>1. c1 = c
    BY <1>5 DEF Skip, Index, IndexFails
  <2>2. w \in Busy /\ Busy' = Busy \ {w}
    BY <1>5 DEF Skip, Index, IndexFails, Done, Busy, TypeInv, TypeOK
  <2>3. b1 = b - 1
    BY <1>1, <2>2, FS_RemoveElement
  <2> HIDE DEF l, p, c, b, l1, p1, c1, b1
  <2>4. QED
    BY <1>1, <1>2, <1>3, <2>1, <2>3
<1>6. CASE Quit(w)
  BY <1>3, <1>6 DEF Quit, pipeline
<1>7. QED
  BY <1>4, <1>5, <1>6 DEF Worker

\* However handlers, failures and workers interleave, and as long as the process runs,
\* every step of Monitor_Queue and the workers past a listing leaves less to do before
\* the next listing, and nobody else adds to it: Monitor_Queue always comes back.
THEOREM EveryListingEnds ==
    Spec => [][phase' # "down" /\ ~(monitor = "scan" /\ matches' # <<>>)
                   => Backlog' \in Nat /\ (UNCHANGED pipeline \/ Backlog' < Backlog)]_vars
<1> DEFINE Lessens == phase' # "down" /\ ~(monitor = "scan" /\ matches' # <<>>)
               => Backlog' \in Nat /\ (UNCHANGED pipeline \/ Backlog' < Backlog)
<1>1. ASSUME TypeInv, Next
      PROVE  Lessens
  <2>1. TypeInv'
    BY <1>1, TypeInvStep
  <2>2. TypeInv' => Backlog' \in Nat
    BY BacklogTypeNext
  <2>3. ASSUME NEW s \in Submissions, Handle(s) PROVE UNCHANGED pipeline
    BY <2>3 DEF Handle, Arrive, Continue, Refuse, Count, CreateTemp, CreateFails, Write,
                CloseFails, WriteFails, Rename, RenameFails, Undo, Respond,
                pipeline, monitoring, pool
  <2>4. Tick \/ Signal \/ Start => UNCHANGED pipeline
    BY DEF Tick, Signal, Start, pipeline, monitoring, pool
  <2>5. Exit \/ Crash => phase' = "down"
    BY DEF Exit, Crash, End
  <2>6. QED
    BY <1>1, <2>1, <2>2, <2>3, <2>4, <2>5, BacklogMonitor, BacklogWorker DEF Next
<1>2. TypeInv /\ [Next]_vars => [Lessens]_vars
  BY <1>1
<1> HIDE DEF Lessens
<1>3. QED
  BY <1>2, TypeInvInit, TypeInvStep, PTL DEF Spec, Lessens

\* A running server's pipeline is never stuck: whatever the queue directory holds can
\* be listed, and as long as there is anything to do, the monitor, or a worker that makes
\* room in the full channel the monitor waits for, can do it.
THEOREM PipelineNeverStuck ==
    Spec => [](phase = "up" =>
                   Listings(DataFiles) # {} /\ (Backlog # 0 => CanGoOn))
<1>1. ASSUME TypeInv, ExitInv, phase = "up"
      PROVE  Listings(DataFiles) # {} /\ (Backlog # 0 => CanGoOn)
  <2>1. Listings(DataFiles) # {}
    BY <1>1, SomeListing DEF TypeInv, TypeOK, DataFiles
  <2>2. jobs # <<>> => CanGoOn
    BY <1>1, WorkersAssumption DEF CanGoOn, ExitInv, Idle
  <2>3. Busy # {} => CanGoOn
    BY DEF Busy, CanGoOn
  <2>4. ASSUME Busy = {}, jobs = <<>>, Backlog # 0
        PROVE  CanGoOn
    <3>1. Cardinality(Busy) = 0 /\ Len(jobs) = 0
      BY <2>4, FS_EmptySet
    <3>2. matches # <<>>
      <4>1. matches = <<>> => Len(matches) = 0 /\ Passed = 0
        BY <1>1, BacklogType
      <4>2. QED
        BY <2>4, <3>1, <4>1 DEF Backlog
    <3>3. monitor \in {"read", "send", "remove", "decrement"}
      BY <1>1, <3>2 DEF TypeInv, TypeOK, ListingHeld
    <3>4. Len(jobs) < MaxWorkers
      BY <3>1, MaxWorkersType
    <3>5. QED
      BY <3>3, <3>4 DEF CanGoOn
  <2>5. QED
    BY <2>1, <2>2, <2>3, <2>4
<1>2. Init => ExitInv
  BY DEF Init, ExitInv
<1>3. QED
  BY <1>1, <1>2, TypeInvInit, TypeInvStep, ExitInvStep, PTL DEF Spec

-----------------------------------------------------------------------------
(* SubmissionQueue implements DurableDelivery                              *)

\* What reached the channel came from a handler past its rename.
OriginInv ==
    \A s \in Submissions : s \in Handed => writer[s] \notin Unwritten

LEMMA OriginInvStep == TypeInv /\ DiskInv /\ OriginInv /\ [Next]_vars => OriginInv'
<1> SUFFICES ASSUME TypeInv, DiskInv, OriginInv, [Next]_vars
             PROVE  OriginInv'
  OBVIOUS
<1> USE DEF OriginInv, Unwritten
<1>1. ASSUME NEW s \in Submissions, Handle(s)
      PROVE  OriginInv'
  <2>1. UNCHANGED Handed /\ \A t \in Submissions \ {s} : writer'[t] = writer[t]
    BY <1>1, HandlerFrame DEF Handed, InChannel, InWork
  <2>2. writer[s] \notin Unwritten => writer'[s] \notin Unwritten
    BY <1>1 DEF Handle, Arrive, Continue, Refuse, Count, CreateTemp, CreateFails,
         Write, CloseFails, WriteFails, Rename, RenameFails, Undo, Respond, Move,
         TypeInv, TypeOK
  <2>3. QED
    BY <2>1, <2>2
<1>2. CASE Monitor_Queue
  <2>1. UNCHANGED <<writer, InWork, settled>>
    BY <1>2 DEF Monitor_Queue, Scan, ScanFails, Read, ReadFails, Send, Remove,
         RemoveFails, Decrement, InWork, handler, pool
  <2>2. InChannel' \cup dropped' \subseteq InChannel \cup dropped \cup DataFiles
    <3>1. CASE Send
      <4>1. Head(matches) \in DataFiles
        BY <3>1, InHandOnDisk DEF Send, InHand
      <4>2. InChannel' = InChannel \cup {Head(matches)} /\ dropped' = dropped
        BY <3>1, <4>1, AppendRange DEF Send, InChannel, DataFiles, TypeInv, TypeOK
      <4>3. QED
        BY <4>1, <4>2
    <3>2. CASE ReadFails
      <4>1. 1 \in 1..Len(matches) /\ Head(matches) = matches[1] /\ monitor = "read"
        BY <3>2 DEF ReadFails, TypeInv, TypeOK, ListingHeld
      <4>2. Head(matches) \in DataFiles
        BY <4>1 DEF DiskInv
      <4>3. dropped' = dropped \cup {Head(matches)} /\ InChannel' = InChannel
        BY <3>2 DEF ReadFails, InChannel
      <4>4. QED
        BY <4>2, <4>3
    <3>3. CASE ~Send /\ ~ReadFails
      BY <1>2, <3>3 DEF Monitor_Queue, Scan, ScanFails, Read, Remove, RemoveFails,
           Decrement, InChannel, history
    <3>4. QED
      BY <3>1, <3>2, <3>3
  <2>3. QED
    BY <2>1, <2>2 DEF Handed, DiskInv, DataFiles
<1>3. ASSUME NEW w \in Workers, Worker(w)
      PROVE  OriginInv'
  <2>1. UNCHANGED writer
    BY <1>3 DEF Worker, Take, Skip, Index, IndexFails, Quit, handler
  <2>2. Handed' \subseteq Handed
    <3>1. CASE Take(w)
      <4>1. InChannel = {Head(jobs)} \cup InChannel'
        BY <3>1, HeadTailRange DEF Take, InChannel, TypeInv, TypeOK
      <4>2. InWork' \subseteq InWork \cup {Head(jobs)} /\ UNCHANGED <<settled, dropped>>
        BY <3>1 DEF Take, InWork, history, TypeInv, TypeOK
      <4>3. QED
        BY <4>1, <4>2 DEF Handed
    <3>2. CASE ~Take(w)
      <4>1. InWork' \subseteq InWork /\ UNCHANGED InChannel
        BY <1>3, <3>2 DEF Worker, Skip, Index, IndexFails, Quit, Done, InWork,
             InChannel, TypeInv, TypeOK
      <4>2. settled' \cup dropped' \subseteq settled \cup dropped \cup InWork
        BY <1>3, <3>2 DEF Worker, Skip, Index, IndexFails, Quit, Done, InWork, history
      <4>3. QED
        BY <4>1, <4>2 DEF Handed
    <3>3. QED
      BY <3>1, <3>2
  <2>3. QED
    BY <2>1, <2>2
<1>4. CASE Exit \/ Crash
  <2>1. /\ dropped' = dropped \cup AtRisk /\ UNCHANGED settled
        /\ jobs' = <<>> /\ work' = [w \in Workers |-> NoJob]
        /\ \A s \in Submissions : writer'[s] \in {writer[s], "cut"}
    BY <1>4 DEF Exit, Crash, End, TypeInv, TypeOK
  <2>2. InChannel' = {} /\ InWork' = {}
    BY <2>1 DEF InChannel, InWork, Range
  <2>3. AtRisk \subseteq Handed
    BY InHandOnDisk DEF AtRisk, InMemory, Handed, DataFiles
  <2>4. Handed' \subseteq Handed
    BY <2>1, <2>2, <2>3 DEF Handed
  <2>5. QED
    BY <2>1, <2>4
<1>5. CASE Tick \/ Signal \/ Start \/ UNCHANGED vars
  BY <1>5 DEF Tick, Signal, Start, vars, Handed, InChannel, InWork, handler, pool,
              history
<1>6. QED
  BY <1>1, <1>2, <1>3, <1>4, <1>5 DEF Next

-----------------------------------------------------------------------------
(* Simulation                                                              *)

RefinementInv == TypeInv /\ DiskInv /\ VanishInv /\ OriginInv

\* What is at risk is in the channel or with a worker, its file gone.
OffDisk == (InChannel \cup InWork) \ (DataFiles \cup settled)

LEMMA AtRiskIs == TypeInv /\ DiskInv => AtRisk = OffDisk
<1> SUFFICES ASSUME TypeInv, DiskInv
             PROVE  AtRisk = OffDisk
  OBVIOUS
<1>1. InChannel \cup InWork \subseteq Submissions
  BY RangeOfSeq DEF InChannel, InWork, TypeInv, TypeOK
<1>2. QED
  BY <1>1, InHandOnDisk DEF AtRisk, OffDisk, InMemory, DataFiles

LEMMA AtRiskIsNext == TypeInv' /\ DiskInv' => AtRisk' = OffDisk'
<1> SUFFICES ASSUME TypeInv', DiskInv'
             PROVE  AtRisk' = OffDisk'
  OBVIOUS
<1>1. InChannel' \cup InWork' \subseteq Submissions
  BY RangeOfSeq DEF InChannel, InWork, TypeInv, TypeOK
<1>2. ASSUME monitor' = "send"
      PROVE  Head(matches)' \in DataFiles'
  <2>1. 1 \in 1..Len(matches') /\ Head(matches)' = matches'[1]
    BY <1>2 DEF TypeInv, TypeOK, ListingHeld
  <2>2. QED
    BY <1>2, <2>1 DEF DiskInv
<1>3. InHand' \subseteq DataFiles'
  BY <1>2 DEF InHand
<1>4. QED
  BY <1>1, <1>3 DEF AtRisk, OffDisk, InMemory, DataFiles

\* The two modules count alike.
LEMMA SameCardinality == \A S : Delivery!Cardinality(S) = Cardinality(S)
BY DEF Delivery!Cardinality, Cardinality

LEMMA TakenIs ==
    /\ AtRisk \subseteq Submissions => Delivery!In("taken") = AtRisk
    /\ AtRisk' \subseteq Submissions =>
          {s \in Submissions : Stage'[s] = "taken"} = AtRisk'
BY DEF Delivery!In, Stage, AtRisk

\* A step that leaves all that the stage of t is read off.
Alike(t) ==
    /\ t \in settled' <=> t \in settled
    /\ t \in DataFiles' <=> t \in DataFiles
    /\ t \in AtRisk' <=> t \in AtRisk
    /\ (t \in dropped' <=> t \in dropped) \/ t \in settled \cup DataFiles \cup AtRisk
    /\ writer'[t] \in Unwritten <=> writer[t] \in Unwritten

LEMMA AlikeStage ==
    ASSUME NEW t \in Submissions, Alike(t)
    PROVE  Stage'[t] = Stage[t]
BY DEF Alike, Stage, DataFiles

LEMMA AllAlike ==
    ASSUME \A t \in Submissions : Alike(t)
    PROVE  Stage' = Stage
<1>1. \A t \in Submissions : Stage'[t] = Stage[t]
  BY AlikeStage
<1>2. QED
  BY <1>1 DEF Stage

LEMMA OthersAlike ==
    ASSUME NEW s \in Submissions, \A t \in Submissions \ {s} : Alike(t)
    PROVE  /\ Stage' = [Stage EXCEPT ![s] = Stage'[s]]
           /\ Stage'[s] = Stage[s] => Stage' = Stage
<1>1. \A t \in Submissions \ {s} : Stage'[t] = Stage[t]
  BY AlikeStage
<1>2. DOMAIN Stage = Submissions /\ DOMAIN Stage' = Submissions
      /\ Stage = [t \in Submissions |-> Stage[t]]
      /\ Stage' = [t \in Submissions |-> Stage'[t]]
  BY DEF Stage
<1>3. QED
  BY <1>1, <1>2

\* One submission moves on: the step is one of the abstract delivery.
LEMMA OneMoves ==
    ASSUME TypeInv, DiskInv, AtMostTwoPerWorker', AtRisk' \subseteq Submissions,
           NEW s \in Submissions, \A t \in Submissions \ {s} : Alike(t),
           \/ Stage'[s] = Stage[s]
           \/ Stage[s] = "new" /\ Stage'[s] \in {"queued", "refused"}
           \/ Stage[s] = "queued" /\ Stage'[s] \in {"taken", "settled", "lost"}
           \/ Stage[s] = "taken" /\ Stage'[s] \in {"settled", "lost"}
    PROVE  [Delivery!Next]_Stage
<1>1. Stage' = [Stage EXCEPT ![s] = Stage'[s]]
  BY OthersAlike
<1>2. CASE Stage'[s] = Stage[s]
  BY <1>2, OthersAlike
<1>3. CASE Stage[s] = "new" /\ Stage'[s] \in {"queued", "refused"}
  BY <1>1, <1>3 DEF Delivery!Next, Delivery!Accept, Delivery!Refuse, Delivery!Move
<1>4. CASE Stage[s] \in {"queued", "taken"} /\ Stage'[s] \in {"settled", "lost"}
  BY <1>1, <1>4 DEF Delivery!Next, Delivery!Settle, Delivery!Lose, Delivery!Move
<1>5. CASE Stage[s] = "queued" /\ Stage'[s] = "taken"
  <2>1. s \notin AtRisk
    BY <1>5 DEF Stage, AtRisk
  <2>2. AtRisk' = AtRisk \cup {s}
    <3>1. AtRisk \subseteq Submissions
      BY AtRiskIs, RangeOfSeq DEF OffDisk, InChannel, InWork, TypeInv, TypeOK
    <3>2. \A t \in Submissions \ {s} : t \in AtRisk' <=> t \in AtRisk
      BY DEF Alike
    <3>3. s \in AtRisk'
      BY <1>5 DEF Stage
    <3>4. QED
      BY <3>1, <3>2, <3>3
  <2>3. IsFiniteSet(AtRisk) /\ Cardinality(AtRisk) \in Nat
    BY <2>2, SubmissionsAssumption, FS_Subset, FS_CardinalityType
  <2>4. Cardinality(AtRisk') = Cardinality(AtRisk) + 1
    BY <2>1, <2>2, <2>3, FS_AddElement
  <2>5. Cardinality(Delivery!In("taken")) < 2 * MaxWorkers
    <3>1. Delivery!In("taken") = AtRisk
      BY <2>2, TakenIs
    <3>2. QED
      BY <2>3, <2>4, <3>1, MaxWorkersType DEF AtMostTwoPerWorker
  <2>6. Delivery!Take(s)
    <3>1. Delivery!Move(s, {"queued"}, "taken")
      BY <1>1, <1>5 DEF Delivery!Move
    <3>2. QED
      BY <2>5, <3>1, SameCardinality DEF Delivery!Take
  <2>7. QED
    BY <2>6 DEF Delivery!Next
<1>6. QED
  BY <1>2, <1>3, <1>4, <1>5

LEMMA SimulateHandle ==
    ASSUME RefinementInv, RefinementInv', AtMostTwoPerWorker',
           NEW s \in Submissions, Handle(s)
    PROVE  [Delivery!Next]_Stage
<1> USE DEF RefinementInv
<1>1. UNCHANGED <<InChannel, InWork, settled, dropped>>
  BY HandlerFrame DEF InChannel, InWork
<1>2. /\ \A t \in Submissions \ {s} : writer'[t] = writer[t]
      /\ \A t \in Submissions \ {s} : t \in DataFiles' <=> t \in DataFiles
  BY HandlerFrame DEF DataFiles
<1>3. /\ AtRisk = (InChannel \cup InWork) \ (DataFiles \cup settled)
      /\ AtRisk' = (InChannel' \cup InWork') \ (DataFiles' \cup settled')
  BY AtRiskIs, AtRiskIsNext DEF OffDisk
<1>4. AtRisk' \subseteq Submissions
  BY <1>3, RangeOfSeq DEF InChannel, InWork, TypeInv, TypeOK
<1>5. \A t \in Submissions \ {s} : Alike(t)
  BY <1>1, <1>2, <1>3 DEF Alike
<1>6. \/ Stage'[s] = Stage[s]
      \/ Stage[s] = "new" /\ Stage'[s] \in {"queued", "refused"}
  <2>1. CASE writer[s] \in Unwritten
    <3>1. s \notin Handed
      BY <2>1 DEF OriginInv
    <3>2. s \notin DataFiles /\ s \notin AtRisk
      BY <1>3, <2>1, <3>1 DEF DiskInv, Unwritten, Handed
    <3>3. Stage[s] = "new"
      BY <2>1, <3>1, <3>2 DEF Stage, Handed, DataFiles
    <3>4. s \notin settled' \cup dropped' \cup AtRisk'
      BY <1>1, <1>3, <3>1 DEF Handed
    <3>5. Stage'[s] \in {"new", "queued", "refused"}
      BY <3>4 DEF Stage
    <3>6. QED
      BY <3>3, <3>5
  <2>2. CASE writer[s] \notin Unwritten
    <3>1. writer'[s] \notin Unwritten /\ (s \in DataFiles' <=> s \in DataFiles)
      BY <2>2 DEF Unwritten, Handle, Arrive, Continue, Refuse, Count, CreateTemp,
         CreateFails, Write, CloseFails, WriteFails, Rename, RenameFails, Undo,
         Respond, Move, DataFiles, disk, TypeInv, TypeOK
    <3>2. Alike(s)
      BY <1>1, <1>3, <2>2, <3>1 DEF Alike
    <3>3. QED
      BY <3>2, AlikeStage
  <2>3. QED
    BY <2>1, <2>2
<1>7. QED
  BY <1>4, <1>5, <1>6, OneMoves

LEMMA SimulateMonitor ==
    ASSUME RefinementInv, RefinementInv', AtMostTwoPerWorker', Monitor_Queue
    PROVE  [Delivery!Next]_Stage
<1> USE DEF RefinementInv
<1>1. UNCHANGED <<writer, InWork, settled>>
  BY DEF Monitor_Queue, Scan, ScanFails, Read, ReadFails, Send, Remove,
     RemoveFails, Decrement, InWork, handler, pool
<1>2. /\ AtRisk = (InChannel \cup InWork) \ (DataFiles \cup settled)
      /\ AtRisk' = (InChannel' \cup InWork') \ (DataFiles' \cup settled')
  BY AtRiskIs, AtRiskIsNext DEF OffDisk
<1>3. AtRisk' \subseteq Submissions
  BY <1>2, RangeOfSeq DEF InChannel, InWork, TypeInv, TypeOK
<1>4. ASSUME matches # <<>>, monitor # "decrement"
      PROVE  Head(matches) \in DataFiles /\ Head(matches) \in Submissions
  <2>1. 1 \in 1..Len(matches) /\ Head(matches) = matches[1]
    BY <1>4 DEF TypeInv, TypeOK
  <2>2. QED
    BY <1>4, <2>1 DEF DiskInv, DataFiles
<1>5. CASE Send
  <2>1. Head(matches) \in DataFiles /\ Head(matches) \in Submissions
    BY <1>4, <1>5 DEF Send, TypeInv, ListingHeld
  <2>2. InChannel' = InChannel \cup {Head(matches)} /\ UNCHANGED <<dropped, DataFiles>>
    BY <1>5, <2>1, AppendRange DEF Send, InChannel, DataFiles, disk, TypeInv, TypeOK
  <2>3. AtRisk' = AtRisk
    BY <1>1, <1>2, <2>1, <2>2
  <2>4. \A t \in Submissions : Alike(t)
    BY <1>1, <2>2, <2>3 DEF Alike
  <2>5. QED
    BY <2>4, AllAlike
<1>6. CASE Scan \/ ScanFails \/ Read \/ RemoveFails \/ Decrement
  <2>1. UNCHANGED <<InChannel, DataFiles, dropped>>
    BY <1>6 DEF Scan, ScanFails, Read, RemoveFails, Decrement, InChannel, DataFiles,
       disk, history
  <2>2. \A t \in Submissions : Alike(t)
    BY <1>1, <1>2, <2>1 DEF Alike
  <2>3. QED
    BY <2>2, AllAlike
<1>7. CASE ReadFails \/ Remove
  <2> DEFINE h == Head(matches)
  <2>1. h \in DataFiles /\ h \in Submissions
    BY <1>4, <1>7 DEF ReadFails, Remove, TypeInv, ListingHeld
  <2>2. /\ UNCHANGED InChannel
        /\ name' = name \/ name' = [name EXCEPT ![h] = "none"]
        /\ dropped \subseteq dropped' /\ dropped' \subseteq dropped \cup {h}
        /\ ReadFails => h \in dropped'
    BY <1>7 DEF ReadFails, Remove, Removed, InChannel, history
  <2>3. \A t \in Submissions \ {h} : t \in DataFiles' <=> t \in DataFiles
    BY <2>1, <2>2 DEF DataFiles, TypeInv, TypeOK
  <2>4. \A t \in Submissions \ {h} : Alike(t)
    BY <1>1, <1>2, <2>2, <2>3 DEF Alike
  <2>5. h \in settled' \cup DataFiles' \cup AtRisk' \cup dropped'
    <3>1. CASE ReadFails
      BY <2>2, <3>1
    <3>2. CASE Remove
      BY <1>1, <1>2, <2>2, <3>2 DEF Remove, VanishInv, Handed
    <3>3. QED
      BY <1>7, <3>1, <3>2
  <2>6. Stage'[h] \in {"settled", "queued", "taken", "lost"}
    BY <2>1, <2>5 DEF Stage, DataFiles
  <2>7. \/ Stage[h] = "queued"
        \/ Stage[h] = "settled" /\ Stage'[h] = "settled"
    BY <1>1, <2>1 DEF Stage, DataFiles
  <2> HIDE DEF h
  <2>8. QED
    BY <1>3, <2>1, <2>4, <2>6, <2>7, OneMoves
<1>8. QED
  BY <1>5, <1>6, <1>7 DEF Monitor_Queue

LEMMA SimulateWorker ==
    ASSUME RefinementInv, RefinementInv', AtMostTwoPerWorker',
           NEW w \in Workers, Worker(w)
    PROVE  [Delivery!Next]_Stage
<1> USE DEF RefinementInv
<1>1. UNCHANGED <<writer, DataFiles>>
  BY DEF Worker, Take, Skip, Index, IndexFails, Quit, handler, disk, DataFiles
<1>2. /\ AtRisk = (InChannel \cup InWork) \ (DataFiles \cup settled)
      /\ AtRisk' = (InChannel' \cup InWork') \ (DataFiles' \cup settled')
  BY AtRiskIs, AtRiskIsNext DEF OffDisk
<1>3. AtRisk' \subseteq Submissions
  BY <1>2, RangeOfSeq DEF InChannel, InWork, TypeInv, TypeOK
<1>4. CASE Take(w)
  <2>1. InChannel = {Head(jobs)} \cup InChannel'
    BY <1>4, HeadTailRange DEF Take, InChannel, TypeInv, TypeOK
  <2>2. InWork' = InWork \cup {Head(jobs)}
    <3>1. Head(jobs) \in Submissions /\ Head(jobs) # NoJob
      <4>1. jobs # <<>> /\ jobs \in Seq(Submissions)
        BY <1>4 DEF Take, TypeInv, TypeOK
      <4>2. QED
        BY <4>1, NoJobAssumption
    <3>2. work[w] = NoJob /\ work' = [work EXCEPT ![w] = Head(jobs)]
      BY <1>4 DEF Take, Idle
    <3>3. QED
      BY <3>1, <3>2 DEF InWork, TypeInv, TypeOK
  <2>3. UNCHANGED <<settled, dropped>>
    BY <1>4 DEF Take, history
  <2>4. \A t \in Submissions : Alike(t)
    BY <1>1, <1>2, <2>1, <2>2, <2>3 DEF Alike
  <2>5. QED
    BY <2>4, AllAlike
<1>5. CASE Quit(w)
  <2>1. UNCHANGED <<InChannel, InWork, settled, dropped>>
    BY <1>5 DEF Quit, InChannel, InWork, history
  <2>2. \A t \in Submissions : Alike(t)
    BY <1>1, <1>2, <2>1 DEF Alike
  <2>3. QED
    BY <2>2, AllAlike
<1>6. CASE Skip(w) \/ Index(w) \/ IndexFails(w)
  <2> DEFINE s == work[w]
  <2>1. s \in Submissions /\ s \in InWork
    BY <1>6 DEF Skip, Index, IndexFails, Done, InWork, TypeInv, TypeOK
  <2>2. UNCHANGED InChannel
    BY <1>6 DEF Skip, Index, IndexFails, InChannel
  <2>3. \A t \in Submissions \ {s} : t \in InWork' <=> t \in InWork
    BY <1>6, NoJobAssumption DEF Skip, Index, IndexFails, Done, InWork, TypeInv, TypeOK
  <2>4. \/ settled' = settled \cup {s} /\ dropped' = dropped
        \/ settled' = settled /\ dropped' = dropped \cup {s}
    BY <1>6 DEF Skip, Index, IndexFails, history
  <2>5. \A t \in Submissions \ {s} : Alike(t)
    BY <1>1, <1>2, <2>2, <2>3, <2>4 DEF Alike
  <2>6. /\ s \in settled => Stage[s] = "settled"
        /\ s \notin settled /\ s \in DataFiles => Stage[s] = "queued"
        /\ s \notin settled /\ s \notin DataFiles => Stage[s] = "taken"
    BY <1>2, <2>1 DEF Stage, DataFiles
  <2>7. /\ s \in settled' => Stage'[s] = "settled"
        /\ s \notin settled' /\ s \in DataFiles => Stage'[s] = "queued"
        /\ s \notin settled' /\ s \notin DataFiles => Stage'[s] \in {"taken", "lost"}
    BY <1>1, <2>1, <2>4 DEF Stage, DataFiles
  <2>8. \/ Stage'[s] = Stage[s]
        \/ Stage[s] \in {"queued", "taken"} /\ Stage'[s] \in {"settled", "lost"}
    BY <2>4, <2>6, <2>7
  <2> HIDE DEF s
  <2>9. QED
    BY <1>3, <2>1, <2>5, <2>8, OneMoves
<1>7. QED
  BY <1>4, <1>5, <1>6 DEF Worker

\* The end of the process: what was at risk is lost, what was under way refused.
LEMMA SimulateEnd ==
    ASSUME RefinementInv, RefinementInv', Exit \/ Crash
    PROVE  [Delivery!Next]_Stage
<1> USE DEF RefinementInv
<1>1. /\ dropped' = dropped \cup AtRisk /\ UNCHANGED <<settled, name>>
      /\ jobs' = <<>> /\ work' = [w \in Workers |-> NoJob]
      /\ \A s \in Submissions : writer'[s] \in {writer[s], "cut"}
  BY DEF Exit, Crash, End, TypeInv, TypeOK, disk
<1>2. InChannel' = {} /\ InWork' = {}
  BY <1>1 DEF InChannel, InWork, Range
<1>3. AtRisk' = {}
  BY <1>2, AtRiskIsNext DEF OffDisk
<1> DEFINE cut == {s \in Submissions : Stage[s] = "new" /\ writer'[s] = "cut"}
<1>4. ASSUME NEW s \in Submissions
      PROVE  Stage'[s] = IF Stage[s] = "taken" THEN "lost"
                         ELSE IF s \in cut THEN "refused" ELSE Stage[s]
  <2>1. CASE s \in settled
    BY <1>1, <2>1 DEF Stage
  <2>2. CASE s \notin settled /\ name[s] = "data"
    BY <1>1, <2>2 DEF Stage
  <2>3. CASE s \notin settled /\ name[s] # "data" /\ s \in AtRisk
    BY <1>1, <1>3, <2>3 DEF Stage
  <2>4. CASE s \notin settled /\ name[s] # "data" /\ s \notin AtRisk
    BY <1>1, <1>3, <2>4 DEF Stage, Unwritten
  <2>5. QED
    BY <2>1, <2>2, <2>3, <2>4
<1>5. Stage' = [s \in Submissions |-> IF Stage[s] = "taken" THEN "lost"
                   ELSE IF s \in cut THEN "refused" ELSE Stage[s]]
  <2>1. Stage' = [s \in Submissions |-> Stage'[s]]
    BY DEF Stage
  <2>2. QED
    BY <1>4, <2>1
<1>6. cut \in SUBSET Delivery!In("new")
  BY DEF Delivery!In
<1>7. Delivery!Stop
  BY <1>5, <1>6 DEF Delivery!Stop
<1>8. QED
  BY <1>7 DEF Delivery!Next

LEMMA SimulateRest ==
    ASSUME RefinementInv, RefinementInv', Tick \/ Signal \/ Start \/ UNCHANGED vars
    PROVE  Stage' = Stage
<1>1. UNCHANGED <<writer, settled, dropped, InChannel, InWork, DataFiles>>
  BY DEF Tick, Signal, Start, vars, handler, disk, pool, history, InChannel, InWork,
     DataFiles
<1>2. AtRisk' = AtRisk
  BY <1>1, AtRiskIs, AtRiskIsNext DEF RefinementInv, OffDisk
<1>3. \A t \in Submissions : Alike(t)
  BY <1>1, <1>2 DEF Alike
<1>4. QED
  BY <1>3, AllAlike

\* Queue directory, channel and goroutines implement the durable delivery: for
\* any number of submissions and workers, under every failure and restart, a
\* submission only moves forward through its stages, and only what is taken is
\* lost by a stop.
THEOREM QueueImplementsDelivery == Spec => ImplementsDelivery
<1>1. Init => RefinementInv
  BY TypeInvInit, DiskInvInit
     DEF RefinementInv, Init, VanishInv, OriginInv, Handed, InChannel, InWork, Range,
         Unwritten
<1>2. Init => Delivery!Init
  BY NoJobAssumption DEF Init, Delivery!Init, Stage, AtRisk, InMemory, InHand, InChannel,
     InWork, Range, Unwritten
<1>3. RefinementInv /\ [Next]_vars => RefinementInv'
  BY TypeInvStep, DiskInvStep, VanishInvStep, OriginInvStep DEF RefinementInv
<1>4. RefinementInv => AtMostTwoPerWorker
  BY AtRiskBound DEF RefinementInv
<1>5. RefinementInv /\ RefinementInv' /\ AtMostTwoPerWorker' /\ [Next]_vars
        => [Delivery!Next]_Stage
  BY SimulateHandle, SimulateMonitor, SimulateWorker, SimulateEnd, SimulateRest DEF Next
<1>6. QED
  BY <1>1, <1>2, <1>3, <1>4, <1>5, PTL DEF Spec, ImplementsDelivery, Delivery!Spec

-----------------------------------------------------------------------------
(* HAProxyAgent: what the agent answers, whatever limit it reads             *)

\* The fraction in use, truncated, of n jobs in a queue for max.
LEMMA UsedBounds ==
    ASSUME NEW n \in Nat \ {0}, NEW max \in Nat \ {0}, NEW u \in Used(n, max)
    PROVE  /\ u \in Int /\ u >= 0
           /\ u * max =< 100 * n
           /\ 100 * n =< (u + 1) * max
<1> DEFINE exact == (100 * n) \div max
           rest == (100 * n) % max
<1>1. exact \in Int /\ rest \in 0..(max - 1) /\ 100 * n = max * exact + rest
  OBVIOUS
<1>2. u = exact \/ (u = exact - 1 /\ rest = 0)
  BY DEF Used
<1>3. exact >= 0 /\ (rest = 0 => exact >= 1)
  BY <1>1
<1>4. CASE u = exact
  BY <1>1, <1>3, <1>4
<1>5. CASE u = exact - 1 /\ rest = 0
  BY <1>1, <1>3, <1>5
<1>6. QED
  BY <1>2, <1>4, <1>5

\* Whatever limit the division reads, an answer that is not drain is at least 5,
\* and more than 100 only for a negative counter.
LEMMA WeightsBounds ==
    ASSUME NEW n \in Int \ {0}, NEW max \in Nat, NEW x \in Weights(n, max)
    PROVE  /\ x \in Int /\ x >= 5
           /\ n >= 0 => x =< 100
<1>1. CASE max = 0
  BY <1>1 DEF Weights
<1>2. CASE max # 0 /\ n < 0
  <2>1. PICK u \in Used(-n, max) : x = 100 + u
    BY <1>2 DEF Weights
  <2>2. u \in Int /\ u >= 0
    BY <1>2, UsedBounds
  <2>3. QED
    BY <1>2, <2>1, <2>2
<1>3. CASE max # 0 /\ n > 0
  <2>1. PICK u \in Used(n, max) : x = IF 100 - u < 5 THEN 5 ELSE 100 - u
    BY <1>3 DEF Weights
  <2>2. u \in Int /\ u >= 0
    BY <1>3, UsedBounds
  <2>3. QED
    BY <1>3, <2>1, <2>2
<1>4. QED
  BY <1>1, <1>2, <1>3

-----------------------------------------------------------------------------
(* The agent over the pipeline                                             *)

\* Seen through HAProxy, the pipeline still takes its own steps only.
LEMMA NodeStepsAreSteps == [NodeNext]_nodeVars => [Next]_vars
BY DEF NodeNext, nodeVars, Route, Reset, Defaults, Decode, Load, Compare, Divide,
       WriteLost, Stop, Boot, QueueStep, Next, Handle

QueueInv == TypeInv /\ DiskInv /\ CounterInv

LEMMA QueueInvInit == Init => QueueInv
BY TypeInvInit, DiskInvInit, CounterInvInit DEF QueueInv

LEMMA QueueInvStep == QueueInv /\ [NodeNext]_nodeVars => QueueInv'
BY NodeStepsAreSteps, TypeInvStep, DiskInvStep, CounterInvStep DEF QueueInv

\* Between the reset and the default alone is there a process without a limit.
LimitInv ==
    /\ limit \in Nat
    /\ Live => (limit = 0 <=> loading = "reset")
    /\ ~Live => loading = "idle"

LEMMA LimitInvStep ==
    ASSUME QueueInv, LimitInv, [NodeNext]_nodeVars
    PROVE  LimitInv'
<1> USE DEF LimitInv, QueueInv, TypeInv, TypeOK
<1>1. CASE Reset \/ Defaults \/ Decode
  <2>1. Live /\ Live'
    BY <1>1 DEF Reset, Defaults, Decode, vars, server, Live
  <2>2. \/ loading' = "reset" /\ limit' = 0
        \/ loading' = "defaults" /\ limit' = 50
        \/ loading' = "idle" /\ limit' \in Nat \ {0}
    <3>1. CASE Decode
      BY <2>1, <3>1, LimitsAssumption DEF Decode
    <3>2. QED
      BY <1>1, <3>1 DEF Reset, Defaults, DefaultLimit
  <2>3. QED
    BY <2>1, <2>2
<1>2. CASE Load \/ Compare \/ Divide \/ WriteLost \/ UNCHANGED nodeVars
  BY <1>2 DEF Load, Compare, Divide, WriteLost, configVars, nodeVars, vars, server, Live
<1>3. CASE Stop
  BY <1>3 DEF Stop, Exit, Crash, End, Live
<1>4. CASE Boot
  <2>1. ~Live /\ Live' /\ loading' = "idle" /\ limit' \in Nat \ {0}
    BY <1>4, LimitsAssumption DEF Boot, Start, DefaultLimit, Live
  <2>2. QED
    BY <2>1
<1>5. CASE QueueStep \/ \E s \in Submissions : Route(s)
  <2>1. UNCHANGED configVars
    BY <1>5 DEF QueueStep, Route
  <2>2. Live' <=> Live
    <3>1. ASSUME NEW s \in Submissions, Handle(s)
          PROVE  UNCHANGED phase
      BY <3>1, HandlerFrame
    <3>2. ASSUME Monitor_Queue \/ (\E w \in Workers : Worker(w)) \/ Tick
          PROVE  UNCHANGED phase
      BY <3>2 DEF Monitor_Queue, Scan, ScanFails, Read, ReadFails, Send, Remove,
         RemoveFails, Decrement, Worker, Take, Skip, Index, IndexFails, Quit, Tick,
         server
    <3>3. QED
      BY <1>5, <3>1, <3>2 DEF QueueStep, Route, Handle, Signal, Live
  <2>3. QED
    BY <2>1, <2>2 DEF configVars
<1>6. QED
  BY <1>1, <1>2, <1>3, <1>4, <1>5 DEF NodeNext

\* The count the agent loaded was no more than what was there, and negative only
\* in a process with inherited or undeleted files.
AgentInv ==
    /\ agent \in {"accept", "loaded", "busy"}
    /\ agent # "accept" =>
          /\ Live /\ seen \in Int /\ held \in Int /\ seen =< held
          /\ seen < 0 => inherited + undeleted > 0
    /\ agent = "busy" => seen # 0

LEMMA NegativeExplained ==
    ASSUME QueueInv, Live, queue_size < 0
    PROVE  inherited + undeleted > 0
BY CountedFinite DEF QueueInv, TypeInv, TypeOK, CounterInv, CounterAccounts

\* queue_size never exceeds what is in the queue or was leaked.
LEMMA HeldBounds ==
    ASSUME QueueInv, Live
    PROVE  Held \in Int /\ queue_size \in Int /\ queue_size =< Held
<1>1. /\ Cardinality(Uncommitted) \in Nat /\ Cardinality(DataFiles) \in Nat
      /\ IsFiniteSet(Uncommitted) /\ IsFiniteSet(DataFiles)
  BY CountedFinite DEF QueueInv
<1>2. Uncommitted \cap DataFiles = {}
  BY DEF QueueInv, DiskInv, Uncommitted, DataFiles
<1>3. Cardinality(Uncommitted \cup DataFiles)
      = Cardinality(Uncommitted) + Cardinality(DataFiles)
  BY <1>1, <1>2, FS_Union, FS_EmptySet
<1>4. inherited \in Nat /\ undeleted \in Nat /\ leaked \in Nat
  BY DEF QueueInv, TypeInv, TypeOK
<1>5. queue_size = Cardinality(Uncommitted) + Cardinality(DataFiles)
                   + (IF monitor = "decrement" THEN 1 ELSE 0)
                   + leaked - inherited - undeleted
  BY DEF QueueInv, CounterInv, CounterAccounts
<1>6. QED
  BY <1>1, <1>3, <1>4, <1>5 DEF Held

\* Within the life of a process, inherited stays and undeleted only grows.
LEMMA CausesStay ==
    ASSUME QueueInv, Live, QueueStep \/ \E s \in Submissions : Route(s)
    PROVE  Live' /\ (inherited + undeleted > 0 => inherited' + undeleted' > 0)
<1> USE DEF QueueInv, TypeInv, TypeOK, server, history
<1>1. ASSUME NEW s \in Submissions, Handle(s)
      PROVE  Live' /\ UNCHANGED <<inherited, undeleted>>
  BY <1>1, HandlerFrame DEF Live
<1>2. CASE Monitor_Queue
  BY <1>2 DEF Monitor_Queue, Scan, ScanFails, Read, ReadFails, Send, Remove,
     RemoveFails, Decrement, Live
<1>3. CASE \E w \in Workers : Worker(w)
  BY <1>3 DEF Worker, Take, Skip, Index, IndexFails, Quit, Live
<1>4. CASE Tick \/ Signal
  BY <1>4 DEF Tick, Signal, Live
<1>5. QED
  BY <1>1, <1>2, <1>3, <1>4 DEF QueueStep, Route, Handle

LEMMA AgentInvStep == QueueInv /\ AgentInv /\ [NodeNext]_nodeVars => AgentInv'
<1> SUFFICES ASSUME QueueInv, AgentInv, [NodeNext]_nodeVars
             PROVE  AgentInv'
  OBVIOUS
<1>1. CASE QueueStep \/ \E s \in Submissions : Route(s)
  <2>1. UNCHANGED <<agent, seen, held>>
    BY <1>1 DEF QueueStep, Route, agentVars
  <2>2. QED
    BY <1>1, <2>1, CausesStay DEF AgentInv
<1>2. CASE Load
  BY <1>2, NegativeExplained, HeldBounds DEF Load, AgentInv, Live, vars, server, history,
     QueueInv, TypeInv, TypeOK
<1>3. CASE Divide \/ WriteLost \/ Stop
  BY <1>3 DEF Divide, WriteLost, Stop, Answer, AgentInv
<1>4. CASE Compare
  BY <1>4 DEF Compare, Answer, AgentInv, vars, server, history, Live
<1>5. CASE Boot
  BY <1>5 DEF Boot, Start, AgentInv, agentVars, Live
<1>6. CASE Reset \/ Defaults \/ Decode
  BY <1>6 DEF Reset, Defaults, Decode, agentVars, vars, server, history, AgentInv, Live
<1>7. CASE UNCHANGED nodeVars
  BY <1>7 DEF nodeVars, agentVars, vars, server, history, AgentInv, Live
<1>8. QED
  BY <1>1, <1>2, <1>3, <1>4, <1>5, <1>6, <1>7 DEF NodeNext

NodeInv == QueueInv /\ LimitInv /\ AgentInv

LEMMA NodeInvInit == NodeInit => NodeInv
BY QueueInvInit, LimitsAssumption
   DEF NodeInit, Init, LimitInv, AgentInv, NodeInv, DefaultLimit, Live

LEMMA NodeInvStep == NodeInv /\ [NodeNext]_nodeVars => NodeInv'
BY QueueInvStep, LimitInvStep, AgentInvStep DEF NodeInv

\* The steps that do not answer.
LEMMA NoAnswer ==
    ASSUME [NodeNext]_nodeVars
    PROVE  Compare \/ Divide \/ UNCHANGED weight
BY DEF NodeNext, Route, Reset, Defaults, Decode, Load, WriteLost, Stop, Boot, QueueStep,
       Answer, agentVars, nodeVars

\* For any limits and loads, a node tells HAProxy more than 100% only where its
\* process found files of an earlier one, or could not delete a file.
THEOREM OverweightExplained == NodeSpec => OverweightOnlyAfterRestart
<1> DEFINE Explained ==
             weight' = "excess" /\ weight # "excess" => inherited + undeleted > 0
<1>1. ASSUME NodeInv, [NodeNext]_nodeVars
      PROVE  [Explained]_nodeVars
  <2>1. CASE Divide
    <3>1. seen \in Int \ {0} /\ limit \in Nat
      BY <1>1, <2>1 DEF Divide, NodeInv, AgentInv, LimitInv
    <3>2. PICK x \in Weights(seen, limit) :
                 weight' = IF x > 100 THEN "excess" ELSE "share"
      BY <2>1 DEF Divide, Answer
    <3>3. weight' = "excess" => seen < 0
      BY <3>1, <3>2, WeightsBounds
    <3>4. QED
      BY <1>1, <2>1, <3>3 DEF Divide, NodeInv, AgentInv
  <2>2. CASE Compare
    BY <2>2 DEF Compare, Answer, Drain
  <2>3. QED
    BY <1>1, <2>1, <2>2, NoAnswer
<1>2. QED
  BY <1>1, NodeInvInit, NodeInvStep, PTL DEF NodeSpec, OverweightOnlyAfterRestart

\* For any limits, loads and restarts: a node that answers drain held as many
\* submissions as its limit when it read the counter, the failed CreateTemps that
\* are still counted included, or has a load wiped its limit.
THEOREM DrainExplained == NodeSpec => DrainMeansFull
<1> DEFINE Explained ==
             agent = "loaded" /\ weight' = Drain /\ weight # Drain
               => loading = "reset" \/ (0 < limit /\ limit =< held)
<1>1. ASSUME NodeInv, [NodeNext]_nodeVars
      PROVE  [Explained]_nodeVars
  <2>1. CASE Compare
    <3>1. Live /\ limit \in Nat /\ (limit = 0 => loading = "reset")
      BY <1>1, <2>1 DEF Compare, NodeInv, LimitInv
    <3>2. agent = "loaded" /\ seen \in Int /\ held \in Int /\ seen =< held
      BY <1>1, <2>1 DEF Compare, NodeInv, AgentInv
    <3>3. weight' = Drain => seen >= limit \/ weight' = weight
      BY <2>1 DEF Compare, Answer, Drain
    <3>4. QED
      BY <3>1, <3>2, <3>3
  <2>2. CASE Divide
    BY <2>2 DEF Divide
  <2>3. QED
    BY <1>1, <2>1, <2>2, NoAnswer
<1>2. QED
  BY <1>1, NodeInvInit, NodeInvStep, PTL DEF NodeSpec, DrainMeansFull

=============================================================================
