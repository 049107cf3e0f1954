----------------------------- MODULE FleetProofs -----------------------------
(***************************************************************************)
(* Machine-checked proofs about Fleet, for any clients, items, deployments *)
(* and backends, and any number of failures and expired tokens.            *)
(***************************************************************************)
EXTENDS Fleet, FiniteSetTheorems, TLAPS

\* The steps at which a client holds an item.
Busy == Steps \ {"rest", "next", "encode"}

TypeInv ==
    /\ FleetTypeOK
    /\ left # {} => job \in Hashes
    /\ \A c \in Clients : pc[c] \in Busy => cur[c] \in AllItems

USE DEF Clients

\* What Next does, as one flat choice.
StoreMoves ==
    \/ DoWork
    \/ \E b \in Backends : IndexDocument(b)
    \/ DoWorkReturns
    \/ Stop

PassMoves(c) ==
    \/ Begins(c) \/ Finishes(c) \/ WalkDir(c) \/ AnalyzeObject(c)
    \/ Main(c)
    \/ c \in Voltages /\ pc[c] \in {"known", "sent"} /\ Enter(c, Hash[cur[c]])
    \/ c \in Buckets /\ pc[c] \in {"known", "sent"} /\ Enter(c, cur[c])
    \/ GivesUp(c) \/ Encode(c)

SensorMoves(c) ==
    Observe(c) \/ StartClient(c) \/ LPop(c) \/ ReadStored(c) \/ Remove(c)

EventMoves(c) == ColdStart(c) \/ Handler(c) \/ Return(c)

LEMMA Cases ==
    ASSUME Next
    PROVE  \/ StoreMoves /\ UNCHANGED <<client, sensor>>
           \/ \E c \in Clients :
                \/ Exchange(c) /\ UNCHANGED sensor
                \/ c \in Voltages \cup Buckets /\ PassMoves(c) /\ UNCHANGED sensor
                \/ EventMoves(c) /\ UNCHANGED sensor
                \/ SensorMoves(c)
                \/ Expire(c) /\ UNCHANGED <<store, sensor>>
                \/ (Crash(c) \/ NukeDB(c)) /\ UNCHANGED sensor
           \/ \E p \in limbo : Arrives(p) /\ UNCHANGED sensor
<1>1. CASE StoreNext /\ UNCHANGED <<client, sensor>>
  BY <1>1, Zenon DEF StoreNext, StoreMoves
<1>2. ASSUME NEW c \in Clients, Step(c)
      PROVE  \/ Exchange(c) /\ UNCHANGED sensor
             \/ c \in Voltages \cup Buckets /\ PassMoves(c) /\ UNCHANGED sensor
             \/ EventMoves(c) /\ UNCHANGED sensor
             \/ SensorMoves(c)
  <2>1. CASE VoltageStep(c) /\ UNCHANGED sensor
    BY <2>1, Zenon DEF VoltageStep, Run, WalkDir, FileScan, ProcessFile, PassMoves
  <2>2. CASE AwsS3Step(c) /\ UNCHANGED sensor
    BY <2>2, Zenon DEF AwsS3Step, Main, AnalyzeContent, AnalyzeObject, Record, PassMoves
  <2>3. CASE LambdaStep(c) /\ UNCHANGED sensor
    BY <2>3, Zenon DEF LambdaStep, AnalyzeEvent, EventMoves
  <2>4. CASE SuricataStep(c)
    BY <2>4, Zenon DEF SuricataStep, Submission, SensorMoves
  <2>5. QED
    BY <1>2, <2>1, <2>2, <2>3, <2>4, Zenon DEF Step
<1>3. QED
  BY <1>1, <1>2, Zenon DEF Next

LEMMA HashesOfItems ==
    ASSUME TypeInv, NEW c \in Clients, pc[c] \in Busy
    PROVE  cur[c] \in AllItems /\ Hash[cur[c]] \in Hashes
  BY ItemsAssumption DEF TypeInv

LEMMA StoreType ==
    ASSUME TypeInv, StoreMoves, UNCHANGED <<client, sensor>>
    PROVE  TypeInv'
<1> USE BackendsAssumption, StoreBoundsAssumption DEF writeStores, Backends
<1>1. SessionTypeOK' /\ SensorTypeOK'
  BY DEF TypeInv, FleetTypeOK, SessionTypeOK, SensorTypeOK, client, books,
         network, sensor
<1>2. faults' \in Nat
  BY DEF TypeInv, FleetTypeOK, StoreMoves, DoWork, IndexDocument, DoWorkReturns,
         Stop, Fault, NoFault
<1> DEFINE Goal == StoreTypeOK' /\ (left' # {} => job' \in Hashes)
<1>3. Goal
  <2>1. CASE DoWork
    BY <2>1 DEF TypeInv, FleetTypeOK, StoreTypeOK, DoWork
  <2>2. ASSUME NEW b \in Backends, IndexDocument(b) PROVE Goal
    BY <2>2 DEF TypeInv, FleetTypeOK, StoreTypeOK, IndexDocument, Written,
                Replaced, Appended
  <2>3. CASE DoWorkReturns
    BY <2>3 DEF TypeInv, FleetTypeOK, StoreTypeOK, DoWorkReturns
  <2>4. CASE Stop
    BY <2>4 DEF TypeInv, FleetTypeOK, StoreTypeOK, Stop, Count
  <2>5. QED
    BY <2>1, <2>2, <2>3, <2>4 DEF StoreMoves
<1>4. QED
  BY <1>1, <1>2, <1>3 DEF TypeInv, FleetTypeOK, client

\* What a client's step does to what is its own.
OwnType(c) ==
    /\ pc' \in [Clients -> Steps \cup {"off"}]
    /\ cur' \in [Clients -> AllItems \cup {NoItem}]
    /\ todo' \in [Clients -> SUBSET AllItems]
    /\ token' \in [Clients -> BOOLEAN]
    /\ registry' \in [Clients -> SUBSET (AllItems \cup Hashes)]
    /\ disk' \in [Clients -> SUBSET (AllItems \cup Hashes)]
    /\ pc'[c] \in Busy => cur'[c] \in AllItems
    /\ \A d \in Clients \ {c} :
          /\ pc'[d] = pc[d] /\ cur'[d] = cur[d]
          /\ registry'[d] = registry[d] /\ disk'[d] = disk[d]

SharedType ==
    /\ limbo' \subseteq Clients \X Hashes
    /\ sends' \in [Clients -> [Hashes -> Nat]]
    /\ refused' \subseteq Clients \X Hashes
    /\ queue' \in [Hashes -> Nat]
    /\ UNCHANGED <<job, left, docs, missed>>

LEMMA FaultType ==
    ASSUME TypeInv, Fault \/ NoFault
    PROVE  faults' \in Nat
  BY DEF TypeInv, FleetTypeOK, Fault, NoFault

LEMMA ClientType ==
    ASSUME TypeInv, NEW c \in Clients, OwnType(c), SharedType, SensorTypeOK',
           faults' \in Nat
    PROVE  TypeInv'
<1>1. FleetTypeOK'
  BY DEF FleetTypeOK, StoreTypeOK, SessionTypeOK, TypeInv, OwnType, SharedType
<1>2. \A d \in Clients : pc'[d] \in Busy => cur'[d] \in AllItems
  BY DEF TypeInv, OwnType
<1>3. QED
  BY <1>1, <1>2 DEF TypeInv, SharedType

LEMMA EndsType ==
    ASSUME TypeInv, NEW c \in Clients, Ends(c)
    PROVE  OwnType(c)
  BY DEF TypeInv, FleetTypeOK, SessionTypeOK, Ends, Goto, OwnType, Busy, Steps

LEMMA AuthType ==
    ASSUME TypeInv, NEW c \in Clients, pc[c] \in Busy,
           NEW step \in Busy, PAT_Auth(c, step)
    PROVE  OwnType(c) /\ (Fault \/ NoFault)
<1>1. CASE Ends(c) /\ Fault
  BY <1>1, EndsType
<1>2. CASE ~(Ends(c) /\ Fault)
  BY <1>2 DEF PAT_Auth, TypeInv, FleetTypeOK, SessionTypeOK, Goto, OwnType, Busy,
              Steps, books
<1>3. QED
  BY <1>1, <1>2

LEMMA GotoType ==
    ASSUME TypeInv, NEW c \in Clients, pc[c] \in Busy, NEW step \in Steps,
           Goto(c, step), UNCHANGED <<cur, todo, token, books>>
    PROVE  OwnType(c)
  BY DEF TypeInv, FleetTypeOK, SessionTypeOK, Goto, OwnType, Busy, Steps, books

LEMMA UnsharedType ==
    ASSUME TypeInv, UNCHANGED <<network, store>>
    PROVE  SharedType
  BY DEF TypeInv, FleetTypeOK, StoreTypeOK, SessionTypeOK, SharedType, network,
         store

LEMMA AskType ==
    ASSUME TypeInv, NEW c \in Clients, pc[c] \in Busy,
           Ask(c) \/ NoAnswer(c), UNCHANGED <<cur, todo, books>>
    PROVE  OwnType(c) /\ (Fault \/ NoFault)
<1>1. \E step \in Steps : Goto(c, step)
  BY DEF Ask, NoAnswer, Heed, Steps
<1>2. (Fault \/ NoFault) /\ UNCHANGED token
  BY DEF Ask, NoAnswer, Query, SearchBySHA256
<1>3. QED
  BY <1>1, <1>2, GotoType

LEMMA AcceptedType ==
    ASSUME TypeInv, NEW d \in Clients, NEW h \in Hashes, Accepted(<<d, h>>),
           limbo' \subseteq limbo, UNCHANGED refused
    PROVE  SharedType
<1>1. queue' = [queue EXCEPT ![h] = @ + 1]
      /\ sends' = [sends EXCEPT ![d][h] = @ + 1]
  BY DEF Accepted, Submit
<1>2. QED
  BY <1>1 DEF Accepted, SharedType, TypeInv, FleetTypeOK, StoreTypeOK,
              SessionTypeOK

LEMMA SendType ==
    ASSUME TypeInv, NEW c \in Clients, pc[c] \in Busy, Send(c),
           UNCHANGED <<cur, todo, token, books>>
    PROVE  OwnType(c) /\ SharedType /\ (Fault \/ NoFault)
<1>1. cur[c] \in AllItems /\ Hash[cur[c]] \in Hashes
  BY HashesOfItems
<1>2. SharedType
  <2>1. CASE Accepted(Own(c)) /\ UNCHANGED <<limbo, refused>>
    BY <1>1, <2>1, AcceptedType DEF Own
  <2>2. CASE UNCHANGED <<sends, store>> /\ refused' \in {refused, refused \cup {Own(c)}}
             /\ limbo' \in {limbo, limbo \cup {Own(c)}}
    BY <1>1, <2>2 DEF Own, SharedType, TypeInv, FleetTypeOK, StoreTypeOK,
                      SessionTypeOK, store
  <2>3. QED
    BY <2>1, <2>2 DEF Send
<1>3. OwnType(c)
  <2>1. \E step \in Steps : Goto(c, step)
    BY DEF Send, Steps
  <2>2. QED
    BY <2>1, GotoType
<1>4. QED
  BY <1>2, <1>3 DEF Send

LEMMA ExchangeType ==
    ASSUME TypeInv, NEW c \in Clients, Exchange(c)
    PROVE  OwnType(c) /\ SharedType /\ (Fault \/ NoFault)
<1>3. CASE FirstQuery(c)
  <2>1. pc[c] \in Busy /\ "queryAgain" \in Busy
    BY <1>3 DEF FirstQuery, Busy, Steps
  <2>2. SharedType
    BY <1>3, UnsharedType DEF FirstQuery
  <2>3. OwnType(c) /\ (Fault \/ NoFault)
    BY <1>3, <2>1, AskType, AuthType DEF FirstQuery
  <2>4. QED
    BY <2>2, <2>3
<1>4. CASE QueryAgain(c)
  <2>1. pc[c] \in Busy
    BY <1>4 DEF QueryAgain, Busy, Steps
  <2>2. SharedType
    BY <1>4, UnsharedType DEF QueryAgain
  <2>3. CASE Ask(c) \/ NoAnswer(c)
    BY <1>4, <2>1, <2>2, <2>3, AskType DEF QueryAgain
  <2>4. CASE Heed(c, 401) /\ NoFault /\ UNCHANGED token
    <3>1. \E step \in Steps : Goto(c, step)
      BY <2>4 DEF Heed, Steps
    <3>2. QED
      BY <1>4, <2>1, <2>2, <2>4, <3>1, GotoType DEF QueryAgain
  <2>5. QED
    BY <1>4, <2>3, <2>4 DEF QueryAgain
<1>5. CASE FirstSubmit(c)
  <2>1. pc[c] \in Busy /\ "submitAgain" \in Busy
    BY <1>5 DEF FirstSubmit, Busy, Steps
  <2>2. CASE Send(c) /\ UNCHANGED <<cur, todo, token, books>>
    BY <2>1, <2>2, SendType
  <2>3. CASE PAT_Auth(c, "submitAgain") /\ UNCHANGED <<network, store>>
    BY <2>1, <2>3, AuthType, UnsharedType
  <2>4. QED
    BY <1>5, <2>2, <2>3 DEF FirstSubmit
<1>6. CASE SubmitAgain(c)
  <2>1. pc[c] \in Busy
    BY <1>6 DEF SubmitAgain, Busy, Steps
  <2>2. CASE Send(c)
    BY <1>6, <2>1, <2>2, SendType DEF SubmitAgain
  <2>3. CASE ~Send(c)
    <3>1. Goto(c, "sent") /\ NoFault /\ refused' = refused \cup {Own(c)}
          /\ UNCHANGED <<limbo, sends, store>>
      BY <1>6, <2>3 DEF SubmitAgain
    <3>2. OwnType(c)
      BY <1>6, <2>1, <3>1, GotoType DEF SubmitAgain, Steps
    <3>3. SharedType
      BY <2>1, <3>1, HashesOfItems DEF Own, SharedType, TypeInv, FleetTypeOK,
         StoreTypeOK, SessionTypeOK, store
    <3>4. QED
      BY <3>1, <3>2, <3>3
  <2>4. QED
    BY <2>2, <2>3
<1>7. QED
  BY <1>3, <1>4, <1>5, <1>6 DEF Exchange

LEMMA RegistryType ==
    ASSUME TypeInv, NEW c \in Clients, PassMoves(c)
    PROVE  OwnType(c) /\ SharedType /\ (Fault \/ NoFault)
<1> USE DEF TypeInv, FleetTypeOK, SessionTypeOK, OwnType, Goto, Busy, Steps
<1>1. CASE Begins(c)
  <2>1. Items[c] \in SUBSET AllItems
    BY DEF AllItems
  <2>2. OwnType(c)
    <3>1. CASE Goto(c, "next")
      BY <1>1, <2>1, <3>1 DEF Begins, LoadRegistry
    <3>2. CASE UNCHANGED <<pc, cur, todo, token, registry>>
      BY <1>1, <3>2 DEF Begins
    <3>3. QED
      BY <1>1, <3>1, <3>2 DEF Begins
  <2>3. QED
    BY <1>1, <2>2, UnsharedType DEF Begins
<1>2. CASE Finishes(c)
  BY <1>2, EndsType, UnsharedType DEF Finishes
<1>3. CASE WalkDir(c)
  <2>1. OwnType(c)
    BY <1>3 DEF WalkDir, Take, books
  <2>2. QED
    BY <1>3, <2>1, UnsharedType DEF WalkDir
<1>4. CASE AnalyzeObject(c)
  <2>1. OwnType(c)
    <3>1. PICK i \in todo[c] :
            /\ todo' = [todo EXCEPT ![c] = @ \ {i}]
            /\ \/ UNCHANGED <<pc, cur>>
               \/ /\ cur' = [cur EXCEPT ![c] = i]
                  /\ Goto(c, "known") \/ Goto(c, "query")
      BY <1>4 DEF AnalyzeObject, Take
    <3>2. UNCHANGED <<token, registry, disk>> /\ i \in AllItems
      BY <1>4 DEF AnalyzeObject, books
    <3>3. QED
      BY <3>1, <3>2
  <2>2. QED
    BY <1>4, <2>1, UnsharedType DEF AnalyzeObject
<1>5. CASE Main(c)
  <2>1. CASE ~(Begins(c) \/ Finishes(c))
    <3>1. OwnType(c)
      BY <1>5, <2>1 DEF Main, books
    <3>2. QED
      BY <1>5, <2>1, <3>1, UnsharedType DEF Main
  <2>2. QED
    BY <1>1, <1>2, <2>1
<1>6. ASSUME NEW key \in AllItems \cup Hashes, Enter(c, key)
      PROVE  OwnType(c) /\ SharedType /\ (Fault \/ NoFault)
  <2>1. OwnType(c)
    BY <1>6 DEF Enter, PutDown
  <2>2. QED
    BY <1>6, <2>1, UnsharedType DEF Enter
<1>7. ASSUME pc[c] \in {"known", "sent"}
      PROVE  cur[c] \in AllItems /\ Hash[cur[c]] \in Hashes
  BY <1>7, HashesOfItems
<1>8. CASE GivesUp(c)
  <2>1. OwnType(c)
    BY <1>8 DEF GivesUp, PutDown, books
  <2>2. QED
    BY <1>8, <2>1, UnsharedType DEF GivesUp
<1>9. CASE Encode(c)
  <2>1. OwnType(c)
    BY <1>9 DEF Encode
  <2>2. QED
    BY <1>9, <2>1, UnsharedType DEF Encode
<1>10. QED
  BY <1>1, <1>2, <1>3, <1>4, <1>5, <1>6, <1>7, <1>8, <1>9 DEF PassMoves

LEMMA EventType ==
    ASSUME TypeInv, NEW c \in Clients, EventMoves(c)
    PROVE  OwnType(c) /\ SharedType /\ (Fault \/ NoFault)
<1>1. OwnType(c)
  <2> USE DEF TypeInv, FleetTypeOK, SessionTypeOK, OwnType, Goto, Busy, Steps
  <2>1. CASE ColdStart(c)
    BY <2>1 DEF ColdStart, books
  <2>2. CASE Handler(c)
    BY <2>2 DEF Handler, Take, books
  <2>3. CASE Return(c)
    BY <2>3 DEF Return, PutDown, books
  <2>4. QED
    BY <2>1, <2>2, <2>3 DEF EventMoves
<1>2. SharedType
  BY UnsharedType DEF EventMoves, ColdStart, Handler, Return
<1>3. Fault \/ NoFault
  BY DEF EventMoves, ColdStart, Handler, Return
<1>4. QED
  BY <1>1, <1>2, <1>3

LEMMA SensorType ==
    ASSUME TypeInv, NEW c \in Clients, SensorMoves(c)
    PROVE  OwnType(c) /\ SharedType /\ SensorTypeOK' /\ (Fault \/ NoFault)
<1>1. OwnType(c)
  <2> USE DEF TypeInv, FleetTypeOK, SessionTypeOK, SensorTypeOK, OwnType, Goto,
              Busy, Steps
  <2>1. CASE Observe(c)
    BY <2>1 DEF Observe, books
  <2>2. CASE StartClient(c)
    BY <2>2 DEF StartClient, books
  <2>3. CASE LPop(c)
    <3>1. PICK i \in todo[c] :
            /\ todo' = [todo EXCEPT ![c] = @ \ {i}]
            /\ \/ UNCHANGED <<pc, cur>>
               \/ cur' = [cur EXCEPT ![c] = i] /\ Goto(c, "query")
      BY <2>3 DEF LPop, Take
    <3>2. UNCHANGED <<token, registry, disk>> /\ i \in AllItems
      BY <2>3 DEF LPop, books
    <3>3. CASE UNCHANGED <<pc, cur>>
      BY <3>1, <3>2, <3>3
    <3>4. CASE cur' = [cur EXCEPT ![c] = i] /\ Goto(c, "query")
      BY <3>1, <3>2, <3>4
    <3>5. QED
      BY <3>1, <3>3, <3>4
  <2>4. CASE ReadStored(c)
    BY <2>4 DEF ReadStored, PutDown, books
  <2>5. CASE Remove(c)
    BY <2>5 DEF Remove, PutDown, books
  <2>6. QED
    BY <2>1, <2>2, <2>3, <2>4, <2>5 DEF SensorMoves
<1>2. SharedType
  BY UnsharedType DEF SensorMoves, Observe, StartClient, LPop, ReadStored, Remove
<1>3. SensorTypeOK'
  <2> USE DEF TypeInv, FleetTypeOK, SensorTypeOK, sensor
  <2>1. CASE Observe(c)
    <3>1. \A i \in AllItems : Hash[i] \in Hashes
      BY ItemsAssumption
    <3>2. PICK i \in unseen[c] :
            /\ unseen' = [unseen EXCEPT ![c] = @ \ {i}]
            /\ IF i \in OutOfScope THEN UNCHANGED <<stored, filed>> ELSE
                 /\ stored' = [stored EXCEPT ![c] = @ \cup {Hash[i]}]
                 /\ filed' = [filed EXCEPT ![c][Hash[i]] =
                                  @ + Count(Hash[i] \notin stored[c])]
      BY <2>1 DEF Observe
    <3>3. c \in Sensors /\ Hash[i] \in Hashes
      BY <2>1, <3>1, <3>2 DEF Observe
    <3>4. Count(Hash[i] \notin stored[c]) \in Nat
      BY DEF Count
    <3>5. unseen' \in [Sensors -> SUBSET AllItems]
      BY <3>2
    <3>6. CASE i \in OutOfScope
      BY <3>2, <3>5, <3>6
    <3>7. CASE i \notin OutOfScope
      <4>1. stored' \in [Sensors -> SUBSET Hashes]
        BY <3>2, <3>3, <3>7
      <4>2. filed' \in [Sensors -> [Hashes -> Nat]]
        <5> DEFINE n == filed[c][Hash[i]] + Count(Hash[i] \notin stored[c])
        <5>1. n \in Nat
          BY <3>3, <3>4
        <5>2. filed' = [filed EXCEPT ![c] = [@ EXCEPT ![Hash[i]] = n]]
          BY <3>2, <3>3, <3>7
        <5> HIDE DEF n
        <5>3. QED
          BY <3>3, <5>1, <5>2
      <4>3. QED
        BY <3>5, <4>1, <4>2
    <3>8. QED
      BY <3>6, <3>7
  <2>2. CASE StartClient(c) \/ LPop(c) \/ ReadStored(c)
    BY <2>2 DEF StartClient, LPop, ReadStored
  <2>3. CASE Remove(c)
    BY <2>3 DEF Remove
  <2>4. QED
    BY <2>1, <2>2, <2>3 DEF SensorMoves
<1>4. Fault \/ NoFault
  BY DEF SensorMoves, Observe, StartClient, LPop, ReadStored, Remove
<1>5. QED
  BY <1>1, <1>2, <1>3, <1>4

LEMMA EnvironmentType ==
    ASSUME TypeInv
    PROVE  /\ \A c \in Clients :
                /\ Expire(c) /\ UNCHANGED <<store, sensor>> => TypeInv'
                /\ (Crash(c) \/ NukeDB(c)) /\ UNCHANGED sensor => TypeInv'
           /\ \A p \in limbo : Arrives(p) /\ UNCHANGED sensor => TypeInv'
<1> SUFFICES ASSUME UNCHANGED sensor
             PROVE  /\ \A c \in Clients :
                         /\ Expire(c) /\ UNCHANGED store => TypeInv'
                         /\ Crash(c) \/ NukeDB(c) => TypeInv'
                    /\ \A p \in limbo : Arrives(p) => TypeInv'
  OBVIOUS
<1>1. SensorTypeOK'
  BY DEF TypeInv, FleetTypeOK, SensorTypeOK, sensor
<1>2. ASSUME NEW c \in Clients, Expire(c), UNCHANGED store PROVE TypeInv'
  <2>1. OwnType(c)
    BY <1>2 DEF Expire, TypeInv, FleetTypeOK, SessionTypeOK, OwnType, books
  <2>2. QED
    BY <1>1, <1>2, <2>1, UnsharedType, ClientType, FaultType DEF Expire
<1>3. ASSUME NEW c \in Clients, Crash(c) PROVE TypeInv'
  <2>1. OwnType(c)
    BY <1>3, EndsType DEF Crash
  <2>2. limbo' \subseteq Clients \X Hashes
    <3>1. CASE pc[c] \in {"submit", "submitAgain"}
      BY <1>3, <3>1, HashesOfItems
         DEF Crash, Own, Busy, Steps, TypeInv, FleetTypeOK, SessionTypeOK
    <3>2. QED
      BY <1>3, <3>1 DEF Crash, TypeInv, FleetTypeOK, SessionTypeOK
  <2>3. SharedType
    BY <1>3, <2>2 DEF Crash, SharedType, TypeInv, FleetTypeOK, StoreTypeOK,
                      SessionTypeOK, store
  <2>4. QED
    BY <1>1, <1>3, <2>1, <2>3, ClientType, FaultType DEF Crash
<1>4. ASSUME NEW p \in limbo, Arrives(p) PROVE TypeInv'
  <2>1. PICK c \in Clients, h \in Hashes : p = <<c, h>>
    BY DEF TypeInv, FleetTypeOK, SessionTypeOK
  <2>2. OwnType(c)
    BY <1>4 DEF Arrives, TypeInv, FleetTypeOK, SessionTypeOK, OwnType, books
  <2>3. SharedType
    <3>1. CASE Accepted(p)
      BY <1>4, <2>1, <3>1, AcceptedType DEF Arrives
    <3>2. CASE UNCHANGED <<sends, store>>
      BY <1>4, <3>2 DEF Arrives, SharedType, TypeInv, FleetTypeOK, StoreTypeOK,
                        SessionTypeOK, store
    <3>3. QED
      BY <1>4, <3>1, <3>2 DEF Arrives
  <2>4. QED
    BY <1>1, <1>4, <2>2, <2>3, ClientType, FaultType DEF Arrives
<1>5. ASSUME NEW c \in Clients, NukeDB(c) PROVE TypeInv'
  <2>1. OwnType(c)
    BY <1>5 DEF NukeDB, Goto, TypeInv, FleetTypeOK, SessionTypeOK, OwnType, Steps,
                Busy
  <2>2. QED
    BY <1>1, <1>5, <2>1, UnsharedType, ClientType, FaultType DEF NukeDB
<1>6. QED
  BY <1>2, <1>3, <1>4, <1>5

LEMMA InitType == Init => TypeInv
<1> SUFFICES ASSUME Init PROVE TypeInv
  OBVIOUS
<1>1. StoreTypeOK /\ left = {} /\ faults \in Nat
  BY DEF Init, StoreInit, StoreTypeOK
<1>2. SessionTypeOK /\ \A c \in Clients : pc[c] \notin Busy
  BY DEF Init, SessionInit, SessionTypeOK, Steps, Busy, AllItems
<1>3. SensorTypeOK
  BY DEF Init, SensorInit, SensorTypeOK, AllItems
<1>4. QED
  BY <1>1, <1>2, <1>3 DEF TypeInv, FleetTypeOK

LEMMA NextType == TypeInv /\ [Next]_vars => TypeInv'
<1> SUFFICES ASSUME TypeInv, [Next]_vars PROVE TypeInv'
  OBVIOUS
<1>1. CASE UNCHANGED vars
  BY <1>1 DEF vars, store, client, sensor, books, network, TypeInv, FleetTypeOK,
              StoreTypeOK, SessionTypeOK, SensorTypeOK
<1>2. ASSUME UNCHANGED sensor PROVE SensorTypeOK'
  BY <1>2 DEF TypeInv, FleetTypeOK, SensorTypeOK, sensor
<1>3. CASE StoreMoves /\ UNCHANGED <<client, sensor>>
  BY <1>3, StoreType
<1>4. ASSUME NEW c \in Clients, Exchange(c) /\ UNCHANGED sensor PROVE TypeInv'
  BY <1>2, <1>4, ExchangeType, ClientType, FaultType
<1>5. ASSUME NEW c \in Clients, PassMoves(c) /\ UNCHANGED sensor PROVE TypeInv'
  BY <1>2, <1>5, RegistryType, ClientType, FaultType
<1>6. ASSUME NEW c \in Clients, EventMoves(c) /\ UNCHANGED sensor PROVE TypeInv'
  BY <1>2, <1>6, EventType, ClientType, FaultType
<1>7. ASSUME NEW c \in Clients, SensorMoves(c) PROVE TypeInv'
  BY <1>7, SensorType, ClientType, FaultType
<1>8. QED
  BY <1>1, <1>3, <1>4, <1>5, <1>6, <1>7, Cases, EnvironmentType

\* Every variable of the server, the clients and Suricata keeps its type.
THEOREM FleetTypeCorrect == Spec => []FleetTypeOK
<1>1. TypeInv => FleetTypeOK
  BY DEF TypeInv
<1>2. QED
  BY <1>1, InitType, NextType, PTL DEF Spec

-----------------------------------------------------------------------------
\* The write under way: what it has behind it is in the backend, or was missed;
\* and nothing is written of a file the server skips.
WriteInv ==
    /\ \A b \in Backends, h \in Unsupported : docs[b][h] = 0
    /\ job \in Unsupported => left = {}
    /\ job \in Hashes \ Unsupported =>
          \A b \in writeStores \ left : docs[b][job] > 0 \/ <<b, job>> \in missed

AgreeInv == TypeInv /\ WriteInv /\ BackendsAgree

LEMMA OthersKeepAway ==
    ASSUME TypeInv, Next, ~(StoreMoves /\ UNCHANGED <<client, sensor>>)
    PROVE  UNCHANGED <<job, left, docs, missed>>
<1> USE DEF store
<1>1. ASSUME NEW c \in Clients, Exchange(c) PROVE UNCHANGED <<job, left, docs, missed>>
  BY <1>1, ExchangeType DEF SharedType
<1>2. ASSUME NEW c \in Clients, PassMoves(c) \/ EventMoves(c) \/ SensorMoves(c)
      PROVE  UNCHANGED <<job, left, docs, missed>>
  BY <1>2, RegistryType, EventType, SensorType DEF SharedType
<1>3. ASSUME NEW c \in Clients,
             Crash(c) \/ NukeDB(c) \/ (Expire(c) /\ UNCHANGED store)
      PROVE  UNCHANGED <<job, left, docs, missed>>
  BY <1>3 DEF Crash, NukeDB
<1>4. ASSUME NEW p \in limbo, Arrives(p) PROVE UNCHANGED <<job, left, docs, missed>>
  BY <1>4 DEF Arrives, Accepted
<1>5. QED
  BY <1>1, <1>2, <1>3, <1>4, Cases

LEMMA InitAgree == Init => AgreeInv
<1> SUFFICES ASSUME Init PROVE AgreeInv
  OBVIOUS
<1>1. job \notin Hashes /\ left = {}
      /\ \A b \in Backends, h \in Hashes : docs[b][h] = 0
  BY StoreBoundsAssumption DEF Init, StoreInit
<1>2. writeStores \subseteq Backends /\ Unsupported \subseteq Hashes
  BY BackendsAssumption, StoreBoundsAssumption DEF writeStores
<1>3. QED
  BY <1>1, <1>2, InitType DEF AgreeInv, WriteInv, BackendsAgree

LEMMA NextAgree == AgreeInv /\ [Next]_vars => AgreeInv'
<1> SUFFICES ASSUME AgreeInv, [Next]_vars PROVE AgreeInv'
  OBVIOUS
<1> USE DEF AgreeInv
<1>0. /\ writeStores \subseteq Backends /\ Unsupported \subseteq Hashes
      /\ writeStores' = writeStores
  BY BackendsAssumption, StoreBoundsAssumption DEF writeStores
<1>1. TypeInv'
  BY NextType
<1>2. CASE UNCHANGED <<job, left, docs, missed>>
  BY <1>0, <1>1, <1>2 DEF WriteInv, BackendsAgree
<1>3. CASE DoWork
  BY <1>0, <1>1, <1>3, StoreBoundsAssumption DEF WriteInv, BackendsAgree, DoWork
<1>4. ASSUME NEW b \in Backends, IndexDocument(b) PROVE AgreeInv'
  <2>1. /\ b \in left /\ b \in writeStores /\ job \in Hashes \ Unsupported
        /\ job' = job /\ left' = left \ {b}
        /\ docs \in [Backends -> [Hashes -> Nat]]
    BY <1>4 DEF IndexDocument, WriteInv, TypeInv, FleetTypeOK, StoreTypeOK
  <2>2. \/ docs' = Written(b, job) /\ missed' = missed
        \/ docs' \in {docs, Written(b, job)} /\ missed' = missed \cup {<<b, job>>}
    BY <1>4 DEF IndexDocument
  <2>3. \A c \in Backends, h \in Hashes :
          <<c, h>> # <<b, job>> => Written(b, job)[c][h] = docs[c][h]
    BY <2>1 DEF Written, Replaced, Appended, Backends
  <2>4. Written(b, job)[b][job] > 0
    <3>1. docs[b][job] \in Nat
      BY <2>1
    <3>2. QED
      BY <2>1, <3>1 DEF Written, Replaced, Appended, Backends
  <2>5. \A c \in Backends, h \in Hashes :
          <<c, h>> # <<b, job>> => docs'[c][h] = docs[c][h]
    BY <2>2, <2>3
  <2>6. docs'[b][job] > 0 \/ <<b, job>> \in missed'
    BY <2>2, <2>4
  <2>7. WriteInv'
    BY <1>0, <2>1, <2>2, <2>5, <2>6 DEF WriteInv
  <2>8. BackendsAgree'
    BY <1>0, <2>1, <2>2, <2>5 DEF BackendsAgree
  <2>9. QED
    BY <1>1, <2>7, <2>8
<1>5. CASE DoWorkReturns
  <2>1. /\ job' = Idle /\ left = {} /\ left' = {} /\ docs' = docs
        /\ missed' = missed /\ Idle \notin Hashes
    BY <1>5, StoreBoundsAssumption DEF DoWorkReturns
  <2>2. BackendsAgree'
    <3>1. CASE job \in Hashes \ Unsupported
      BY <1>0, <2>1, <3>1 DEF BackendsAgree, WriteInv
    <3>2. CASE job \notin Hashes
      BY <1>0, <2>1, <3>2 DEF BackendsAgree
    <3>3. CASE job \in Unsupported
      BY <1>0, <2>1, <3>3 DEF BackendsAgree, WriteInv
    <3>4. QED
      BY <3>1, <3>2, <3>3
  <2>3. QED
    BY <1>0, <1>1, <2>1, <2>2 DEF WriteInv
<1>6. CASE Stop
  <2>1. /\ job' = Idle /\ left' = {} /\ docs' = docs /\ Idle \notin Hashes
        /\ missed' = missed \cup (left \X {job})
    BY <1>6, StoreBoundsAssumption DEF Stop
  <2>2. ASSUME NEW h \in Hashes, NEW b \in writeStores, NEW other \in writeStores,
               docs[b][h] > 0
        PROVE  docs[other][h] > 0 \/ <<other, h>> \in missed'
    <3>1. CASE h # job
      BY <2>1, <2>2, <3>1 DEF BackendsAgree
    <3>2. CASE h = job /\ other \in left
      BY <2>1, <3>2
    <3>3. CASE h = job /\ other \notin left
      <4>1. h \notin Unsupported
        BY <1>0, <2>2 DEF WriteInv
      <4>2. QED
        BY <2>1, <2>2, <3>3, <4>1 DEF WriteInv
    <3>4. QED
      BY <3>1, <3>2, <3>3
  <2>3. BackendsAgree'
    BY <1>0, <2>1, <2>2 DEF BackendsAgree
  <2>4. QED
    BY <1>0, <1>1, <2>1, <2>3 DEF WriteInv
<1>7. CASE UNCHANGED vars
  BY <1>2, <1>7 DEF vars, store
<1>8. QED
  BY <1>2, <1>3, <1>4, <1>5, <1>6, <1>7, OthersKeepAway DEF StoreMoves

\* Once no write is under way, what one write backend knows of all do, but for
\* the writes that failed themselves: Index_Document never gives one up for
\* another's failure, and a stop loses at most the write under way.
THEOREM StoresAgree == Spec => []BackendsAgree
<1>1. AgreeInv => BackendsAgree
  BY DEF AgreeInv
<1>2. QED
  BY <1>1, InitAgree, NextAgree, PTL DEF Spec

-----------------------------------------------------------------------------
\* h was accepted from c, or from some client, or refused to c.
Had(c, h) == sends[c][h] > 0 \/ <<c, h>> \in refused
Answered(c, h) == Senders(h) # {} \/ <<c, h>> \in refused

\* What the server holds, some client sent.
KnownInv ==
    \A h \in Hashes :
        queue[h] > 0 \/ job = h \/ (\E b \in Backends : docs[b][h] > 0)
            => Senders(h) # {}

\* Where c is in the exchange is no news to the server, nor what it recorded.
Kept(c) == registry[c] \cup disk[c]

ClientInv(c) ==
    /\ pc[c] = "sent" => Had(c, Hash[cur[c]])
    /\ pc[c] = "known" => \/ c \in Buckets /\ cur[c] \in OutOfScope
                          \/ Senders(Hash[cur[c]]) # {}
    /\ c \in Voltages => \A h \in Hashes \cap Kept(c) : Answered(c, h)
    /\ c \in Buckets => \A i \in (AllItems \cap Kept(c)) \ OutOfScope :
                            Answered(c, Hash[i])

FileInv ==
    \A c \in Sensors, h \in Hashes :
        filed[c][h] > 0 => h \in stored[c] \/ Had(c, h)

DoneInv ==
    /\ TypeInv /\ KnownInv /\ FileInv
    /\ \A c \in Clients : ClientInv(c)

\* No submission is taken back.
Grow ==
    /\ \A c \in Clients, h \in Hashes : sends[c][h] > 0 => sends'[c][h] > 0
    /\ refused \subseteq refused'

LEMMA AcceptedGrows ==
    ASSUME TypeInv, NEW d \in Clients, NEW g \in Hashes, Accepted(<<d, g>>)
    PROVE  /\ \A c \in Clients, h \in Hashes : sends[c][h] > 0 => sends'[c][h] > 0
           /\ sends'[d][g] > 0
           /\ \A h \in Hashes : queue'[h] > 0 => queue[h] > 0 \/ h = g
<1>1. /\ queue' = [queue EXCEPT ![g] = @ + 1]
      /\ sends' = [sends EXCEPT ![d][g] = @ + 1]
      /\ queue \in [Hashes -> Nat] /\ sends \in [Clients -> [Hashes -> Nat]]
  BY DEF Accepted, Submit, TypeInv, FleetTypeOK, StoreTypeOK, SessionTypeOK
<1>2. QED
  BY <1>1

LEMMA GrowKeeps ==
    ASSUME Grow
    PROVE  /\ \A h \in Hashes : Senders(h) # {} => Senders(h)' # {}
           /\ \A c \in Clients, h \in Hashes :
                /\ Had(c, h) => Had(c, h)'
                /\ Answered(c, h) => Answered(c, h)'
                /\ Had(c, h) => Answered(c, h)
  BY DEF Grow, Senders, Had, Answered

LEMMA UnsentGrows == UNCHANGED <<sends, refused>> => Grow
  BY DEF Grow

\* What a step does to the server, as far as submissions go.
Delivers ==
    \/ UNCHANGED <<queue, sends>>
    \/ \E d \in Clients, g \in Hashes : Accepted(<<d, g>>)

LEMMA DeliveryKnown ==
    ASSUME TypeInv, KnownInv, Grow, Delivers, UNCHANGED <<job, docs>>
    PROVE  KnownInv'
<1>1. CASE UNCHANGED <<queue, sends>>
  BY <1>1, GrowKeeps DEF KnownInv
<1>2. ASSUME NEW d \in Clients, NEW g \in Hashes, Accepted(<<d, g>>)
      PROVE  KnownInv'
  <2>1. Senders(g)' # {}
    BY <1>2, AcceptedGrows DEF Senders
  <2>2. QED
    BY <1>2, <2>1, AcceptedGrows, GrowKeeps DEF KnownInv
<1>3. QED
  BY <1>1, <1>2 DEF Delivers

LEMMA ClientDone ==
    ASSUME DoneInv, TypeInv', NEW c \in Clients, OwnType(c), SharedType, Grow,
           Delivers, ClientInv(c)', FileInv'
    PROVE  DoneInv'
<1>1. KnownInv'
  BY DeliveryKnown DEF DoneInv, SharedType
<1>2. ASSUME NEW d \in Clients, d # c PROVE ClientInv(d)'
  <2>1. /\ pc'[d] = pc[d] /\ cur'[d] = cur[d] /\ Kept(d)' = Kept(d)
        /\ ClientInv(d)
    BY <1>2 DEF DoneInv, OwnType, Kept
  <2>2. pc[d] \in {"sent", "known"} => Hash[cur[d]] \in Hashes
    BY HashesOfItems DEF DoneInv, Busy, Steps
  <2>3. \A i \in AllItems : Hash[i] \in Hashes
    BY ItemsAssumption
  <2>4. QED
    BY <2>1, <2>2, <2>3, GrowKeeps DEF ClientInv
<1>3. QED
  BY <1>1, <1>2 DEF DoneInv

LEMMA FilesKept ==
    ASSUME DoneInv, Grow, UNCHANGED sensor
    PROVE  FileInv'
  BY GrowKeeps DEF DoneInv, FileInv, sensor

LEMMA StoreDone ==
    ASSUME DoneInv, TypeInv', StoreMoves, UNCHANGED <<client, sensor>>
    PROVE  DoneInv'
<1>1. UNCHANGED <<pc, cur, registry, disk, sends, refused>>
  BY DEF client, books, network
<1>2. Grow /\ \A h \in Hashes : Senders(h)' = Senders(h)
  BY <1>1 DEF Grow, Senders
<1>3. FileInv'
  BY <1>2, FilesKept
<1>4. \A c \in Clients : ClientInv(c)'
  BY <1>1, <1>2 DEF DoneInv, ClientInv, Had, Answered, Kept, Senders
<1>5. KnownInv'
  <2> USE DEF DoneInv, TypeInv, FleetTypeOK, StoreTypeOK, KnownInv
  <2>0. Idle \notin Hashes
    BY StoreBoundsAssumption
  <2>1. CASE DoWork
    BY <1>2, <2>0, <2>1 DEF DoWork
  <2>2. ASSUME NEW b \in Backends, IndexDocument(b) PROVE KnownInv'
    <3>1. b \in left /\ job \in Hashes /\ UNCHANGED <<job, queue>>
          /\ docs' \in {docs, Written(b, job)}
      BY <2>2 DEF IndexDocument
    <3>2. \A c \in Backends, h \in Hashes : h # job => docs'[c][h] = docs[c][h]
      BY <3>1 DEF Written, Replaced, Appended, Backends
    <3>3. QED
      BY <1>2, <3>1, <3>2
  <2>3. CASE DoWorkReturns
    BY <1>2, <2>0, <2>3 DEF DoWorkReturns
  <2>4. CASE Stop
    BY <1>2, <2>0, <2>4 DEF Stop, Count
  <2>5. QED
    BY <2>1, <2>2, <2>3, <2>4 DEF StoreMoves
<1>6. QED
  BY <1>3, <1>4, <1>5 DEF DoneInv

\* A step that leaves the registry alone, and is not at the end of an exchange.
LEMMA ElsewhereDone ==
    ASSUME DoneInv, NEW c \in Clients, Grow, UNCHANGED books,
           pc'[c] \notin {"sent", "known"}
    PROVE  ClientInv(c)'
<1>1. Kept(c)' = Kept(c) /\ ClientInv(c)
  BY DEF DoneInv, books, Kept
<1>2. \A i \in AllItems : Hash[i] \in Hashes
  BY ItemsAssumption
<1>3. QED
  BY <1>1, <1>2, GrowKeeps DEF ClientInv

LEMMA ReachesDone ==
    ASSUME DoneInv, NEW c \in Clients, pc[c] \in Busy, Grow, NEW step \in Steps,
           Goto(c, step), UNCHANGED <<cur, books>>,
           step = "sent" => Had(c, Hash[cur[c]])',
           step = "known" => Senders(Hash[cur[c]])' # {}
    PROVE  ClientInv(c)'
<1>1. Kept(c)' = Kept(c) /\ ClientInv(c)
  BY DEF DoneInv, books, Kept
<1>2. pc'[c] = step
  BY DEF Goto, DoneInv, TypeInv, FleetTypeOK, SessionTypeOK
<1>3. \A i \in AllItems : Hash[i] \in Hashes
  BY ItemsAssumption
<1>4. QED
  BY <1>1, <1>2, <1>3, GrowKeeps DEF ClientInv, Had, Senders

LEMMA HeedDone ==
    ASSUME DoneInv, NEW c \in Clients, pc[c] \in Busy, Grow,
           NEW code \in {200, 401, 404, 500}, Heed(c, code), UNCHANGED <<cur, books>>,
           code = 200 => docs[Query_Backend][Hash[cur[c]]] > 0
    PROVE  ClientInv(c)'
<1>1. Hash[cur[c]] \in Hashes
  BY HashesOfItems DEF DoneInv
<1>2. code = 200 => Senders(Hash[cur[c]]) # {}
  BY <1>1, BackendsAssumption DEF DoneInv, KnownInv
<1>3. PICK step \in Steps : Goto(c, step) /\ (step = "known" => code = 200)
                            /\ step # "sent"
  BY DEF Heed, Steps
<1>4. Senders(Hash[cur[c]]) # {} => Senders(Hash[cur[c]])' # {}
  BY <1>1, GrowKeeps DEF Senders
<1>5. QED
  BY <1>2, <1>3, <1>4, ReachesDone

LEMMA AskDone ==
    ASSUME DoneInv, NEW c \in Clients, pc[c] \in Busy, Grow,
           Ask(c) \/ NoAnswer(c), UNCHANGED <<cur, books>>
    PROVE  ClientInv(c)'
<1>1. CASE Ask(c)
  <2>1. PICK code \in {200, 404, 500} : Query(Hash[cur[c]], code) /\ Heed(c, code)
    BY <1>1 DEF Ask
  <2>2. code = 200 => docs[Query_Backend][Hash[cur[c]]] > 0
    BY <2>1 DEF Query, SearchBySHA256, OpenSearchFails, OpenObserveFails
  <2>3. QED
    BY <2>1, <2>2, HeedDone
<1>2. CASE NoAnswer(c)
  BY <1>2, ReachesDone DEF NoAnswer, Steps
<1>3. QED
  BY <1>1, <1>2

LEMMA AuthDone ==
    ASSUME DoneInv, NEW c \in Clients, pc[c] \in Busy, Grow,
           NEW step \in Busy \ {"sent", "known"}, PAT_Auth(c, step)
    PROVE  ClientInv(c)'
<1>1. CASE Ends(c)
  <2>1. pc'[c] = "rest" /\ registry'[c] = {} /\ disk' = disk
    BY <1>1 DEF Ends, Goto, DoneInv, TypeInv, FleetTypeOK, SessionTypeOK
  <2>2. Kept(c)' \subseteq Kept(c)
    BY <2>1 DEF Kept
  <2>3. \A i \in AllItems : Hash[i] \in Hashes
    BY ItemsAssumption
  <2>4. QED
    BY <2>1, <2>2, <2>3, GrowKeeps DEF DoneInv, ClientInv
<1>2. CASE Goto(c, step) /\ UNCHANGED books
  <2>1. pc'[c] = step
    BY <1>2 DEF Goto, DoneInv, TypeInv, FleetTypeOK, SessionTypeOK
  <2>2. QED
    BY <1>2, <2>1, ElsewhereDone
<1>3. QED
  BY <1>1, <1>2 DEF PAT_Auth

LEMMA SendDone ==
    ASSUME DoneInv, NEW c \in Clients, pc[c] \in Busy, Send(c),
           UNCHANGED <<cur, books>>
    PROVE  Grow /\ Delivers /\ ClientInv(c)'
<1>1. Hash[cur[c]] \in Hashes
  BY HashesOfItems DEF DoneInv
<1> DEFINE h == Hash[cur[c]]
<1>2. CASE Accepted(<<c, h>>) /\ Goto(c, "sent") /\ UNCHANGED refused
  <2>1. Grow /\ Delivers /\ Had(c, h)'
    BY <1>1, <1>2, AcceptedGrows DEF DoneInv, Grow, Delivers, Had
  <2>2. QED
    BY <1>1, <1>2, <2>1, ReachesDone DEF Steps
<1>3. CASE Goto(c, "sent") /\ refused' = refused \cup {<<c, h>>}
           /\ UNCHANGED <<sends, store>>
  <2>1. Grow /\ Delivers /\ Had(c, h)'
    BY <1>3 DEF Grow, Delivers, Had, store
  <2>2. QED
    BY <1>1, <1>3, <2>1, ReachesDone DEF Steps
<1>4. CASE Goto(c, "failed") /\ UNCHANGED <<sends, refused, store>>
  <2>1. Grow /\ Delivers
    BY <1>4 DEF Grow, Delivers, store
  <2>2. QED
    BY <1>1, <1>4, <2>1, ReachesDone DEF Steps
<1>5. QED
  BY <1>2, <1>3, <1>4 DEF Send, Own

LEMMA QuietNetwork ==
    ASSUME UNCHANGED <<network, store>>
    PROVE  Grow /\ Delivers
  BY DEF network, store, Grow, Delivers

LEMMA ExchangeDone ==
    ASSUME DoneInv, NEW c \in Clients, Exchange(c)
    PROVE  Grow /\ Delivers /\ ClientInv(c)'
<1>1. CASE FirstQuery(c)
  <2>1. pc[c] \in Busy /\ "queryAgain" \in Busy
    BY <1>1 DEF FirstQuery, Busy, Steps
  <2>2. Grow /\ Delivers
    BY <1>1, QuietNetwork DEF FirstQuery
  <2>3. QED
    BY <1>1, <2>1, <2>2, AskDone, AuthDone DEF FirstQuery
<1>2. CASE QueryAgain(c)
  <2>1. pc[c] \in Busy
    BY <1>2 DEF QueryAgain, Busy, Steps
  <2>2. Grow /\ Delivers
    BY <1>2, QuietNetwork DEF QueryAgain
  <2>3. QED
    BY <1>2, <2>1, <2>2, AskDone, HeedDone DEF QueryAgain
<1>3. CASE FirstSubmit(c)
  <2>1. pc[c] \in Busy /\ "submitAgain" \in Busy
    BY <1>3 DEF FirstSubmit, Busy, Steps
  <2>2. CASE Send(c) /\ UNCHANGED <<cur, todo, token, books>>
    BY <2>1, <2>2, SendDone
  <2>3. CASE PAT_Auth(c, "submitAgain") /\ UNCHANGED <<network, store>>
    BY <2>1, <2>3, QuietNetwork, AuthDone
  <2>4. QED
    BY <1>3, <2>2, <2>3 DEF FirstSubmit
<1>4. CASE SubmitAgain(c)
  <2>1. pc[c] \in Busy
    BY <1>4 DEF SubmitAgain, Busy, Steps
  <2>2. CASE Send(c)
    BY <1>4, <2>1, <2>2, SendDone DEF SubmitAgain
  <2>3. CASE ~Send(c)
    <3>1. Goto(c, "sent") /\ refused' = refused \cup {<<c, Hash[cur[c]]>>}
          /\ UNCHANGED <<sends, store, cur, books>>
      BY <1>4, <2>3 DEF SubmitAgain, Own
    <3>2. Grow /\ Delivers /\ Had(c, Hash[cur[c]])'
      BY <3>1 DEF Grow, Delivers, Had, store
    <3>3. QED
      BY <2>1, <3>1, <3>2, ReachesDone DEF Steps
  <2>4. QED
    BY <2>2, <2>3
<1>5. QED
  BY <1>1, <1>2, <1>3, <1>4 DEF Exchange

\* A client that leaves the exchange is done with what it has been answered.
LEMMA LeftDone ==
    ASSUME NEW c \in Clients, pc'[c] \notin {"sent", "known"},
           c \in Voltages =>
             \A h \in Hashes \cap Kept(c)' : Answered(c, h)',
           c \in Buckets =>
             \A j \in (AllItems \cap Kept(c)') \ OutOfScope :
                Answered(c, Hash[j])'
    PROVE  ClientInv(c)'
  BY DEF ClientInv

\* A pass keeps in its registry what it was done with, and enters no more.
LEMMA PassDone ==
    ASSUME DoneInv, NEW c \in Voltages \cup Buckets, PassMoves(c)
    PROVE  Grow /\ Delivers /\ ClientInv(c)'
<1> USE DEF DoneInv, TypeInv, FleetTypeOK, SessionTypeOK, Goto
<1>1. UNCHANGED <<network, store>>
  BY DEF PassMoves, Begins, Finishes, WalkDir, AnalyzeObject, Main, Enter,
         GivesUp, Encode
<1>2. Grow /\ Delivers
  BY <1>1, QuietNetwork
<1>3. /\ \A i \in AllItems : Hash[i] \in Hashes
      /\ Voltages \cap Buckets = {}
  BY ItemsAssumption, KindsAssumption
<1>4. ASSUME pc'[c] \notin {"sent", "known"}, Kept(c)' \subseteq Kept(c)
      PROVE  ClientInv(c)'
  BY <1>2, <1>3, <1>4, GrowKeeps DEF ClientInv
<1>5. CASE Begins(c)
  <2>1. pc'[c] \in {"rest", "next"} /\ Kept(c)' \subseteq Kept(c)
    BY <1>5 DEF Begins, LoadRegistry, Kept
  <2>2. QED
    BY <1>2, <1>4, <2>1
<1>6. CASE Finishes(c)
  <2>1. pc'[c] = "rest" /\ Kept(c)' \subseteq Kept(c)
    BY <1>6 DEF Finishes, Ends, Kept
  <2>2. QED
    BY <1>2, <1>4, <2>1
<1>7. CASE WalkDir(c)
  <2>1. pc'[c] \in {"query", "next"} /\ UNCHANGED books
    BY <1>7 DEF WalkDir
  <2>2. QED
    BY <1>2, <2>1, ElsewhereDone
<1>8. CASE AnalyzeObject(c)
  <2>1. Kept(c)' = Kept(c) /\ pc[c] = "next" /\ c \in Buckets
    BY <1>8 DEF AnalyzeObject, Kept, books
  <2>2. pc'[c] = "known" => cur'[c] \in OutOfScope
    BY <1>8, <2>1 DEF AnalyzeObject, Take
  <2>3. pc'[c] # "sent"
    BY <1>8, <2>1 DEF AnalyzeObject
  <2>4. QED
    BY <1>2, <1>3, <2>1, <2>2, <2>3, GrowKeeps DEF ClientInv
<1>9. CASE Main(c) /\ ~(Begins(c) \/ Finishes(c))
  <2>1. pc'[c] = "next" /\ UNCHANGED books
    BY <1>9 DEF Main
  <2>2. QED
    BY <1>2, <2>1, ElsewhereDone
<1>10. ASSUME NEW key, Enter(c, key)
       PROVE  /\ pc'[c] \in {"encode", "next"}
              /\ Kept(c)' \subseteq Kept(c) \cup {key}
  BY <1>10 DEF Enter, Kept
<1>11. ASSUME NEW i, i = cur[c], pc[c] \in {"known", "sent"}
       PROVE  /\ i \in AllItems /\ Hash[i] \in Hashes
              /\ (c \in Buckets /\ i \in OutOfScope) \/ Answered(c, Hash[i])'
  <2>1. i \in AllItems /\ Hash[i] \in Hashes
    BY <1>11, HashesOfItems DEF Busy, Steps
  <2>2. (c \in Buckets /\ i \in OutOfScope) \/ Answered(c, Hash[i])
    BY <1>2, <1>11, <2>1, GrowKeeps DEF ClientInv, Answered
  <2>3. QED
    BY <1>2, <2>1, <2>2, GrowKeeps
<1>12. CASE c \in Voltages /\ pc[c] \in {"known", "sent"} /\ Enter(c, Hash[cur[c]])
  <2>0. PICK i : i = cur[c]
    OBVIOUS
  <2>1. /\ pc'[c] \notin {"sent", "known"}
        /\ Kept(c)' \subseteq Kept(c) \cup {Hash[i]}
        /\ c \notin Buckets /\ Answered(c, Hash[i])'
    BY <1>3, <1>10, <1>11, <1>12, <2>0
  <2>2. \A h \in Hashes \cap Kept(c) : Answered(c, h)'
    BY <1>2, <1>12, GrowKeeps DEF ClientInv
  <2>3. \A h \in Hashes \cap Kept(c)' : Answered(c, h)'
    BY <2>1, <2>2
  <2> HIDE DEF DoneInv, TypeInv, FleetTypeOK, SessionTypeOK, Goto
  <2>4. c \in Clients /\ c \in Voltages /\ c \notin Buckets
    BY <1>12, <2>1 DEF Clients
  <2>5. QED
    BY <1>2, <2>1, <2>3, <2>4, LeftDone
<1>13. CASE c \in Buckets /\ pc[c] \in {"known", "sent"} /\ Enter(c, cur[c])
  <2>0. PICK i : i = cur[c]
    OBVIOUS
  <2>1. /\ pc'[c] \notin {"sent", "known"}
        /\ Kept(c)' \subseteq Kept(c) \cup {i}
        /\ c \notin Voltages
        /\ i \in OutOfScope \/ Answered(c, Hash[i])'
    BY <1>3, <1>10, <1>11, <1>13, <2>0
  <2>2. \A j \in (AllItems \cap Kept(c)) \ OutOfScope : Answered(c, Hash[j])'
    BY <1>2, <1>3, <1>13, GrowKeeps DEF ClientInv
  <2>3. \A j \in (AllItems \cap Kept(c)') \ OutOfScope : Answered(c, Hash[j])'
    BY <2>1, <2>2
  <2> HIDE DEF DoneInv, TypeInv, FleetTypeOK, SessionTypeOK, Goto
  <2>4. c \in Clients /\ c \in Buckets /\ c \notin Voltages
    BY <1>13, <2>1 DEF Clients
  <2>5. QED
    BY <1>2, <2>1, <2>3, <2>4, LeftDone
<1>14. CASE GivesUp(c)
  <2>1. pc'[c] = "next" /\ UNCHANGED books
    BY <1>14 DEF GivesUp
  <2>2. QED
    BY <1>2, <2>1, ElsewhereDone
<1>15. CASE Encode(c)
  <2>1. pc'[c] = "next" /\ Kept(c)' \subseteq Kept(c)
    BY <1>15 DEF Encode, Kept
  <2>2. QED
    BY <1>2, <1>4, <2>1
<1>16. QED
  BY <1>5, <1>6, <1>7, <1>8, <1>9, <1>12, <1>13, <1>14, <1>15 DEF PassMoves

LEMMA EventDone ==
    ASSUME DoneInv, NEW c \in Clients, EventMoves(c)
    PROVE  Grow /\ Delivers /\ ClientInv(c)'
<1>1. UNCHANGED <<network, store, books>> /\ pc'[c] \in {"rest", "next", "query"}
  BY DEF EventMoves, ColdStart, Handler, Return, Goto, DoneInv, TypeInv,
         FleetTypeOK, SessionTypeOK
<1>2. Grow /\ Delivers
  BY <1>1, QuietNetwork
<1>3. QED
  BY <1>1, <1>2, ElsewhereDone

\* A file goes from the file store once it was sent, and comes back as it is
\* stored anew.
LEMMA SensorDone ==
    ASSUME DoneInv, NEW c \in Clients, SensorMoves(c)
    PROVE  Grow /\ Delivers /\ ClientInv(c)' /\ FileInv'
<1> USE DEF DoneInv, TypeInv, FleetTypeOK, SessionTypeOK, SensorTypeOK, Goto
<1>1. UNCHANGED <<network, store, books>> /\ c \in Sensors
  BY DEF SensorMoves, Observe, StartClient, LPop, ReadStored, Remove
<1>2. Grow /\ Delivers
  BY <1>1, QuietNetwork
<1>3. CASE Observe(c)
  <2>1. UNCHANGED <<pc, cur, books>>
    BY <1>3 DEF Observe
  <2>2. ClientInv(c)'
    BY <1>1, <2>1 DEF ClientInv, Kept, Had, Answered, Senders, books, network
  <2>3. \A d \in Sensors, h \in Hashes :
            /\ h \in stored[d] => h \in stored'[d]
            /\ filed'[d][h] # filed[d][h] => h \in stored'[d]
    <3>1. PICK i \in unseen[c] :
            IF i \in OutOfScope THEN UNCHANGED <<stored, filed>> ELSE
              /\ stored' = [stored EXCEPT ![c] = @ \cup {Hash[i]}]
              /\ filed' = [filed EXCEPT ![c][Hash[i]] =
                               @ + Count(Hash[i] \notin stored[c])]
      BY <1>3 DEF Observe
    <3>2. CASE i \in OutOfScope
      BY <3>1, <3>2
    <3>3. CASE i \notin OutOfScope
      BY <3>1, <3>3
    <3>4. QED
      BY <3>2, <3>3
  <2>4. FileInv'
    BY <1>2, <2>3, GrowKeeps DEF FileInv
  <2>5. QED
    BY <1>2, <2>2, <2>4
<1>4. CASE StartClient(c) \/ LPop(c) \/ ReadStored(c)
  <2>1. pc'[c] \in {"rest", "next", "query", "submit"} /\ UNCHANGED sensor
    BY <1>4 DEF StartClient, LPop, ReadStored
  <2>2. QED
    BY <1>1, <1>2, <2>1, ElsewhereDone, FilesKept
<1>5. CASE Remove(c)
  <2>1. pc'[c] = "next" /\ UNCHANGED filed /\ pc[c] \in Busy
    BY <1>5 DEF Remove, Busy, Steps
  <2>2. \A d \in Sensors, h \in Hashes :
            h \in stored[d] \ stored'[d] =>
                d = c /\ pc[c] = "sent" /\ h = Hash[cur[c]]
    BY <1>5 DEF Remove
  <2>3. pc[c] = "sent" => Had(c, Hash[cur[c]])
    BY DEF ClientInv
  <2>4. FileInv'
    BY <1>2, <2>1, <2>2, <2>3, GrowKeeps DEF FileInv
  <2>5. QED
    BY <1>1, <1>2, <2>1, <2>4, ElsewhereDone
<1>6. QED
  BY <1>3, <1>4, <1>5 DEF SensorMoves

LEMMA EnvironmentDone ==
    ASSUME DoneInv, TypeInv', UNCHANGED sensor
    PROVE  /\ \A c \in Clients :
                /\ Expire(c) /\ UNCHANGED store => DoneInv'
                /\ Crash(c) \/ NukeDB(c) => DoneInv'
           /\ \A p \in limbo : Arrives(p) => DoneInv'
<1> USE DEF DoneInv
<1>1. ASSUME NEW c \in Clients, Expire(c), UNCHANGED store PROVE DoneInv'
  <2>1. UNCHANGED <<pc, cur, registry, disk, sends, refused, queue, job, docs>>
    BY <1>1 DEF Expire, books, network, store
  <2>2. Grow
    BY <2>1 DEF Grow
  <2>3. KnownInv' /\ FileInv'
    BY <2>1, <2>2, FilesKept DEF KnownInv, Senders
  <2>4. \A d \in Clients : ClientInv(d)'
    BY <2>1 DEF ClientInv, Kept, Had, Answered, Senders
  <2>5. QED
    BY <2>3, <2>4
<1>2. ASSUME NEW c \in Clients, Crash(c) PROVE DoneInv'
  <2>1. Ends(c) /\ UNCHANGED <<sends, refused, store>>
    BY <1>2 DEF Crash
  <2>2. Grow /\ Delivers /\ UNCHANGED <<queue, job, docs>>
    BY <2>1 DEF Grow, Delivers, store
  <2>3. OwnType(c)
    BY <2>1, EndsType
  <2>4. KnownInv' /\ FileInv'
    BY <2>2, DeliveryKnown, FilesKept
  <2>5. pc'[c] = "rest" /\ Kept(c)' \subseteq Kept(c)
    BY <2>1 DEF Ends, Goto, Kept, TypeInv, FleetTypeOK, SessionTypeOK
  <2>6. \A d \in Clients : ClientInv(d)'
    <3>1. \A i \in AllItems : Hash[i] \in Hashes
      BY ItemsAssumption
    <3>2. ClientInv(c)'
      BY <2>2, <2>5, <3>1, GrowKeeps DEF ClientInv
    <3>3. ASSUME NEW d \in Clients, d # c PROVE ClientInv(d)'
      BY <2>1, <2>3, <3>3
         DEF OwnType, ClientInv, Kept, Had, Answered, Senders
    <3>4. QED
      BY <3>2, <3>3
  <2>7. QED
    BY <2>4, <2>6
<1>3. ASSUME NEW p \in limbo, Arrives(p) PROVE DoneInv'
  <2>1. PICK c \in Clients, h \in Hashes : p = <<c, h>>
    BY DEF TypeInv, FleetTypeOK, SessionTypeOK
  <2>2. UNCHANGED <<pc, cur, registry, disk, refused, job, docs>>
    BY <1>3 DEF Arrives, Accepted, books, store
  <2>3. Grow /\ Delivers
    <3>1. CASE Accepted(<<c, h>>)
      BY <2>2, <3>1, AcceptedGrows DEF Grow, Delivers
    <3>2. CASE UNCHANGED <<sends, store>>
      BY <2>2, <3>2 DEF Grow, Delivers, store
    <3>3. QED
      BY <1>3, <2>1, <3>1, <3>2 DEF Arrives
  <2>4. KnownInv' /\ FileInv'
    BY <2>2, <2>3, DeliveryKnown, FilesKept
  <2>5. ASSUME NEW d \in Clients PROVE ClientInv(d)'
    <3>1. pc[d] \in {"sent", "known"} => Hash[cur[d]] \in Hashes
      BY HashesOfItems DEF Busy, Steps
    <3>2. \A i \in AllItems : Hash[i] \in Hashes
      BY ItemsAssumption
    <3>3. ClientInv(d) /\ Kept(d)' = Kept(d)
      BY <2>2 DEF Kept
    <3>4. QED
      BY <2>2, <2>3, <3>1, <3>2, <3>3, GrowKeeps DEF ClientInv
  <2>6. QED
    BY <2>4, <2>5
<1>4. ASSUME NEW c \in Clients, NukeDB(c) PROVE DoneInv'
  <2>1. UNCHANGED <<cur, registry, sends, refused, queue, job, docs>>
    BY <1>4 DEF NukeDB, network, store
  <2>2. Grow /\ KnownInv'
    BY <2>1 DEF Grow, KnownInv, Senders
  <2>3. FileInv'
    BY <2>2, FilesKept
  <2>4. ASSUME NEW d \in Clients PROVE ClientInv(d)'
    <3>1. pc'[d] \in {pc[d], "next"} /\ Kept(d)' \subseteq Kept(d)
      BY <1>4 DEF NukeDB, Goto, Kept, TypeInv, FleetTypeOK, SessionTypeOK
    <3>2. ClientInv(d)
      OBVIOUS
    <3>3. QED
      BY <2>1, <3>1, <3>2 DEF ClientInv, Had, Answered, Senders
  <2>5. QED
    BY <2>2, <2>3, <2>4
<1>5. QED
  BY <1>1, <1>2, <1>3, <1>4

LEMMA InitDone == Init => DoneInv
<1> SUFFICES ASSUME Init PROVE DoneInv
  OBVIOUS
<1>1. TypeInv
  BY InitType
<1>2. KnownInv
  BY StoreBoundsAssumption DEF Init, StoreInit, KnownInv
<1>3. FileInv
  BY DEF Init, SensorInit, FileInv
<1>4. \A c \in Clients : ClientInv(c)
  BY DEF Init, SessionInit, ClientInv, Kept
<1>5. QED
  BY <1>1, <1>2, <1>3, <1>4 DEF DoneInv

LEMMA NextDone == DoneInv /\ [Next]_vars => DoneInv'
<1> SUFFICES ASSUME DoneInv, [Next]_vars PROVE DoneInv'
  OBVIOUS
<1>1. TypeInv /\ TypeInv'
  BY NextType DEF DoneInv
<1>2. CASE UNCHANGED vars
  <2>1. UNCHANGED <<pc, cur, registry, disk, sends, refused, queue, job, docs,
                    stored, filed>>
    BY <1>2 DEF vars, store, client, books, network, sensor
  <2>2. QED
    BY <1>1, <2>1 DEF DoneInv, KnownInv, FileInv, ClientInv, Kept, Had, Answered,
                      Senders
<1>3. CASE StoreMoves /\ UNCHANGED <<client, sensor>>
  BY <1>1, <1>3, StoreDone
<1>4. ASSUME NEW c \in Clients, Exchange(c) /\ UNCHANGED sensor PROVE DoneInv'
  BY <1>1, <1>4, ExchangeType, ExchangeDone, FilesKept, ClientDone
<1>5. ASSUME NEW c \in Clients,
             c \in Voltages \cup Buckets /\ PassMoves(c) /\ UNCHANGED sensor
      PROVE  DoneInv'
  BY <1>1, <1>5, RegistryType, PassDone, FilesKept, ClientDone
<1>6. ASSUME NEW c \in Clients, EventMoves(c) /\ UNCHANGED sensor PROVE DoneInv'
  BY <1>1, <1>6, EventType, EventDone, FilesKept, ClientDone
<1>7. ASSUME NEW c \in Clients, SensorMoves(c) PROVE DoneInv'
  BY <1>1, <1>7, SensorType, SensorDone, ClientDone
<1>8. QED
  BY <1>1, <1>2, <1>3, <1>4, <1>5, <1>6, <1>7, Cases, EnvironmentDone

\* A file that a client has in its registry, in memory or on disk, or has deleted
\* from Suricata's file store, was accepted by the server or refused by it:
\* whatever fails, no entry is made of a request that nobody answered.
THEOREM RecordedMeansAnswered == Spec => []DoneMeansAnswered
<1>1. DoneInv => DoneMeansAnswered
  <2> SUFFICES ASSUME DoneInv PROVE DoneMeansAnswered
    OBVIOUS
  <2>1. ASSUME NEW c \in Voltages \cup Buckets, NEW i \in Settled(c) \ OutOfScope
        PROVE  Senders(Hash[i]) # {} \/ <<c, Hash[i]>> \in refused
    <3>1. i \in AllItems /\ Hash[i] \in Hashes
      BY <2>1, ItemsAssumption DEF Settled, AllItems
    <3>2. c \notin Lambdas \cup Sensors
      BY KindsAssumption
    <3>3. QED
      BY <2>1, <3>1, <3>2 DEF DoneInv, ClientInv, Settled, Kept, Answered
  <2>2. QED
    BY <2>1 DEF DoneMeansAnswered, DoneInv, FileInv, Had
<1>2. QED
  BY <1>1, InitDone, NextDone, PTL DEF Spec

-----------------------------------------------------------------------------
\* What an exchange comes to, whichever request it is at.
Submitting == {"submit", "submitAgain"}
Again == {"queryAgain", "submitAgain"}

Quits(c) ==
    /\ pc[c] \in {"query", "submit"}
    /\ Ends(c) /\ Fault /\ UNCHANGED network

GoesOn(c) ==
    /\ pc[c] \in {"query", "queryAgain", "submit"}
    /\ \E step \in {"known", "read"} \cup Submitting \cup Again :
        /\ Goto(c, step)
        /\ step \in Again => token'[c] \/ Fault
        /\ step \in Submitting => c \notin Sensors \/ pc[c] = "submit"
    /\ Fault \/ NoFault
    /\ UNCHANGED <<cur, todo, books, network>>

Fails(c) ==
    /\ pc[c] \in {"query"} \cup Submitting \cup Again
    /\ Goto(c, "failed") /\ Fault
    /\ \/ UNCHANGED limbo
       \/ pc[c] \in Submitting /\ limbo' = limbo \cup {Own(c)}
    /\ UNCHANGED <<cur, todo, books, sends, refused>>

IsAccepted(c) ==
    /\ pc[c] \in Submitting
    /\ Accepted(Own(c)) /\ Goto(c, "sent") /\ NoFault
    /\ UNCHANGED <<cur, todo, books, limbo, refused>>

IsRefused(c) ==
    /\ pc[c] \in Submitting
    /\ Goto(c, "sent")
    /\ Fault \/ (NoFault /\ pc[c] = "submitAgain" /\ ~token[c])
    /\ refused' = refused \cup {Own(c)}
    /\ UNCHANGED <<cur, todo, books, limbo, sends>>

LEMMA Outcomes ==
    ASSUME TypeInv, NEW c \in Clients, Exchange(c)
    PROVE  Quits(c) \/ GoesOn(c) \/ Fails(c) \/ IsAccepted(c) \/ IsRefused(c)
<1> USE DEF TypeInv, FleetTypeOK, SessionTypeOK, Submitting, Again
<1>1. ASSUME NEW step \in Again, PAT_Auth(c, step), UNCHANGED network,
             pc[c] \in {"query", "submit"},
             step = "submitAgain" => pc[c] = "submit"
      PROVE  Quits(c) \/ GoesOn(c)
  <2>1. CASE Ends(c) /\ Fault
    BY <1>1, <2>1 DEF Quits
  <2>2. CASE Goto(c, step) /\ token' = [token EXCEPT ![c] = TRUE] /\ NoFault
             /\ UNCHANGED <<cur, todo, books>>
    BY <1>1, <2>2 DEF GoesOn
  <2>3. CASE Goto(c, step) /\ Fault /\ UNCHANGED <<cur, todo, books>>
    BY <1>1, <2>3 DEF GoesOn
  <2>4. QED
    BY <1>1, <2>1, <2>2, <2>3 DEF PAT_Auth
<1>2. ASSUME NEW code \in {200, 401, 404, 500}, Heed(c, code), Fault \/ NoFault,
             UNCHANGED <<cur, todo, books, network>>,
             pc[c] \in {"query", "queryAgain"}
      PROVE  GoesOn(c)
  <2>1. PICK step \in {"known", "read", "submit"} :
            Goto(c, step) /\ (step = "submit" => c \notin Sensors)
    BY <1>2 DEF Heed
  <2>2. QED
    BY <1>2, <2>1 DEF GoesOn
<1>3. ASSUME Ask(c) \/ NoAnswer(c), UNCHANGED <<cur, todo, books, network>>,
             pc[c] \in {"query", "queryAgain"}
      PROVE  GoesOn(c) \/ Fails(c)
  <2>1. CASE Ask(c)
    <3>1. PICK code \in {200, 404, 500} :
              Query(Hash[cur[c]], code) /\ Heed(c, code)
      BY <2>1 DEF Ask
    <3>2. Fault \/ NoFault
      BY <3>1 DEF Query, SearchBySHA256
    <3>3. QED
      BY <1>2, <1>3, <3>1, <3>2
  <2>2. CASE NoAnswer(c)
    BY <1>3, <2>2 DEF NoAnswer, Fails, network
  <2>3. QED
    BY <1>3, <2>1, <2>2
<1>4. ASSUME Send(c), pc[c] \in Submitting, UNCHANGED <<cur, todo, books>>
      PROVE  Fails(c) \/ IsAccepted(c) \/ IsRefused(c)
  BY <1>4 DEF Send, Fails, IsAccepted, IsRefused
<1>5. CASE FirstQuery(c)
  <2>1. pc[c] = "query" /\ UNCHANGED network
    BY <1>5 DEF FirstQuery
  <2>2. CASE PAT_Auth(c, "queryAgain")
    BY <1>1, <2>1, <2>2
  <2>3. CASE (Ask(c) \/ NoAnswer(c)) /\ UNCHANGED <<cur, todo, books>>
    BY <1>3, <2>1, <2>3
  <2>4. QED
    BY <1>5, <2>2, <2>3 DEF FirstQuery
<1>6. CASE QueryAgain(c)
  <2>1. pc[c] = "queryAgain" /\ UNCHANGED <<cur, todo, books, network>>
    BY <1>6 DEF QueryAgain
  <2>2. CASE Ask(c) \/ NoAnswer(c)
    BY <1>3, <2>1, <2>2
  <2>3. CASE Heed(c, 401) /\ NoFault
    BY <1>2, <2>1, <2>3
  <2>4. QED
    BY <1>6, <2>2, <2>3 DEF QueryAgain
<1>7. CASE FirstSubmit(c)
  <2>1. pc[c] = "submit"
    BY <1>7 DEF FirstSubmit
  <2>2. CASE PAT_Auth(c, "submitAgain") /\ UNCHANGED network
    BY <1>1, <2>1, <2>2
  <2>3. CASE Send(c) /\ UNCHANGED <<cur, todo, books>>
    BY <1>4, <2>1, <2>3
  <2>4. QED
    BY <1>7, <2>2, <2>3 DEF FirstSubmit
<1>8. CASE SubmitAgain(c)
  <2>1. pc[c] = "submitAgain" /\ UNCHANGED <<cur, todo, books>>
    BY <1>8 DEF SubmitAgain
  <2>2. CASE Send(c)
    BY <1>4, <2>1, <2>2
  <2>3. CASE ~Send(c)
    BY <1>8, <2>1, <2>3 DEF SubmitAgain, IsRefused
  <2>4. QED
    BY <2>2, <2>3
<1>9. QED
  BY <1>5, <1>6, <1>7, <1>8 DEF Exchange

\* What the other clients have is none of c's business.
OwnOnly(c) ==
    \A d \in Clients \ {c} :
        /\ pc'[d] = pc[d] /\ cur'[d] = cur[d] /\ todo'[d] = todo[d]
        /\ token'[d] = token[d]
        /\ registry'[d] = registry[d] /\ disk'[d] = disk[d]
        /\ sends'[d] = sends[d]
        /\ \A h \in Hashes : <<d, h>> \in limbo' => <<d, h>> \in limbo

SensorOnly(c) ==
    \A d \in Sensors \ {c} :
        unseen'[d] = unseen[d] /\ stored'[d] = stored[d] /\ filed'[d] = filed[d]

LEMMA FrameOnly ==
    ASSUME NEW c \in Clients, OwnType(c), NEW h \in Hashes,
           \A d \in Clients \ {c} : todo'[d] = todo[d] /\ token'[d] = token[d],
           \A d \in Clients \ {c} : sends'[d] = sends[d],
           limbo' \subseteq limbo \cup {<<c, h>>}
    PROVE  OwnOnly(c)
<1>1. \A d \in Clients \ {c}, g \in Hashes : <<d, g>> # <<c, h>>
  OBVIOUS
<1>2. \A d \in Clients \ {c}, g \in Hashes : <<d, g>> \in limbo' => <<d, g>> \in limbo
  BY <1>1
<1>3. QED
  BY <1>2 DEF OwnType, OwnOnly

LEMMA QuietOnly ==
    ASSUME NEW c \in Clients, OwnType(c), UNCHANGED network,
           \A d \in Clients \ {c} : todo'[d] = todo[d] /\ token'[d] = token[d]
    PROVE  OwnOnly(c)
  BY DEF OwnType, OwnOnly, network

LEMMA EndsElsewhere ==
    ASSUME TypeInv, NEW c \in Clients, Ends(c)
    PROVE  \A d \in Clients \ {c} : todo'[d] = todo[d] /\ token'[d] = token[d]
  BY DEF Ends, TypeInv, FleetTypeOK, SessionTypeOK

\* The steps that c takes, or that happen to c alone.
Acts(c) ==
    \/ Exchange(c) /\ UNCHANGED sensor
    \/ c \in Voltages \cup Buckets /\ PassMoves(c) /\ UNCHANGED sensor
    \/ EventMoves(c) /\ UNCHANGED sensor
    \/ SensorMoves(c)
    \/ Expire(c) /\ UNCHANGED sensor
    \/ (Crash(c) \/ NukeDB(c)) /\ UNCHANGED sensor

LEMMA StepOnly ==
    ASSUME TypeInv, NEW c \in Clients, Acts(c)
    PROVE  OwnOnly(c) /\ SensorOnly(c)
<1>1. ASSUME UNCHANGED sensor PROVE SensorOnly(c)
  BY <1>1 DEF sensor, SensorOnly
<1> DEFINE Own2 == \A d \in Clients \ {c} : todo'[d] = todo[d] /\ token'[d] = token[d]
<1>2. CASE Exchange(c) /\ UNCHANGED sensor
  <2>1. pc[c] \in Busy
    BY <1>2 DEF Exchange, FirstQuery, QueryAgain, FirstSubmit, SubmitAgain, Busy,
                Steps
  <2>2. Own2
    <3>1. ASSUME NEW step, PAT_Auth(c, step) PROVE Own2
      BY <3>1, EndsElsewhere
         DEF PAT_Auth, TypeInv, FleetTypeOK, SessionTypeOK
    <3>2. CASE UNCHANGED <<todo, token>>
      BY <3>2
    <3>3. QED
      BY <1>2, <3>1, <3>2
         DEF Exchange, FirstQuery, QueryAgain, FirstSubmit, SubmitAgain, Ask, NoAnswer
  <2>3. \A d \in Clients \ {c} : sends'[d] = sends[d]
    <3>1. CASE Accepted(Own(c))
      BY <3>1 DEF Accepted, Own, TypeInv, FleetTypeOK, SessionTypeOK
    <3>2. CASE UNCHANGED sends
      BY <3>2
    <3>3. QED
      BY <1>2, <3>1, <3>2, Outcomes
         DEF Quits, GoesOn, Fails, IsAccepted, IsRefused, network
  <2>4. limbo' \subseteq limbo \cup {<<c, Hash[cur[c]]>>}
    BY <1>2, Outcomes DEF Quits, GoesOn, Fails, IsAccepted, IsRefused, network, Own
  <2>5. OwnType(c) /\ Hash[cur[c]] \in Hashes
    BY <1>2, <2>1, ExchangeType, HashesOfItems
  <2>6. QED
    BY <1>1, <1>2, <2>2, <2>3, <2>4, <2>5, FrameOnly
<1>3. CASE c \in Voltages \cup Buckets /\ PassMoves(c) /\ UNCHANGED sensor
  <2>1. UNCHANGED network
    BY <1>3 DEF PassMoves, Begins, Finishes, WalkDir, AnalyzeObject, Main, Enter,
                GivesUp, Encode
  <2>2. OwnType(c)
    BY <1>3, RegistryType
  <2>3. Own2
    <3>1. CASE Finishes(c)
      BY <3>1, EndsElsewhere DEF Finishes
    <3>2. CASE ~Finishes(c)
      BY <1>3, <3>2 DEF PassMoves, Begins, WalkDir, AnalyzeObject, Main, Enter,
                        GivesUp, Encode, Take, TypeInv, FleetTypeOK, SessionTypeOK
    <3>3. QED
      BY <3>1, <3>2
  <2>4. QED
    BY <1>1, <1>3, <2>1, <2>2, <2>3, QuietOnly
<1>4. CASE EventMoves(c) /\ UNCHANGED sensor
  <2>1. OwnType(c)
    BY <1>4, EventType
  <2>2. UNCHANGED network /\ Own2
    BY <1>4 DEF EventMoves, ColdStart, Handler, Return, Take, TypeInv, FleetTypeOK,
                SessionTypeOK
  <2>3. QED
    BY <1>1, <1>4, <2>1, <2>2, QuietOnly
<1>5. CASE SensorMoves(c)
  <2>1. OwnType(c)
    BY <1>5, SensorType
  <2>2. UNCHANGED network /\ Own2
    BY <1>5 DEF SensorMoves, Observe, StartClient, LPop, ReadStored, Remove, Take,
                TypeInv, FleetTypeOK, SessionTypeOK
  <2>3. SensorOnly(c)
    BY <1>5 DEF SensorMoves, Observe, StartClient, LPop, ReadStored, Remove,
                SensorOnly, sensor, TypeInv, FleetTypeOK, SensorTypeOK
  <2>4. QED
    BY <2>1, <2>2, <2>3, QuietOnly
<1>6. CASE Expire(c) /\ UNCHANGED sensor
  <2>1. OwnOnly(c)
    BY <1>6 DEF Expire, OwnOnly, books, network
  <2>2. QED
    BY <1>1, <1>6, <2>1
<1>7. CASE Crash(c) /\ UNCHANGED sensor
  <2>1. OwnType(c) /\ Own2
    BY <1>7, EndsType, EndsElsewhere DEF Crash
  <2>2. CASE pc[c] \in {"submit", "submitAgain"}
    <3>1. limbo' \subseteq limbo \cup {<<c, Hash[cur[c]]>>} /\ UNCHANGED sends
      BY <1>7 DEF Crash, Own
    <3>2. Hash[cur[c]] \in Hashes
      BY <2>2, HashesOfItems DEF Busy, Steps
    <3>3. QED
      BY <1>1, <1>7, <2>1, <3>1, <3>2, FrameOnly
  <2>3. CASE pc[c] \notin {"submit", "submitAgain"}
    BY <1>1, <1>7, <2>1, <2>3, QuietOnly DEF Crash, network
  <2>4. QED
    BY <2>2, <2>3
<1>8. CASE NukeDB(c) /\ UNCHANGED sensor
  <2>1. OwnOnly(c)
    BY <1>8 DEF NukeDB, Goto, OwnOnly, network, TypeInv, FleetTypeOK, SessionTypeOK
  <2>2. QED
    BY <1>1, <1>8, <2>1
<1>9. QED
  BY <1>1, <1>2, <1>3, <1>4, <1>5, <1>6, <1>7, <1>8 DEF Acts

-----------------------------------------------------------------------------
\* What a client has in hand: nothing between two items, and in the exchange an
\* item that is its own, no longer before it and not in its registry, which
\* holds all that its file does.
HandInv(c) ==
    /\ pc[c] \notin Busy => cur[c] = NoItem
    /\ c \in Buckets \cup Lambdas => Pending(c) \subseteq Items[c]
    /\ c \in Lambdas => cur[c] \notin todo[c]
    /\ c \in Voltages \cup Buckets => disk[c] \subseteq registry[c] \/ pc[c] = "rest"
    /\ c \in Voltages /\ pc[c] \in Busy => Hash[cur[c]] \notin registry[c]
    /\ c \in Buckets /\ pc[c] \in Busy => cur[c] \notin registry[c]

\* What Suricata has come across was stored once, and is there as it is sent.
StoredInv(c) ==
    /\ unseen[c] \subseteq Items[c]
    /\ Pending(c) \subseteq Items[c] \ unseen[c]
    /\ \A h \in stored[c] : filed[c][h] > 0
    /\ \A i \in Items[c] \ (OutOfScope \cup unseen[c]) : filed[c][Hash[i]] > 0
    /\ pc[c] \in Submitting => Hash[cur[c]] \in stored[c]

OwnInv(c) == HandInv(c) /\ (c \in Sensors => StoredInv(c))

LEMMA ExchangeOwn ==
    ASSUME TypeInv, NEW c \in Clients, OwnInv(c), Exchange(c), UNCHANGED sensor
    PROVE  OwnInv(c)'
<1> USE DEF TypeInv, FleetTypeOK, SessionTypeOK, Goto, Pending
<1>1. CASE Quits(c)
  <2>1. /\ pc'[c] = "rest" /\ cur'[c] = NoItem /\ todo'[c] \subseteq Pending(c)
        /\ NoItem \notin todo'[c] /\ "rest" \notin Busy \cup Submitting
    BY <1>1, ItemsAssumption DEF Quits, Ends, Busy, Submitting
  <2>2. HandInv(c)'
    BY <2>1, KindsAssumption DEF OwnInv, HandInv
  <2>3. c \in Sensors => StoredInv(c)'
    BY <2>1 DEF OwnInv, StoredInv, sensor
  <2>4. QED
    BY <2>2, <2>3 DEF OwnInv
<1>2. CASE ~Quits(c)
  <2>1. /\ UNCHANGED <<cur, todo, registry, disk>>
        /\ pc[c] \in Busy /\ pc'[c] \in Busy
        /\ pc'[c] \in Submitting => c \notin Sensors \/ pc[c] \in Submitting
    BY <1>2, Outcomes DEF GoesOn, Fails, IsAccepted, IsRefused, Submitting, Again,
                          Busy, Steps, books
  <2>2. HandInv(c)'
    BY <2>1 DEF OwnInv, HandInv, Busy, Steps
  <2>3. c \in Sensors => StoredInv(c)'
    BY <2>1 DEF OwnInv, StoredInv, sensor
  <2>4. QED
    BY <2>2, <2>3 DEF OwnInv
<1>3. QED
  BY <1>1, <1>2

LEMMA PassOwn ==
    ASSUME TypeInv, NEW c \in Voltages \cup Buckets, OwnInv(c), PassMoves(c)
    PROVE  OwnInv(c)'
<1> USE DEF TypeInv, FleetTypeOK, SessionTypeOK, Goto, Pending
<1>1. c \notin Lambdas \cup Sensors /\ (c \in Buckets <=> c \notin Voltages)
  BY KindsAssumption
<1> SUFFICES HandInv(c)'
  BY <1>1 DEF OwnInv
<1>2. HandInv(c)
  BY DEF OwnInv
<1>3. CASE Begins(c)
  <2>1. CASE Goto(c, "next") /\ UNCHANGED <<cur, disk>>
             /\ registry' = [registry EXCEPT ![c] = disk[c]]
             /\ todo' = [todo EXCEPT ![c] = Items[c]]
    <3>1. /\ pc'[c] = "next" /\ cur'[c] = NoItem /\ todo'[c] = Items[c]
          /\ registry'[c] = disk'[c] /\ "next" \notin Busy
      BY <1>2, <1>3, <2>1 DEF Begins, HandInv, Busy
    <3>2. QED
      BY <1>1, <3>1 DEF HandInv
  <2>2. CASE UNCHANGED <<pc, cur, todo, registry, disk>>
    BY <1>2, <2>2 DEF HandInv
  <2>3. QED
    BY <1>3, <2>1, <2>2 DEF Begins, LoadRegistry
<1>4. CASE Finishes(c)
  <2>1. /\ pc'[c] = "rest" /\ cur'[c] = NoItem /\ todo'[c] = {}
        /\ "rest" \notin Busy
    BY <1>1, <1>4 DEF Finishes, Ends, Busy
  <2>2. QED
    BY <1>1, <2>1 DEF HandInv
<1>5. CASE WalkDir(c)
  <2>1. PICK i \in todo[c] :
          /\ todo' = [todo EXCEPT ![c] = @ \ {i}]
          /\ \/ UNCHANGED <<pc, cur>>
             \/ /\ Hash[i] \notin registry[c] /\ Goto(c, "query")
                /\ cur' = [cur EXCEPT ![c] = i]
    BY <1>5 DEF WalkDir, Take
  <2>2. UNCHANGED <<registry, disk>> /\ c \in Voltages /\ "query" \in Busy
        /\ pc[c] = "next"
    BY <1>5 DEF WalkDir, books, Busy, Steps
  <2>3. QED
    BY <1>1, <1>2, <2>1, <2>2 DEF HandInv
<1>6. CASE AnalyzeObject(c)
  <2>1. PICK i \in todo[c] :
          /\ todo' = [todo EXCEPT ![c] = @ \ {i}]
          /\ \/ UNCHANGED <<pc, cur>>
             \/ /\ i \notin registry[c] /\ cur' = [cur EXCEPT ![c] = i]
                /\ Goto(c, "known") \/ Goto(c, "query")
    BY <1>6 DEF AnalyzeObject, Take
  <2>2. UNCHANGED <<registry, disk>> /\ c \in Buckets /\ pc[c] = "next"
        /\ "known" \in Busy /\ "query" \in Busy
    BY <1>6 DEF AnalyzeObject, books, Busy, Steps
  <2>3. i \in Items[c]
    BY <1>2, <2>1, <2>2, ItemsAssumption DEF HandInv
  <2>4. QED
    BY <1>1, <1>2, <2>1, <2>2, <2>3 DEF HandInv
<1>7. CASE Main(c) /\ ~(Begins(c) \/ Finishes(c))
  <2>1. UNCHANGED <<pc, cur, registry, disk>> /\ todo'[c] = {}
    BY <1>7 DEF Main, books
  <2>2. QED
    BY <1>2, <2>1 DEF HandInv
<1>8. ASSUME NEW key, Enter(c, key), pc[c] # "rest" PROVE HandInv(c)'
  <2>1. /\ pc'[c] \in {"encode", "next"} /\ cur'[c] = NoItem
        /\ todo'[c] = todo[c] /\ pc'[c] \notin Busy
        /\ registry'[c] = registry[c] \cup {key}
        /\ disk'[c] \in {{}, disk[c]}
    BY <1>8 DEF Enter, PutDown, Busy
  <2>2. QED
    BY <1>1, <1>2, <1>8, <2>1 DEF HandInv
<1>9. CASE GivesUp(c)
  <2>1. /\ pc'[c] = "next" /\ cur'[c] = NoItem /\ "next" \notin Busy
        /\ UNCHANGED <<todo, registry, disk>> /\ pc[c] # "rest"
    BY <1>9 DEF GivesUp, PutDown, books, Busy
  <2>2. QED
    BY <1>1, <1>2, <2>1 DEF HandInv
<1>10. CASE Encode(c)
  <2>1. /\ pc'[c] = "next" /\ "next" \notin Busy /\ "encode" \notin Busy
        /\ UNCHANGED <<cur, todo, registry>> /\ pc[c] = "encode"
        /\ disk'[c] \in {registry[c], disk[c]}
    BY <1>10 DEF Encode, Busy
  <2>2. QED
    BY <1>2, <2>1 DEF HandInv
<1>11. QED
  BY <1>3, <1>4, <1>5, <1>6, <1>7, <1>8, <1>9, <1>10 DEF PassMoves

LEMMA EventOwn ==
    ASSUME TypeInv, NEW c \in Clients, OwnInv(c), EventMoves(c)
    PROVE  OwnInv(c)'
<1> USE DEF TypeInv, FleetTypeOK, SessionTypeOK, Goto, Pending
<1>1. c \in Lambdas /\ c \notin Voltages \cup Buckets \cup Sensors
  BY KindsAssumption DEF EventMoves, ColdStart, Handler, Return
<1> SUFFICES HandInv(c)'
  BY <1>1 DEF OwnInv
<1>2. HandInv(c)
  BY DEF OwnInv
<1>3. CASE ColdStart(c)
  <2>1. pc'[c] \in {pc[c], "next"} /\ "next" \notin Busy /\ UNCHANGED <<cur, todo>>
        /\ pc[c] \notin Busy
    BY <1>3 DEF ColdStart, Busy
  <2>2. QED
    BY <1>1, <1>2, <2>1 DEF HandInv
<1>4. CASE Handler(c)
  <2>1. PICK i \in todo[c] :
          /\ todo' = [todo EXCEPT ![c] = @ \ {i}]
          /\ \/ UNCHANGED <<pc, cur>>
             \/ cur' = [cur EXCEPT ![c] = i] /\ Goto(c, "query")
    BY <1>4 DEF Handler, Take
  <2>2. i \in AllItems /\ "query" \in Busy
    BY <2>1 DEF Busy, Steps
  <2>3. QED
    BY <1>1, <1>2, <2>1, <2>2, ItemsAssumption DEF HandInv
<1>5. CASE Return(c)
  <2>1. pc'[c] = "next" /\ "next" \notin Busy /\ cur'[c] = NoItem
        /\ UNCHANGED todo /\ NoItem \notin todo[c]
    BY <1>5, ItemsAssumption DEF Return, PutDown, Busy
  <2>2. QED
    BY <1>1, <1>2, <2>1 DEF HandInv
<1>6. QED
  BY <1>3, <1>4, <1>5 DEF EventMoves

LEMMA SensorOwn ==
    ASSUME TypeInv, NEW c \in Clients, OwnInv(c), SensorMoves(c)
    PROVE  OwnInv(c)'
<1> USE DEF TypeInv, FleetTypeOK, SessionTypeOK, SensorTypeOK, Goto, Pending
<1>1. c \in Sensors /\ c \notin Voltages \cup Buckets \cup Lambdas
  BY KindsAssumption DEF SensorMoves, Observe, StartClient, LPop, ReadStored, Remove
<1>2. HandInv(c) /\ StoredInv(c)
  BY <1>1 DEF OwnInv
<1> SUFFICES HandInv(c)' /\ StoredInv(c)'
  BY DEF OwnInv
<1>3. CASE Observe(c)
  <2>1. PICK i \in unseen[c] :
          /\ unseen' = [unseen EXCEPT ![c] = @ \ {i}]
          /\ todo' = [todo EXCEPT ![c] = @ \cup {i}]
          /\ IF i \in OutOfScope THEN UNCHANGED <<stored, filed>> ELSE
             /\ stored' = [stored EXCEPT ![c] = @ \cup {Hash[i]}]
             /\ filed' = [filed EXCEPT ![c][Hash[i]] =
                              @ + Count(Hash[i] \notin stored[c])]
    BY <1>3 DEF Observe
  <2>2. UNCHANGED <<pc, cur>> /\ i \in AllItems /\ Hash[i] \in Hashes
    BY <1>1, <1>3, <2>1, ItemsAssumption DEF Observe
  <2>3. HandInv(c)'
    BY <1>1, <1>2, <2>2 DEF HandInv
  <2>4. i \in OutOfScope \/ (filed'[c][Hash[i]] > 0 /\ Hash[i] \in stored'[c])
    <3>1. CASE Hash[i] \in stored[c]
      <4>1. filed[c][Hash[i]] > 0
        BY <1>2, <3>1 DEF StoredInv
      <4>2. QED
        BY <1>1, <2>1, <2>2, <3>1, <4>1 DEF Count
    <3>2. CASE Hash[i] \notin stored[c]
      BY <1>1, <2>1, <2>2, <3>2 DEF Count
    <3>3. QED
      BY <3>1, <3>2
  <2>5. \A h \in Hashes : filed[c][h] > 0 => filed'[c][h] > 0
    <3>1. CASE i \in OutOfScope
      BY <2>1, <3>1
    <3>2. CASE i \notin OutOfScope
      <4>1. ASSUME NEW h \in Hashes, h # Hash[i] PROVE filed'[c][h] = filed[c][h]
        BY <1>1, <2>1, <2>2, <3>2, <4>1
      <4>2. QED
        BY <2>4, <3>2, <4>1
    <3>3. QED
      BY <3>1, <3>2
  <2>6. /\ unseen'[c] = unseen[c] \ {i} /\ todo'[c] = todo[c] \cup {i}
        /\ stored[c] \subseteq stored'[c]
        /\ stored'[c] \subseteq stored[c] \cup {Hash[i]}
        /\ i \in OutOfScope => stored'[c] = stored[c]
    BY <1>1, <2>1, <2>2
  <2>7. i \in Items[c] /\ \A j \in Items[c] : Hash[j] \in Hashes
    <3>1. i \in Items[c]
      BY <1>2, <2>1 DEF StoredInv
    <3>2. Items[c] \subseteq AllItems
      BY DEF AllItems
    <3>3. \A j \in AllItems : Hash[j] \in Hashes
      BY ItemsAssumption
    <3>4. QED
      BY <3>1, <3>2, <3>3
  <2>8. StoredInv(c)'
    <3>1. Pending(c)' \subseteq Items[c] \ unseen'[c]
      BY <1>2, <2>2, <2>6, <2>7 DEF StoredInv
    <3>2. \A h \in stored'[c] : filed'[c][h] > 0
      <4>1. stored[c] \subseteq Hashes
        BY <1>1
      <4>2. QED
        BY <1>2, <2>4, <2>5, <2>6, <4>1 DEF StoredInv
    <3>3. \A j \in Items[c] \ (OutOfScope \cup unseen'[c]) : filed'[c][Hash[j]] > 0
      BY <1>2, <2>4, <2>5, <2>6, <2>7 DEF StoredInv
    <3>4. QED
      BY <1>2, <2>2, <2>6, <3>1, <3>2, <3>3 DEF StoredInv
  <2>9. QED
    BY <2>3, <2>8
<1>4. CASE StartClient(c)
  <2>1. pc'[c] \in {pc[c], "next"} /\ "next" \notin Busy /\ UNCHANGED <<cur, todo, sensor>>
        /\ pc[c] \notin Busy /\ "next" \notin Submitting
    BY <1>4 DEF StartClient, Busy, Submitting
  <2>2. QED
    BY <1>1, <1>2, <2>1 DEF HandInv, StoredInv, sensor
<1>5. CASE LPop(c)
  <2>1. PICK i \in todo[c] :
          /\ todo' = [todo EXCEPT ![c] = @ \ {i}]
          /\ \/ UNCHANGED <<pc, cur>>
             \/ cur' = [cur EXCEPT ![c] = i] /\ Goto(c, "query")
    BY <1>5 DEF LPop, Take
  <2>2. "query" \in Busy /\ "query" \notin Submitting /\ UNCHANGED sensor
    BY <1>5 DEF LPop, Busy, Steps, Submitting
  <2>3. QED
    BY <1>1, <1>2, <2>1, <2>2 DEF HandInv, StoredInv, sensor
<1>6. CASE ReadStored(c)
  <2>1. UNCHANGED <<todo, sensor>> /\ "next" \notin Busy \cup Submitting
        /\ "submit" \in Busy
    BY <1>6 DEF ReadStored, Busy, Steps, Submitting
  <2>2. \/ pc'[c] = "submit" /\ UNCHANGED cur /\ Hash[cur[c]] \in stored[c]
        \/ pc'[c] = "next" /\ cur'[c] = NoItem
    BY <1>6 DEF ReadStored, PutDown
  <2>3. QED
    BY <1>1, <1>2, <2>1, <2>2 DEF HandInv, StoredInv, sensor
<1>7. CASE Remove(c)
  <2>1. /\ pc'[c] = "next" /\ cur'[c] = NoItem /\ "next" \notin Busy \cup Submitting
        /\ UNCHANGED <<todo, unseen, filed>> /\ stored'[c] \subseteq stored[c]
    BY <1>1, <1>7 DEF Remove, PutDown, Busy, Submitting
  <2>2. QED
    BY <1>1, <1>2, <2>1 DEF HandInv, StoredInv
<1>8. QED
  BY <1>3, <1>4, <1>5, <1>6, <1>7 DEF SensorMoves

LEMMA AloneOwn ==
    ASSUME TypeInv, NEW c \in Clients, OwnInv(c), UNCHANGED sensor,
           Expire(c) \/ Crash(c) \/ NukeDB(c)
    PROVE  OwnInv(c)'
<1> USE DEF TypeInv, FleetTypeOK, SessionTypeOK, Goto, Pending
<1>1. CASE Expire(c)
  <2>1. UNCHANGED <<pc, cur, todo, registry, disk, unseen, stored, filed>>
    BY <1>1 DEF Expire, books, sensor
  <2>2. QED
    BY <2>1 DEF OwnInv, HandInv, StoredInv
<1>2. CASE Crash(c)
  <2>1. /\ pc'[c] = "rest" /\ cur'[c] = NoItem /\ todo'[c] \subseteq Pending(c)
        /\ NoItem \notin todo'[c] /\ "rest" \notin Busy \cup Submitting
    BY <1>2, ItemsAssumption DEF Crash, Ends, Busy, Submitting
  <2>2. HandInv(c)'
    BY <2>1, KindsAssumption DEF OwnInv, HandInv
  <2>3. c \in Sensors => StoredInv(c)'
    BY <2>1 DEF OwnInv, StoredInv, sensor
  <2>4. QED
    BY <2>2, <2>3 DEF OwnInv
<1>3. CASE NukeDB(c)
  <2>1. /\ UNCHANGED <<cur, todo, registry>> /\ disk'[c] = {} /\ c \in Voltages
        /\ pc'[c] = pc[c] \/ (pc[c] = "encode" /\ pc'[c] = "next")
        /\ "encode" \notin Busy /\ "next" \notin Busy
    BY <1>3 DEF NukeDB, Busy
  <2>2. c \notin Buckets \cup Lambdas \cup Sensors
    BY <2>1, KindsAssumption
  <2>3. QED
    BY <2>1, <2>2 DEF OwnInv, HandInv
<1>4. QED
  BY <1>1, <1>2, <1>3

LEMMA ActsOwn ==
    ASSUME TypeInv, NEW c \in Clients, OwnInv(c), Acts(c)
    PROVE  OwnInv(c)'
  BY ExchangeOwn, PassOwn, EventOwn, SensorOwn, AloneOwn DEF Acts

LEMMA OthersOwn ==
    ASSUME NEW c \in Clients, OwnOnly(c), SensorOnly(c),
           NEW d \in Clients \ {c}, OwnInv(d)
    PROVE  OwnInv(d)'
<1>1. HandInv(d)'
  BY DEF OwnOnly, OwnInv, HandInv, Pending
<1>2. d \in Sensors => StoredInv(d)'
  BY DEF OwnOnly, SensorOnly, OwnInv, StoredInv, Pending
<1>3. QED
  BY <1>1, <1>2 DEF OwnInv

\* The steps that nobody takes in particular.
LEMMA NextActs ==
    ASSUME Next
    PROVE  \/ StoreMoves /\ UNCHANGED <<client, sensor>>
           \/ \E c \in Clients : Acts(c)
           \/ \E p \in limbo : Arrives(p) /\ UNCHANGED sensor
  BY Cases DEF Acts

\* What no client notices.
Unnoticed ==
    UNCHANGED <<pc, cur, todo, token, registry, disk, refused, sensor>>

LEMMA NotActs ==
    ASSUME \/ StoreMoves /\ UNCHANGED <<client, sensor>>
           \/ \E p \in limbo : Arrives(p) /\ UNCHANGED sensor
           \/ UNCHANGED vars
    PROVE  Unnoticed
  BY DEF Unnoticed, client, books, network, Arrives, vars

LEMMA UnnoticedOwn ==
    ASSUME Unnoticed, NEW c \in Clients, OwnInv(c)
    PROVE  OwnInv(c)'
  BY DEF Unnoticed, OwnInv, HandInv, StoredInv, Pending, sensor

LEMMA InitOwn ==
    ASSUME Init, NEW c \in Clients
    PROVE  OwnInv(c)
<1>1. /\ cur[c] = NoItem /\ registry[c] = {} /\ disk[c] = {}
      /\ pc[c] \in {"rest", "off"} /\ pc[c] \notin Busy \cup Submitting
      /\ todo[c] = IF c \in Lambdas THEN Items[c] ELSE {}
  BY DEF Init, SessionInit, Busy, Steps, Submitting
<1>2. NoItem \notin Items[c]
  BY ItemsAssumption DEF AllItems
<1>3. HandInv(c)
  BY <1>1, <1>2, KindsAssumption DEF HandInv, Pending
<1>4. c \in Sensors => StoredInv(c)
  BY <1>1, KindsAssumption DEF StoredInv, Pending, Init, SensorInit
<1>5. QED
  BY <1>3, <1>4 DEF OwnInv

LEMMA NextOwn ==
    ASSUME TypeInv, \A c \in Clients : OwnInv(c), [Next]_vars
    PROVE  \A c \in Clients : OwnInv(c)'
<1>1. ASSUME NEW c \in Clients, Acts(c), NEW d \in Clients PROVE OwnInv(d)'
  BY <1>1, ActsOwn, OthersOwn, StepOnly
<1>2. QED
  BY <1>1, NextActs, NotActs, UnnoticedOwn

-----------------------------------------------------------------------------
\* Nothing has failed yet: no request went unanswered and none was refused, and
\* every item of a client without a registry is before it, in its hands, or with
\* the server.
HealthyInv(c) ==
    /\ pc[c] # "failed"
    /\ pc[c] \in Again => token[c]
    /\ c \in Lambdas \cup Sensors =>
        \A i \in Items[c] \ OutOfScope :
            \/ i \in Pending(c)
            \/ c \in Sensors /\ i \in unseen[c]
            \/ Senders(Hash[i]) # {}

CalmInv == faults = 0 => refused = {} /\ \A c \in Clients : HealthyInv(c)

LossInv == DoneInv /\ (\A c \in Clients : OwnInv(c)) /\ CalmInv

LEMMA ActsGrow ==
    ASSUME TypeInv, NEW c \in Clients, Acts(c)
    PROVE  Grow
<1>1. CASE Exchange(c)
  <2>1. CASE IsAccepted(c)
    <3>1. Hash[cur[c]] \in Hashes
      BY <2>1, HashesOfItems DEF IsAccepted, Submitting, Busy, Steps
    <3>2. QED
      BY <2>1, <3>1, AcceptedGrows DEF IsAccepted, Own, Grow
  <2>2. CASE ~IsAccepted(c)
    BY <1>1, <2>2, Outcomes DEF Quits, GoesOn, Fails, IsRefused, Grow, network
  <2>3. QED
    BY <2>1, <2>2
<1>2. CASE PassMoves(c)
  BY <1>2, UnsentGrows
     DEF PassMoves, Begins, Finishes, WalkDir, AnalyzeObject, Main, Enter, GivesUp,
         Encode, network
<1>3. CASE EventMoves(c)
  BY <1>3, UnsentGrows DEF EventMoves, ColdStart, Handler, Return, network
<1>4. CASE SensorMoves(c)
  BY <1>4, UnsentGrows
     DEF SensorMoves, Observe, StartClient, LPop, ReadStored, Remove, network
<1>5. CASE Expire(c) \/ Crash(c) \/ NukeDB(c)
  BY <1>5, UnsentGrows DEF Expire, Crash, NukeDB, network
<1>6. QED
  BY <1>1, <1>2, <1>3, <1>4, <1>5 DEF Acts

LEMMA HashOfItem ==
    ASSUME NEW c \in Clients, NEW i \in Items[c]
    PROVE  i \in AllItems /\ Hash[i] \in Hashes
<1>1. i \in AllItems
  BY DEF AllItems
<1>2. QED
  BY <1>1, ItemsAssumption

\* A client without a registry that puts down what it was answered about.
LEMMA AnsweredFor ==
    ASSUME LossInv, faults = 0, NEW c \in Lambdas \cup Sensors,
           pc[c] \in {"known", "sent"}
    PROVE  Senders(Hash[cur[c]]) # {}
<1>1. c \notin Buckets /\ refused = {} /\ ClientInv(c)
  BY KindsAssumption DEF LossInv, CalmInv, DoneInv
<1>2. QED
  BY <1>1 DEF ClientInv, Had, Senders

LEMMA Unfailing ==
    ASSUME TypeInv, faults' = 0, Fault \/ NoFault
    PROVE  NoFault /\ ~Fault /\ faults = 0
  BY DEF TypeInv, FleetTypeOK, Fault, NoFault

LEMMA ActsCounted ==
    ASSUME TypeInv, NEW c \in Clients, Acts(c)
    PROVE  Fault \/ NoFault
  BY ExchangeType, RegistryType, EventType, SensorType
     DEF Acts, Expire, Crash, NukeDB

\* The items of a client that keeps its own, as it moves on.
LEMMA StillHealthy ==
    ASSUME NEW c \in Clients, Grow, HealthyInv(c),
           pc'[c] # "failed", pc'[c] \in Again => token'[c],
           c \in Lambdas \cup Sensors =>
             \A i \in Items[c] \ OutOfScope :
                /\ i \in Pending(c) => i \in Pending(c)' \/ Senders(Hash[i])' # {}
                /\ c \in Sensors /\ i \in unseen[c] =>
                        i \in unseen'[c] \/ i \in Pending(c)'
    PROVE  HealthyInv(c)'
<1>1. \A i \in Items[c] : Senders(Hash[i]) # {} => Senders(Hash[i])' # {}
  BY HashOfItem, GrowKeeps
<1>2. ASSUME c \in Lambdas \cup Sensors, NEW i \in Items[c] \ OutOfScope
      PROVE  \/ i \in Pending(c)'
             \/ c \in Sensors /\ i \in unseen'[c]
             \/ Senders(Hash[i])' # {}
  BY <1>1, <1>2 DEF HealthyInv
<1>3. QED
  BY <1>2 DEF HealthyInv

LEMMA ExchangeCalm ==
    ASSUME LossInv, faults = 0, ~Fault, NEW c \in Clients, Grow, Exchange(c),
           UNCHANGED sensor
    PROVE  UNCHANGED refused /\ HealthyInv(c)'
<1> USE DEF LossInv, DoneInv, TypeInv, FleetTypeOK, SessionTypeOK, Goto
<1>1. HealthyInv(c)
  BY DEF CalmInv
<1>2. CASE GoesOn(c)
  <2>1. PICK step \in {"known", "read"} \cup Submitting \cup Again :
            pc'[c] = step /\ (step \in Again => token'[c])
    BY <1>2 DEF GoesOn
  <2>2. step # "failed"
    BY DEF Submitting, Again
  <2>3. Pending(c)' = Pending(c) /\ UNCHANGED <<unseen, refused>>
    BY <1>2 DEF GoesOn, Pending, sensor, network
  <2>4. QED
    BY <1>1, <2>1, <2>2, <2>3, StillHealthy
<1>3. CASE IsAccepted(c)
  <2>1. pc'[c] = "sent" /\ "sent" \notin Again \cup {"failed"}
    BY <1>3 DEF IsAccepted, Again
  <2>2. Pending(c)' = Pending(c) /\ UNCHANGED <<unseen, refused>>
    BY <1>3 DEF IsAccepted, Pending, sensor
  <2>3. QED
    BY <1>1, <2>1, <2>2, StillHealthy
<1>4. ~IsRefused(c)
  BY <1>1 DEF IsRefused, HealthyInv, Again
<1>5. QED
  BY <1>2, <1>3, <1>4, Outcomes DEF Quits, Fails

LEMMA PassCalm ==
    ASSUME LossInv, faults = 0, NEW c \in Voltages \cup Buckets, Grow,
           PassMoves(c)
    PROVE  UNCHANGED refused /\ HealthyInv(c)'
<1> USE DEF LossInv, DoneInv, TypeInv, FleetTypeOK, SessionTypeOK, Goto
<1>1. HealthyInv(c) /\ c \notin Lambdas \cup Sensors
  BY KindsAssumption DEF CalmInv
<1>2. UNCHANGED refused
  BY DEF PassMoves, Begins, Finishes, WalkDir, AnalyzeObject, Main, Enter,
         GivesUp, Encode, network
<1>3. pc'[c] \in {"rest", "next", "query", "known", "encode"}
      \/ (UNCHANGED pc /\ pc[c] = "next")
  BY DEF PassMoves, Begins, Finishes, Ends, WalkDir, AnalyzeObject, Main, Enter,
         GivesUp, Encode
<1>4. QED
  BY <1>1, <1>2, <1>3, StillHealthy DEF Again

LEMMA EventCalm ==
    ASSUME LossInv, faults = 0, ~Fault, NEW c \in Clients, Grow, EventMoves(c)
    PROVE  UNCHANGED refused /\ HealthyInv(c)'
<1> USE DEF LossInv, DoneInv, TypeInv, FleetTypeOK, SessionTypeOK, Goto
<1>1. HealthyInv(c) /\ c \in Lambdas /\ c \notin Sensors
  BY KindsAssumption DEF CalmInv, EventMoves, ColdStart, Handler, Return
<1>2. UNCHANGED refused /\ pc'[c] \in {"next", "query"}
  BY DEF EventMoves, ColdStart, Handler, Return, network
<1>3. "next" \notin Again \cup {"failed"} /\ "query" \notin Again \cup {"failed"}
  BY DEF Again
<1>4. ASSUME NEW i \in Pending(c) \ OutOfScope, i \in Items[c]
      PROVE  i \in Pending(c)' \/ Senders(Hash[i])' # {}
  <2>1. CASE ColdStart(c)
    BY <1>4, <2>1 DEF ColdStart, Pending
  <2>2. CASE Handler(c)
    <3>1. cur[c] = NoItem
      BY <2>2 DEF Handler, OwnInv, HandInv, Busy
    <3>2. PICK j \in todo[c] :
            /\ todo' = [todo EXCEPT ![c] = @ \ {j}]
            /\ cur' = [cur EXCEPT ![c] = j] \/ j \in OutOfScope
      BY <2>2 DEF Handler, Take
    <3>3. (j # NoItem /\ UNCHANGED cur) \/ cur'[c] = j
      BY <2>2, <3>2, ItemsAssumption DEF Handler, Take
    <3>4. QED
      BY <1>4, <3>1, <3>2, <3>3, ItemsAssumption DEF Pending
  <2>3. CASE Return(c)
    <3>1. UNCHANGED todo
      BY <2>3 DEF Return
    <3>2. CASE i = cur[c]
      <4>1. Senders(Hash[i]) # {}
        BY <1>1, <2>3, <3>2, AnsweredFor DEF Return, HealthyInv
      <4>2. QED
        BY <1>4, <4>1, HashOfItem, GrowKeeps
    <3>3. CASE i # cur[c]
      BY <1>4, <3>1, <3>3 DEF Pending
    <3>4. QED
      BY <3>2, <3>3
  <2>4. QED
    BY <2>1, <2>2, <2>3 DEF EventMoves
<1>5. QED
  BY <1>1, <1>2, <1>3, <1>4, StillHealthy

LEMMA SensorCalm ==
    ASSUME LossInv, faults = 0, ~Fault, NEW c \in Clients, Grow, SensorMoves(c)
    PROVE  UNCHANGED refused /\ HealthyInv(c)'
<1> USE DEF LossInv, DoneInv, TypeInv, FleetTypeOK, SessionTypeOK, SensorTypeOK, Goto
<1>1. HealthyInv(c) /\ c \in Sensors /\ OwnInv(c)
  BY DEF CalmInv, SensorMoves, Observe, StartClient, LPop, ReadStored, Remove
<1>2. UNCHANGED refused
  BY DEF SensorMoves, Observe, StartClient, LPop, ReadStored, Remove, network
<1>3. /\ pc'[c] \in {"next", "query", "submit"} \/ (UNCHANGED <<pc, token>>)
  BY DEF SensorMoves, Observe, StartClient, LPop, ReadStored, Remove
<1>4. pc'[c] # "failed" /\ (pc'[c] \in Again => token'[c])
  BY <1>1, <1>3 DEF HealthyInv, Again
<1>5. CASE Observe(c)
  <2>1. PICK i \in unseen[c] : /\ unseen' = [unseen EXCEPT ![c] = @ \ {i}]
                               /\ todo' = [todo EXCEPT ![c] = @ \cup {i}]
    BY <1>5 DEF Observe
  <2>2. UNCHANGED cur
    BY <1>5 DEF Observe
  <2>3. QED
    BY <1>1, <1>2, <1>4, <2>1, <2>2, StillHealthy DEF Pending
<1>6. ASSUME ~Observe(c), NEW i \in Pending(c) \ OutOfScope, i \in Items[c]
      PROVE  i \in Pending(c)' \/ Senders(Hash[i])' # {}
  <2>1. CASE StartClient(c)
    BY <1>6, <2>1 DEF StartClient, Pending
  <2>2. CASE LPop(c)
    <3>1. cur[c] = NoItem
      BY <2>2 DEF LPop, OwnInv, HandInv, Busy
    <3>2. PICK j \in todo[c] :
            /\ todo' = [todo EXCEPT ![c] = @ \ {j}]
            /\ cur' = [cur EXCEPT ![c] = j] \/ j \in OutOfScope
      BY <2>2 DEF LPop, Take
    <3>3. QED
      BY <1>6, <3>1, <3>2, ItemsAssumption DEF Pending
  <2>3. CASE ReadStored(c)
    <3>1. UNCHANGED todo /\ pc[c] = "read"
      BY <2>3 DEF ReadStored
    <3>2. CASE i = cur[c] /\ Hash[i] \notin stored[c]
      <4>1. i \in Items[c] \ (OutOfScope \cup unseen[c])
        BY <1>1, <1>6 DEF OwnInv, StoredInv
      <4>2. filed[c][Hash[i]] > 0 /\ Hash[i] \in Hashes
        BY <1>1, <4>1, HashOfItem DEF OwnInv, StoredInv
      <4>3. Had(c, Hash[i])
        BY <1>1, <3>2, <4>2 DEF FileInv
      <4>4. Senders(Hash[i]) # {}
        BY <4>3 DEF Had, Senders, CalmInv
      <4>5. QED
        BY <4>2, <4>4, GrowKeeps
    <3>3. CASE i = cur[c] /\ Hash[i] \in stored[c]
      BY <1>6, <2>3, <3>3 DEF ReadStored, Pending
    <3>4. CASE i # cur[c]
      BY <1>6, <3>1, <3>4 DEF Pending
    <3>5. QED
      BY <3>2, <3>3, <3>4
  <2>4. CASE Remove(c)
    <3>1. UNCHANGED todo
      BY <2>4 DEF Remove
    <3>2. CASE i = cur[c]
      <4>1. Senders(Hash[i]) # {}
        BY <1>1, <2>4, <3>2, AnsweredFor DEF Remove, HealthyInv
      <4>2. QED
        BY <1>6, <4>1, HashOfItem, GrowKeeps
    <3>3. CASE i # cur[c]
      BY <1>6, <3>1, <3>3 DEF Pending
    <3>4. QED
      BY <3>2, <3>3
  <2>5. QED
    BY <1>6, <2>1, <2>2, <2>3, <2>4 DEF SensorMoves
<1>7. CASE ~Observe(c)
  <2>1. UNCHANGED unseen
    BY <1>7 DEF SensorMoves, StartClient, LPop, ReadStored, Remove, sensor
  <2>2. QED
    BY <1>1, <1>2, <1>4, <1>6, <1>7, <2>1, StillHealthy
<1>8. QED
  BY <1>5, <1>7

LEMMA ActsCalm ==
    ASSUME LossInv, faults = 0, ~Fault, NEW c \in Clients, Grow, Acts(c)
    PROVE  UNCHANGED refused /\ HealthyInv(c)'
<1>1. CASE Expire(c) /\ UNCHANGED sensor
  <2>1. /\ UNCHANGED <<pc, cur, todo, unseen, refused>>
        /\ pc[c] \notin Again /\ HealthyInv(c)
    BY <1>1 DEF Expire, Again, LossInv, CalmInv, sensor, network
  <2>2. QED
    BY <2>1, StillHealthy DEF Pending, HealthyInv
<1>2. ~Crash(c) /\ ~NukeDB(c)
  BY DEF Crash, NukeDB
<1>3. QED
  BY <1>1, <1>2, ExchangeCalm, PassCalm, EventCalm, SensorCalm DEF Acts

LEMMA NextCalm == LossInv /\ [Next]_vars => CalmInv'
<1> SUFFICES ASSUME LossInv, [Next]_vars, faults' = 0
             PROVE  refused' = {} /\ \A c \in Clients : HealthyInv(c)'
  BY DEF CalmInv
<1>1. TypeInv /\ DoneInv
  BY DEF LossInv, DoneInv
<1>2. ASSUME NEW c \in Clients, Acts(c)
      PROVE  refused' = {} /\ \A d \in Clients : HealthyInv(d)'
  <2>1. faults = 0 /\ ~Fault
    BY <1>1, <1>2, ActsCounted, Unfailing
  <2>2. Grow
    BY <1>1, <1>2, ActsGrow
  <2>3. UNCHANGED refused /\ HealthyInv(c)'
    BY <1>2, <2>1, <2>2, ActsCalm
  <2>4. ASSUME NEW d \in Clients \ {c} PROVE HealthyInv(d)'
    <3>1. /\ pc'[d] = pc[d] /\ token'[d] = token[d] /\ Pending(d)' = Pending(d)
          /\ d \in Sensors => unseen'[d] = unseen[d]
      BY <1>1, <1>2, StepOnly DEF OwnOnly, SensorOnly, Pending
    <3>2. HealthyInv(d)
      BY <2>1 DEF LossInv, CalmInv
    <3>3. QED
      BY <2>2, <3>1, <3>2, StillHealthy DEF HealthyInv
  <2>5. QED
    BY <2>1, <2>3, <2>4 DEF LossInv, CalmInv
<1>3. ASSUME Unnoticed, Grow, faults = 0
      PROVE  refused' = {} /\ \A d \in Clients : HealthyInv(d)'
  <2>1. refused' = {}
    BY <1>3 DEF Unnoticed, LossInv, CalmInv
  <2>2. ASSUME NEW d \in Clients PROVE HealthyInv(d)'
    <3>1. /\ pc'[d] = pc[d] /\ token'[d] = token[d] /\ Pending(d)' = Pending(d)
          /\ unseen'[d] = unseen[d]
      BY <1>3 DEF Unnoticed, Pending, sensor
    <3>2. HealthyInv(d)
      BY <1>3 DEF LossInv, CalmInv
    <3>3. QED
      BY <1>3, <3>1, <3>2, StillHealthy DEF HealthyInv
  <2>3. QED
    BY <2>1, <2>2
<1>4. CASE StoreMoves /\ UNCHANGED <<client, sensor>>
  <2>1. Grow
    BY <1>4, UnsentGrows DEF client, network
  <2>2. Fault \/ NoFault
    BY <1>4 DEF StoreMoves, DoWork, IndexDocument, DoWorkReturns, Stop
  <2>3. QED
    BY <1>1, <1>3, <1>4, <2>1, <2>2, NotActs, Unfailing
<1>5. ASSUME NEW p \in limbo, Arrives(p) /\ UNCHANGED sensor
      PROVE  refused' = {} /\ \A d \in Clients : HealthyInv(d)'
  <2>1. PICK c \in Clients, h \in Hashes : p = <<c, h>>
    BY <1>1 DEF TypeInv, FleetTypeOK, SessionTypeOK
  <2>2. Grow
    BY <1>1, <1>5, <2>1, AcceptedGrows DEF Arrives, Grow
  <2>3. QED
    BY <1>1, <1>3, <1>5, <2>2, NotActs, Unfailing DEF Arrives
<1>6. CASE UNCHANGED vars
  <2>1. Grow /\ faults = 0
    BY <1>6, UnsentGrows DEF vars, client, network
  <2>2. QED
    BY <1>3, <1>6, <2>1, NotActs
<1>7. QED
  BY <1>2, <1>4, <1>5, <1>6, NextActs

LEMMA InitCalm == Init => CalmInv
<1> SUFFICES ASSUME Init PROVE CalmInv
  OBVIOUS
<1>1. ASSUME NEW c \in Clients PROVE HealthyInv(c)
  BY KindsAssumption
     DEF Init, SessionInit, SensorInit, HealthyInv, Pending, Again
<1>2. QED
  BY <1>1 DEF CalmInv, Init, SessionInit

\* As long as nothing has failed, whatever a client is done with was accepted by
\* the server: no answer that a request was refused, no renewal of a token and no
\* other client's submission makes one forget a file.
THEOREM LosesNothing == Spec => []NothingLostWithoutFailure
<1>1. LossInv => NothingLostWithoutFailure
  <2> SUFFICES ASSUME LossInv, faults = 0, NEW c \in Clients,
                      NEW i \in Settled(c) \ OutOfScope
               PROVE  Senders(Hash[i]) # {}
    BY DEF NothingLostWithoutFailure
  <2>1. i \in Items[c] /\ i \in AllItems /\ Hash[i] \in Hashes
    BY HashOfItem DEF Settled
  <2>2. refused = {} /\ HealthyInv(c) /\ ClientInv(c)
    BY DEF LossInv, CalmInv, DoneInv
  <2>3. CASE c \in Voltages \cup Buckets
    BY <2>1, <2>2, <2>3, KindsAssumption DEF Settled, ClientInv, Kept, Answered
  <2>4. CASE c \in Lambdas \cup Sensors
    BY <2>1, <2>2, <2>4, KindsAssumption DEF Settled, HealthyInv
  <2>5. QED
    BY <2>3, <2>4
<1>2. Init => LossInv
  BY InitDone, InitOwn, InitCalm DEF LossInv
<1>3. LossInv /\ [Next]_vars => LossInv'
  BY NextDone, NextOwn, NextCalm DEF LossInv, DoneInv
<1>4. QED
  BY <1>1, <1>2, <1>3, PTL DEF Spec

-----------------------------------------------------------------------------
\* What a client has to show for its submissions: entries in its registry as it
\* is on disk or about to be, events it is done with, files stored and sent.
Saved(c, key) == key \in disk[c] \/ (pc[c] = "encode" /\ key \in registry[c])
Sent(c, h) == pc[c] = "sent" /\ Hash[cur[c]] = h

Finished(c, h) ==
    {i \in Copies(c, h) :
        \/ pc[c] = "sent" /\ cur[c] = i
        \/ c \in Buckets /\ Saved(c, i)
        \/ c \in Lambdas /\ i \notin Pending(c)}

Credit(c, h) ==
    IF c \in Voltages THEN Count(Saved(c, h) \/ Sent(c, h))
    ELSE IF c \in Sensors
         THEN filed[c][h] - Count(h \in stored[c] /\ ~Sent(c, h))
    ELSE Cardinality(Finished(c, h))

\* The submissions of h that c has made, and may find it has made.
Spent(c, h) == sends[c][h] + Count(<<c, h>> \in limbo)

SpentInv(c, h) == Spent(c, h) <= Credit(c, h) + faults * Setback(c, h)

LEMMA CountType ==
    /\ \A b : Count(b) \in 0 .. 1
    /\ Count(TRUE) = 1 /\ Count(FALSE) = 0
  BY DEF Count

LEMMA CopiesCount ==
    ASSUME NEW c \in Clients, NEW h
    PROVE  /\ Cardinality(Copies(c, h)) \in Nat
           /\ \A D \in SUBSET Copies(c, h) :
                /\ Cardinality(D) \in Nat
                /\ Cardinality(D) <= Cardinality(Copies(c, h))
                /\ \A E \in SUBSET D : Cardinality(E) <= Cardinality(D)
                /\ \A E \in SUBSET D : \A x \in D \ E :
                        Cardinality(E) + 1 <= Cardinality(D)
                /\ \A x : Cardinality(D) <= Cardinality(D \ {x}) + 1
<1>1. IsFiniteSet(Items[c]) /\ Copies(c, h) \subseteq Items[c]
  BY ItemsAssumption DEF Copies
<1>2. IsFiniteSet(Copies(c, h))
  BY <1>1, FS_Subset
<1>3. ASSUME NEW D, NEW E, IsFiniteSet(D), E \subseteq D
      PROVE  /\ IsFiniteSet(E) /\ Cardinality(E) \in Nat /\ Cardinality(D) \in Nat
             /\ Cardinality(E) <= Cardinality(D)
  BY <1>3, FS_Subset, FS_CardinalityType
<1>4. ASSUME NEW D, NEW E, IsFiniteSet(D), E \subseteq D, NEW x \in D \ E
      PROVE  Cardinality(E) + 1 <= Cardinality(D)
  <2>1. IsFiniteSet(D \ {x}) /\ Cardinality(D \ {x}) = Cardinality(D) - 1
    BY <1>4, FS_RemoveElement
  <2>2. E \subseteq D \ {x}
    BY <1>4
  <2>3. /\ Cardinality(E) <= Cardinality(D \ {x})
        /\ Cardinality(E) \in Nat /\ Cardinality(D) \in Nat
    BY <1>3, <1>4, <2>1, <2>2
  <2>4. QED
    BY <2>1, <2>3
<1>5. ASSUME NEW D \in SUBSET Copies(c, h), NEW x
      PROVE  Cardinality(D) <= Cardinality(D \ {x}) + 1
  <2>1. IsFiniteSet(D) /\ Cardinality(D) \in Nat
    BY <1>2, <1>3
  <2>2. Cardinality(D \ {x}) = IF x \in D THEN Cardinality(D) - 1 ELSE Cardinality(D)
    BY <2>1, FS_RemoveElement
  <2>3. QED
    BY <2>1, <2>2
<1>6. QED
  BY <1>2, <1>3, <1>4, <1>5

LEMMA Credits ==
    ASSUME TypeInv, NEW c \in Clients, NEW h \in Hashes
    PROVE  /\ c \in Voltages =>
                Credit(c, h) = Count(Saved(c, h) \/ Sent(c, h)) /\ Setback(c, h) = 1
           /\ c \in Sensors =>
                /\ Credit(c, h) = filed[c][h] - Count(h \in stored[c] /\ ~Sent(c, h))
                /\ filed[c][h] \in Nat /\ Setback(c, h) = 1
           /\ c \in Buckets =>
                /\ Credit(c, h) = Cardinality(Finished(c, h))
                /\ Setback(c, h) = Cardinality(Copies(c, h))
           /\ c \in Lambdas =>
                Credit(c, h) = Cardinality(Finished(c, h)) /\ Setback(c, h) = 1
           /\ Finished(c, h) \subseteq Copies(c, h)
           /\ Credit(c, h) \in Int /\ Setback(c, h) \in Nat /\ Spent(c, h) \in Nat
           /\ Credit(c, h) <= Allowance(c, h)
           /\ c \in Voltages \cup Buckets =>
                0 <= Credit(c, h) /\ Credit(c, h) <= Setback(c, h)
<1>1. Finished(c, h) \subseteq Copies(c, h)
  BY DEF Finished
<1>2. c \in Sensors => filed[c][h] \in Nat
  BY DEF TypeInv, FleetTypeOK, SensorTypeOK
<1>3. Spent(c, h) \in Nat
  BY CountType DEF Spent, TypeInv, FleetTypeOK, SessionTypeOK
<1>4. /\ Cardinality(Finished(c, h)) \in Nat /\ Cardinality(Copies(c, h)) \in Nat
      /\ Cardinality(Finished(c, h)) <= Cardinality(Copies(c, h))
  BY <1>1, CopiesCount
<1>5. CASE c \in Voltages
  <2>1. c \notin Buckets \cup Lambdas \cup Sensors
    BY <1>5, KindsAssumption
  <2>2. QED
    BY <1>1, <1>3, <1>5, <2>1, CountType DEF Credit, Setback, Allowance
<1>6. CASE c \in Sensors
  <2>1. c \notin Voltages \cup Buckets \cup Lambdas
    BY <1>6, KindsAssumption
  <2>2. QED
    BY <1>1, <1>2, <1>3, <1>6, <2>1, CountType DEF Credit, Setback, Allowance
<1>7. CASE c \in Buckets
  <2>1. c \notin Voltages \cup Lambdas \cup Sensors
    BY <1>7, KindsAssumption
  <2>2. QED
    BY <1>1, <1>3, <1>4, <1>7, <2>1 DEF Credit, Setback, Allowance
<1>8. CASE c \in Lambdas
  <2>1. c \notin Voltages \cup Buckets \cup Sensors
    BY <1>8, KindsAssumption
  <2>2. QED
    BY <1>1, <1>3, <1>4, <1>8, <2>1 DEF Credit, Setback, Allowance
<1>9. QED
  BY <1>5, <1>6, <1>7, <1>8

\* What a step may do to the account of c for h: nothing to its harm, or less harm
\* than the failure it was allows.
Pays(c, h) ==
    \/ /\ Fault \/ NoFault
       /\ Spent(c, h)' <= Spent(c, h) /\ Credit(c, h) <= Credit(c, h)'
    \/ /\ Fault
       /\ Spent(c, h)' <= Spent(c, h)
       /\ Credit(c, h) <= Credit(c, h)' + Setback(c, h)
    \/ /\ Fault
       /\ Spent(c, h)' <= Spent(c, h) + 1
       /\ Credit(c, h) + 1 <= Credit(c, h)' + Setback(c, h)
    \/ /\ Fault \/ NoFault
       /\ Spent(c, h)' <= Spent(c, h) + 1
       /\ Credit(c, h) + 1 <= Credit(c, h)'

LEMMA CreditType ==
    ASSUME NEW c \in Clients, NEW h \in Hashes, c \in Sensors => filed'[c][h] \in Nat
    PROVE  Credit(c, h)' \in Int
<1>1. Cardinality(Finished(c, h)') \in Nat
  <2>1. Finished(c, h)' \subseteq Copies(c, h)
    BY DEF Finished, Copies
  <2>2. QED
    BY <2>1, CopiesCount
<1>2. \/ Credit(c, h)' = Cardinality(Finished(c, h)')
      \/ \E b : Credit(c, h)' = Count(b)
      \/ c \in Sensors /\ \E b : Credit(c, h)' = filed'[c][h] - Count(b)
  BY Zenon DEF Credit
<1>3. QED
  BY <1>1, <1>2, CountType

LEMMA PaysOff ==
    ASSUME TypeInv, TypeInv', NEW c \in Clients, NEW h \in Hashes, SpentInv(c, h),
           Pays(c, h)
    PROVE  SpentInv(c, h)'
<1> DEFINE s == Setback(c, h)
           p == Spent(c, h)
           q == Spent(c, h)'
           k == Credit(c, h)
           l == Credit(c, h)'
           m == faults * s
<1>1. k \in Int /\ s \in Nat /\ p \in Nat
  BY Credits
<1>2. q \in Nat
  BY CountType DEF Spent, TypeInv, FleetTypeOK, SessionTypeOK
<1>3. l \in Int
  BY CreditType DEF TypeInv, FleetTypeOK, SensorTypeOK
<1>4. /\ (SpentInv(c, h) <=> p <= k + m)
      /\ (SpentInv(c, h)' <=> q <= l + faults' * s)
  BY DEF SpentInv, Setback, Copies
<1>5. faults \in Nat /\ (Fault => faults' * s = m + s) /\ (NoFault => faults' * s = m)
  <2>1. faults \in Nat
    BY DEF TypeInv, FleetTypeOK
  <2>2. (faults + 1) * s = m + s
    BY <1>1, <2>1
  <2> HIDE DEF m, s
  <2>3. QED
    BY <2>1, <2>2 DEF Fault, NoFault, m
<1>6. m \in Nat
  BY <1>1, <1>5
<1>7. \/ (Fault \/ NoFault) /\ q <= p /\ k <= l
      \/ Fault /\ q <= p /\ k <= l + s
      \/ Fault /\ q <= p + 1 /\ k + 1 <= l + s
      \/ (Fault \/ NoFault) /\ q <= p + 1 /\ k + 1 <= l
  BY DEF Pays
<1> HIDE DEF s, p, q, k, l, m
<1>8. QED
  BY <1>1, <1>2, <1>3, <1>4, <1>5, <1>6, <1>7

LEMMA SpendsNothing ==
    ASSUME TypeInv, NEW c \in Clients, NEW h \in Hashes, sends'[c][h] = sends[c][h],
           <<c, h>> \in limbo' => <<c, h>> \in limbo
    PROVE  Spent(c, h)' <= Spent(c, h)
<1>1. sends[c][h] \in Nat
  BY DEF TypeInv, FleetTypeOK, SessionTypeOK
<1>2. QED
  BY <1>1 DEF Spent, Count

LEMMA SpendsOne ==
    ASSUME TypeInv, NEW c \in Clients, NEW h \in Hashes, UNCHANGED sends
    PROVE  Spent(c, h)' <= Spent(c, h) + 1
<1>1. sends[c][h] \in Nat
  BY DEF TypeInv, FleetTypeOK, SessionTypeOK
<1>2. QED
  BY <1>1 DEF Spent, Count

\* A step before anything is sent that leaves all there is to show.
LEMMA CreditKept ==
    ASSUME TypeInv, NEW c \in Clients, NEW h \in Hashes, pc[c] # "sent",
           c \in Voltages \cup Buckets => \A key : Saved(c, key) => Saved(c, key)',
           c \in Lambdas => Pending(c)' \subseteq Pending(c),
           c \in Sensors => /\ filed'[c][h] = filed[c][h]
                            /\ h \in stored'[c] => h \in stored[c]
    PROVE  Credit(c, h) <= Credit(c, h)'
<1>1. CASE c \in Voltages
  BY <1>1, Credits, CountType DEF Credit, Sent, Count
<1>2. CASE c \in Sensors
  <2>1. c \notin Voltages
    BY <1>2, KindsAssumption
  <2>2. filed[c][h] \in Nat
    BY <1>2, Credits
  <2>3. QED
    BY <1>2, <2>1, <2>2 DEF Credit, Sent, Count
<1>3. CASE c \in Buckets \cup Lambdas
  <2>1. c \notin Voltages \cup Sensors
    BY <1>3, KindsAssumption
  <2>2. Finished(c, h) \subseteq Finished(c, h)' /\ Finished(c, h)' \subseteq Copies(c, h)
    BY <1>3, <2>1 DEF Finished, Copies
  <2>3. Cardinality(Finished(c, h)) <= Cardinality(Finished(c, h)')
    BY <2>2, CopiesCount
  <2>4. QED
    BY <2>1, <2>3 DEF Credit
<1>4. QED
  BY <1>1, <1>2, <1>3

LEMMA Nonnegative ==
    ASSUME NEW c \in Voltages \cup Buckets, NEW h \in Hashes
    PROVE  0 <= Credit(c, h)'
<1>1. c \notin Sensors
  BY KindsAssumption
<1>2. Finished(c, h)' \subseteq Copies(c, h)
  BY DEF Finished, Copies
<1>3. Cardinality(Finished(c, h)') \in Nat
  BY <1>2, CopiesCount
<1>4. QED
  BY <1>1, <1>3 DEF Credit, Count

\* What a failure costs a client that keeps count otherwise than by the event.
LEMMA FaultCost ==
    ASSUME TypeInv, NEW c \in Clients \ Lambdas, NEW h \in Hashes,
           c \in Sensors => filed'[c][h] = filed[c][h]
    PROVE  Credit(c, h) <= Credit(c, h)' + Setback(c, h)
<1>1. CASE c \in Voltages \cup Buckets
  <2>1. /\ Credit(c, h) <= Setback(c, h) /\ Credit(c, h) \in Int
        /\ Setback(c, h) \in Nat /\ 0 <= Credit(c, h)'
    BY <1>1, Credits, Nonnegative
  <2>2. Credit(c, h)' \in Int
    BY <1>1, CreditType, KindsAssumption
  <2>3. QED
    BY <2>1, <2>2
<1>2. CASE c \in Sensors
  <2>1. c \notin Voltages
    BY <1>2, KindsAssumption
  <2>2. filed[c][h] \in Nat /\ Setback(c, h) = 1
    BY <1>2, Credits
  <2>3. QED
    BY <1>2, <2>1, <2>2 DEF Credit, Count
<1>3. QED
  BY <1>1, <1>2

LEMMA AcceptedPays ==
    ASSUME TypeInv, NEW c \in Clients, OwnInv(c), IsAccepted(c), UNCHANGED sensor,
           NEW h \in Hashes
    PROVE  Pays(c, h)
<1> USE DEF TypeInv, FleetTypeOK, SessionTypeOK, SensorTypeOK, Goto
<1>1. /\ pc[c] \in Submitting /\ pc[c] \in Busy /\ pc'[c] = "sent"
      /\ pc[c] \notin {"sent", "encode", "rest"}
      /\ UNCHANGED <<cur, todo, registry, disk, limbo, stored, filed>>
      /\ sends' = [sends EXCEPT ![c][Hash[cur[c]]] = @ + 1] /\ NoFault
  BY DEF IsAccepted, Accepted, Own, books, Submitting, Busy, Steps, sensor
<1>2. cur[c] \in AllItems /\ Hash[cur[c]] \in Hashes /\ cur[c] # NoItem
  BY <1>1, HashesOfItems, ItemsAssumption
<1>3. /\ c \in Buckets \cup Lambdas => cur[c] \in Copies(c, Hash[cur[c]])
      /\ c \in Voltages => Hash[cur[c]] \notin disk[c]
      /\ c \in Buckets => cur[c] \notin disk[c]
      /\ c \in Sensors => Hash[cur[c]] \in stored[c]
  BY <1>1, <1>2 DEF OwnInv, HandInv, StoredInv, Pending, Copies
<1>4. CASE h = Hash[cur[c]]
  <2>1. Spent(c, h)' <= Spent(c, h) + 1
    BY <1>1, <1>4 DEF Spent, Count
  <2>2. Credit(c, h) + 1 <= Credit(c, h)'
    <3>1. CASE c \in Voltages
      BY <1>1, <1>3, <1>4, <3>1 DEF Credit, Saved, Sent, Count
    <3>2. CASE c \in Sensors
      <4>1. c \notin Voltages
        BY <3>2, KindsAssumption
      <4>2. filed[c][h] \in Nat
        BY <3>2
      <4>3. QED
        BY <1>1, <1>3, <1>4, <3>2, <4>1, <4>2 DEF Credit, Sent, Count
    <3>3. CASE c \in Buckets \cup Lambdas
      <4>1. c \notin Voltages \cup Sensors
        BY <3>3, KindsAssumption
      <4>2. /\ Finished(c, h) \subseteq Finished(c, h)'
            /\ cur[c] \in Finished(c, h)' \ Finished(c, h)
            /\ Finished(c, h)' \subseteq Copies(c, h)
        <5>1. c \in Buckets => c \notin Lambdas /\ ~Saved(c, cur[c])
          BY <1>1, <1>3, KindsAssumption DEF Saved
        <5>2. c \in Lambdas => c \notin Buckets
          BY KindsAssumption
        <5>3. cur[c] \in Copies(c, h) /\ Copies(c, h)' = Copies(c, h)
          BY <1>3, <1>4, <3>3 DEF Copies
        <5>4. cur[c] \in Finished(c, h)' /\ Finished(c, h)' \subseteq Copies(c, h)
          BY <1>1, <5>3 DEF Finished
        <5>5. cur[c] \notin Finished(c, h)
          BY <1>1, <1>2, <5>1, <5>2, <3>3 DEF Finished, Pending
        <5>6. ASSUME NEW i \in Finished(c, h) PROVE i \in Finished(c, h)'
          BY <1>1, <5>3, <5>6 DEF Finished, Pending, Saved
        <5>7. QED
          BY <5>4, <5>5, <5>6
      <4>3. /\ Cardinality(Finished(c, h)) + 1 <= Cardinality(Finished(c, h)')
        BY <4>2, CopiesCount
      <4>4. QED
        BY <4>1, <4>3 DEF Credit
    <3>4. QED
      BY <3>1, <3>2, <3>3
  <2>3. QED
    BY <1>1, <2>1, <2>2 DEF Pays
<1>5. CASE h # Hash[cur[c]]
  <2>1. sends'[c][h] = sends[c][h]
    BY <1>1, <1>2, <1>5
  <2>2. Spent(c, h)' <= Spent(c, h)
    BY <1>1, <2>1, SpendsNothing
  <2>3. Credit(c, h) <= Credit(c, h)'
    BY <1>1, CreditKept DEF Saved, Pending
  <2>4. QED
    BY <1>1, <2>2, <2>3 DEF Pays
<1>6. QED
  BY <1>4, <1>5

\* A failure that may leave a submission on its way: it allows for one more.
LEMMA SetbackOfOwn ==
    ASSUME TypeInv, NEW c \in Clients, OwnInv(c), pc[c] \in Busy
    PROVE  Setback(c, Hash[cur[c]]) >= 1
<1>1. cur[c] \in AllItems /\ Hash[cur[c]] \in Hashes /\ cur[c] # NoItem
  BY HashesOfItems, ItemsAssumption
<1>2. CASE c \in Buckets
  <2>1. cur[c] \in Copies(c, Hash[cur[c]])
    BY <1>1, <1>2 DEF OwnInv, HandInv, Pending, Copies
  <2>2. Cardinality({}) + 1 <= Cardinality(Copies(c, Hash[cur[c]]))
    BY <2>1, CopiesCount
  <2>3. Cardinality({}) = 0
    BY FS_EmptySet
  <2>4. QED
    BY <1>2, <2>2, <2>3 DEF Setback
<1>3. CASE c \notin Buckets
  BY <1>3 DEF Setback
<1>4. QED
  BY <1>2, <1>3

LEMMA LimboPays ==
    ASSUME TypeInv, NEW c \in Clients, OwnInv(c), NEW h \in Hashes, Fault,
           UNCHANGED sends, pc[c] \in Submitting,
           limbo' = limbo \/ limbo' = limbo \cup {Own(c)},
           Credit(c, h) <= Credit(c, h)', Credit(c, h)' \in Int
    PROVE  Pays(c, h)
<1>1. CASE h = Hash[cur[c]]
  <2>1. Setback(c, h) >= 1
    BY <1>1, SetbackOfOwn DEF Submitting, Busy, Steps
  <2>2. /\ Spent(c, h)' <= Spent(c, h) + 1
        /\ Credit(c, h) \in Int /\ Setback(c, h) \in Nat
    BY SpendsOne, Credits
  <2>3. Credit(c, h) + 1 <= Credit(c, h)' + Setback(c, h)
    BY <2>1, <2>2
  <2>4. QED
    BY <2>2, <2>3 DEF Pays
<1>2. CASE h # Hash[cur[c]]
  <2>1. <<c, h>> # <<c, Hash[cur[c]]>>
    BY <1>2
  <2>2. Spent(c, h)' <= Spent(c, h)
    BY <2>1, SpendsNothing DEF Own
  <2>3. QED
    BY <2>2 DEF Pays
<1>3. QED
  BY <1>1, <1>2

LEMMA ExchangePays ==
    ASSUME TypeInv, NEW c \in Clients, OwnInv(c), Exchange(c), UNCHANGED sensor,
           NEW h \in Hashes
    PROVE  Pays(c, h)
<1> USE DEF TypeInv, FleetTypeOK, SessionTypeOK, SensorTypeOK, Goto
<1>1. CASE IsAccepted(c)
  BY <1>1, AcceptedPays
<1>2. ASSUME ~IsAccepted(c) PROVE Credit(c, h) <= Credit(c, h)'
  <2>1. pc[c] \notin {"sent", "encode"} /\ UNCHANGED <<disk, stored, filed>>
    BY <1>2, Outcomes DEF Quits, GoesOn, Fails, IsRefused, Submitting, Again,
                          books, Ends, sensor
  <2>2. \A key : Saved(c, key) => Saved(c, key)'
    BY <2>1 DEF Saved
  <2>3. Pending(c)' \subseteq Pending(c)
    <3>1. CASE Quits(c)
      BY <3>1 DEF Quits, Ends, Pending
    <3>2. CASE ~Quits(c)
      BY <1>2, <3>2, Outcomes DEF GoesOn, Fails, IsRefused, Pending
    <3>3. QED
      BY <3>1, <3>2
  <2>4. QED
    BY <2>1, <2>2, <2>3, CreditKept
<1>3. CASE Quits(c) \/ GoesOn(c) \/ IsRefused(c)
  <2>1. Spent(c, h)' <= Spent(c, h)
    BY <1>3, SpendsNothing DEF Quits, GoesOn, IsRefused, network
  <2>2. Fault \/ NoFault
    BY <1>3 DEF Quits, GoesOn, IsRefused
  <2>3. CASE IsAccepted(c)
    BY <1>1, <2>3
  <2>4. CASE ~IsAccepted(c)
    BY <1>2, <2>1, <2>2, <2>4 DEF Pays
  <2>5. QED
    BY <2>3, <2>4
<1>4. CASE Fails(c) /\ ~IsAccepted(c)
  <2>1. CASE limbo' = limbo
    <3>1. Spent(c, h)' <= Spent(c, h)
      BY <1>4, <2>1, SpendsNothing DEF Fails
    <3>2. QED
      BY <1>2, <1>4, <3>1 DEF Fails, Pays
  <2>2. CASE limbo' # limbo
    <3>1. Credit(c, h)' \in Int
      BY CreditType DEF sensor
    <3>2. QED
      BY <1>2, <1>4, <2>2, <3>1, LimboPays DEF Fails
  <2>3. QED
    BY <2>1, <2>2
<1>5. QED
  BY <1>1, <1>3, <1>4, Outcomes

LEMMA PassPays ==
    ASSUME TypeInv, NEW c \in Voltages \cup Buckets, OwnInv(c), PassMoves(c),
           NEW h \in Hashes
    PROVE  Pays(c, h)
<1> USE DEF TypeInv, FleetTypeOK, SessionTypeOK, Goto
<1>1. c \notin Lambdas \cup Sensors /\ (c \in Buckets <=> c \notin Voltages)
  BY KindsAssumption
<1>2. UNCHANGED network /\ (Fault \/ NoFault)
  BY RegistryType
     DEF PassMoves, Begins, Finishes, WalkDir, AnalyzeObject, Main, Enter, GivesUp,
         Encode
<1>3. Spent(c, h)' <= Spent(c, h)
  BY <1>2, SpendsNothing DEF network
<1>4. Fault => Pays(c, h)
  BY <1>1, <1>3, FaultCost DEF Pays
<1> SUFFICES ASSUME NoFault, ~Fault PROVE Credit(c, h) <= Credit(c, h)'
  BY <1>2, <1>3, <1>4 DEF Pays
<1>5. ASSUME pc[c] \notin {"sent", "encode"}, UNCHANGED disk
      PROVE  Credit(c, h) <= Credit(c, h)'
  BY <1>1, <1>5, CreditKept DEF Saved
<1>6. CASE Begins(c) \/ Finishes(c) \/ WalkDir(c) \/ AnalyzeObject(c) \/ Main(c)
           \/ GivesUp(c)
  <2>1. pc[c] \in {"rest", "next", "failed"} /\ UNCHANGED disk
    BY <1>6 DEF Begins, Finishes, WalkDir, AnalyzeObject, Main, GivesUp, Ends, books
  <2>2. QED
    BY <1>5, <2>1
<1>7. CASE Encode(c)
  <2>1. /\ pc[c] = "encode" /\ disk'[c] = registry[c]
        /\ disk[c] \subseteq registry[c]
    BY <1>7 DEF Encode, OwnInv, HandInv
  <2>2. QED
    BY <1>1, <2>1, CreditKept DEF Saved
<1>8. ASSUME NEW key, Enter(c, key), pc[c] \in {"known", "sent"},
             c \in Voltages => key = Hash[cur[c]], c \in Buckets => key = cur[c]
      PROVE  Credit(c, h) <= Credit(c, h)'
  <2>1. /\ pc'[c] = "encode" /\ registry'[c] = registry[c] \cup {key}
        /\ disk[c] \subseteq registry[c]
    BY <1>8 DEF Enter, OwnInv, HandInv
  <2>2. \A k : Saved(c, k) \/ (pc[c] = "sent" /\ k = key) => Saved(c, k)'
    BY <1>8, <2>1 DEF Saved
  <2>3. CASE c \in Voltages
    <3>1. Saved(c, h) \/ Sent(c, h) => Saved(c, h)'
      BY <1>8, <2>2, <2>3 DEF Sent
    <3>2. QED
      BY <2>3, <3>1 DEF Credit, Count
  <2>4. CASE c \in Buckets
    <3>1. \A i : Saved(c, i) \/ (pc[c] = "sent" /\ i = cur[c]) => Saved(c, i)'
      BY <1>8, <2>2, <2>4
    <3>2. Finished(c, h) \subseteq Finished(c, h)'
      BY <1>1, <2>4, <3>1 DEF Finished, Copies
    <3>3. Finished(c, h)' \subseteq Copies(c, h)
      BY DEF Finished, Copies
    <3>4. Cardinality(Finished(c, h)) <= Cardinality(Finished(c, h)')
      BY <3>2, <3>3, CopiesCount
    <3>5. QED
      BY <1>1, <2>4, <3>4 DEF Credit
  <2>5. QED
    BY <2>3, <2>4
<1>9. QED
  BY <1>1, <1>6, <1>7, <1>8 DEF PassMoves

LEMMA EventPays ==
    ASSUME TypeInv, NEW c \in Clients, OwnInv(c), EventMoves(c), NEW h \in Hashes
    PROVE  Pays(c, h)
<1> USE DEF TypeInv, FleetTypeOK, SessionTypeOK, Goto
<1>1. c \in Lambdas /\ c \notin Voltages \cup Buckets \cup Sensors
  BY KindsAssumption DEF EventMoves, ColdStart, Handler, Return
<1>2. UNCHANGED network /\ (Fault \/ NoFault)
  BY DEF EventMoves, ColdStart, Handler, Return
<1>3. Spent(c, h)' <= Spent(c, h)
  BY <1>2, SpendsNothing DEF network
<1> SUFFICES Credit(c, h) <= Credit(c, h)'
  BY <1>2, <1>3 DEF Pays
<1>4. CASE ColdStart(c)
  <2>1. pc[c] = "rest" /\ UNCHANGED <<cur, todo>>
    BY <1>4 DEF ColdStart
  <2>2. QED
    BY <1>1, <2>1, CreditKept DEF Pending
<1>5. CASE Handler(c)
  <2>1. pc[c] = "next" /\ cur[c] = NoItem
    BY <1>5 DEF Handler, OwnInv, HandInv, Busy
  <2>2. PICK i \in todo[c] : /\ todo'[c] = todo[c] \ {i}
                             /\ cur'[c] \in {cur[c], i}
    BY <1>5 DEF Handler, Take
  <2>3. Pending(c)' \subseteq Pending(c)
    BY <2>1, <2>2 DEF Pending
  <2>4. QED
    BY <1>1, <2>1, <2>3, CreditKept
<1>6. CASE Return(c)
  <2>1. /\ UNCHANGED todo /\ cur'[c] = NoItem
        /\ cur[c] \notin todo[c]
    BY <1>1, <1>6 DEF Return, PutDown, OwnInv, HandInv
  <2>2. Finished(c, h) \subseteq Finished(c, h)' /\ Finished(c, h)' \subseteq Copies(c, h)
    BY <1>1, <2>1 DEF Finished, Copies, Pending
  <2>3. Cardinality(Finished(c, h)) <= Cardinality(Finished(c, h)')
    BY <2>2, CopiesCount
  <2>4. QED
    BY <1>1, <2>3 DEF Credit
<1>7. QED
  BY <1>4, <1>5, <1>6 DEF EventMoves

LEMMA SensorPays ==
    ASSUME TypeInv, NEW c \in Clients, OwnInv(c), SensorMoves(c), NEW h \in Hashes
    PROVE  Pays(c, h)
<1> USE DEF TypeInv, FleetTypeOK, SessionTypeOK, SensorTypeOK, Goto
<1>1. c \in Sensors /\ c \notin Voltages \cup Buckets \cup Lambdas
  BY KindsAssumption DEF SensorMoves, Observe, StartClient, LPop, ReadStored, Remove
<1>2. UNCHANGED network /\ (Fault \/ NoFault)
  BY DEF SensorMoves, Observe, StartClient, LPop, ReadStored, Remove
<1>3. Spent(c, h)' <= Spent(c, h)
  BY <1>2, SpendsNothing DEF network
<1>4. filed[c][h] \in Nat
  BY <1>1
<1>5. ASSUME pc[c] # "sent", UNCHANGED <<stored, filed>>
      PROVE  Pays(c, h)
  BY <1>1, <1>2, <1>3, <1>5, CreditKept DEF Pays
<1>6. CASE Observe(c)
  <2>1. PICK i \in unseen[c] :
          IF i \in OutOfScope THEN UNCHANGED <<stored, filed>> ELSE
             /\ stored' = [stored EXCEPT ![c] = @ \cup {Hash[i]}]
             /\ filed' = [filed EXCEPT ![c][Hash[i]] =
                              @ + Count(Hash[i] \notin stored[c])]
    BY <1>6 DEF Observe
  <2>2. UNCHANGED <<pc, cur>> /\ Sent(c, h)' = Sent(c, h)
    BY <1>6 DEF Observe, Sent
  <2>3. CASE UNCHANGED <<stored, filed>>
    BY <1>1, <1>2, <1>3, <1>4, <2>2, <2>3 DEF Credit, Count, Pays
  <2>4. CASE i \notin OutOfScope /\ h = Hash[i]
    <3>1. h \in stored'[c] /\ filed'[c][h] = filed[c][h] + Count(h \notin stored[c])
      BY <1>1, <2>1, <2>4
    <3>2. Credit(c, h) <= Credit(c, h)'
      BY <1>1, <1>4, <2>2, <3>1 DEF Credit, Count
    <3>3. QED
      BY <1>2, <1>3, <3>2 DEF Pays
  <2>5. CASE i \notin OutOfScope /\ h # Hash[i]
    <3>1. (h \in stored'[c] <=> h \in stored[c]) /\ filed'[c][h] = filed[c][h]
      BY <1>1, <2>1, <2>5
    <3>2. Credit(c, h) <= Credit(c, h)'
      BY <1>1, <1>4, <2>2, <3>1 DEF Credit, Count
    <3>3. QED
      BY <1>2, <1>3, <3>2 DEF Pays
  <2>6. QED
    BY <2>1, <2>3, <2>4, <2>5
<1>7. CASE StartClient(c) \/ LPop(c) \/ ReadStored(c)
  <2>1. pc[c] # "sent" /\ UNCHANGED <<stored, filed>>
    BY <1>7 DEF StartClient, LPop, ReadStored, sensor
  <2>2. QED
    BY <1>5, <2>1
<1>8. CASE Remove(c)
  <2>1. UNCHANGED filed /\ pc'[c] = "next"
    BY <1>8 DEF Remove
  <2>2. CASE Fault
    BY <1>1, <1>3, <2>1, <2>2, FaultCost DEF Pays
  <2>3. CASE ~Fault
    <3>1. stored'[c] = IF pc[c] = "sent" THEN stored[c] \ {Hash[cur[c]]} ELSE stored[c]
      BY <1>1, <1>8, <2>3 DEF Remove
    <3>2. Credit(c, h) <= Credit(c, h)'
      BY <1>1, <1>4, <2>1, <3>1 DEF Credit, Sent, Count
    <3>3. QED
      BY <1>2, <1>3, <3>2 DEF Pays
  <2>4. QED
    BY <2>2, <2>3
<1>9. QED
  BY <1>6, <1>7, <1>8 DEF SensorMoves

LEMMA AlonePays ==
    ASSUME TypeInv, NEW c \in Clients, OwnInv(c), UNCHANGED sensor,
           Expire(c) \/ Crash(c) \/ NukeDB(c), NEW h \in Hashes
    PROVE  Pays(c, h)
<1> USE DEF TypeInv, FleetTypeOK, SessionTypeOK, SensorTypeOK, Goto
<1>0. c \in Sensors => filed'[c][h] = filed[c][h] /\ filed[c][h] \in Nat
  BY DEF sensor
<1>1. CASE Expire(c)
  <2>1. Credit(c, h)' = Credit(c, h)
    BY <1>1 DEF Expire, Credit, Finished, Saved, Sent, Pending, Copies, books, sensor
  <2>2. Spent(c, h)' <= Spent(c, h)
    BY <1>1, SpendsNothing DEF Expire, network
  <2>3. Credit(c, h) \in Int
    BY Credits
  <2>4. QED
    BY <1>1, <2>1, <2>2, <2>3 DEF Expire, Pays
<1>2. CASE NukeDB(c)
  <2>1. Spent(c, h)' <= Spent(c, h)
    BY <1>2, SpendsNothing DEF NukeDB, network
  <2>2. c \notin Lambdas /\ Fault
    BY <1>2, KindsAssumption DEF NukeDB
  <2>3. QED
    BY <1>0, <2>1, <2>2, FaultCost DEF Pays
<1>3. CASE Crash(c)
  <2>1. /\ Fault /\ Ends(c) /\ UNCHANGED sends
        /\ UNCHANGED limbo \/ (pc[c] \in Submitting /\ limbo' = limbo \cup {Own(c)})
    BY <1>3 DEF Crash, Submitting
  <2>2. Credit(c, h)' \in Int
    BY <1>0, CreditType
  <2>3. CASE UNCHANGED limbo
    <3>1. Spent(c, h)' <= Spent(c, h)
      BY <2>1, <2>3, SpendsNothing
    <3>2. CASE c \notin Lambdas
      BY <1>0, <2>1, <3>1, <3>2, FaultCost DEF Pays
    <3>3. CASE c \in Lambdas
      <4>1. Pending(c)' \subseteq Pending(c) /\ pc'[c] = "rest"
        BY <2>1 DEF Ends, Pending
      <4>2. c \notin Voltages \cup Buckets \cup Sensors
        BY <3>3, KindsAssumption
      <4>3. CASE pc[c] # "sent"
        BY <2>1, <3>1, <4>1, <4>2, <4>3, CreditKept DEF Pays
      <4>4. CASE pc[c] = "sent"
        <5> DEFINE D == Finished(c, h) \ {cur[c]}
        <5>1. D \subseteq Finished(c, h)' /\ Finished(c, h)' \subseteq Copies(c, h)
              /\ Finished(c, h) \subseteq Copies(c, h)
          BY <3>3, <4>1, <4>2 DEF Finished, Copies
        <5>2. Cardinality(D) <= Cardinality(Finished(c, h)')
          BY <5>1, CopiesCount
        <5>3. Cardinality(Finished(c, h)) <= Cardinality(D) + 1
          BY <5>1, CopiesCount
        <5>4. /\ Cardinality(D) \in Nat /\ Cardinality(Finished(c, h)) \in Nat
              /\ Cardinality(Finished(c, h)') \in Nat
          BY <5>1, CopiesCount
        <5>5. Credit(c, h) <= Credit(c, h)' + 1 /\ Setback(c, h) = 1
          BY <4>2, <5>2, <5>3, <5>4 DEF Credit, Setback
        <5>6. QED
          BY <2>1, <3>1, <5>5 DEF Pays
      <4>5. QED
        BY <4>3, <4>4
    <3>4. QED
      BY <3>2, <3>3
  <2>4. CASE pc[c] \in Submitting /\ limbo' = limbo \cup {Own(c)}
    <3>1. pc[c] \notin {"sent", "encode"}
      BY <2>4 DEF Submitting
    <3>2. UNCHANGED <<disk, stored, filed>> /\ Pending(c)' \subseteq Pending(c)
      BY <2>1 DEF Ends, Pending, sensor
    <3>3. Credit(c, h) <= Credit(c, h)'
      BY <3>1, <3>2, CreditKept DEF Saved
    <3>4. QED
      BY <2>1, <2>2, <2>4, <3>3, LimboPays
  <2>5. QED
    BY <2>1, <2>3, <2>4
<1>4. QED
  BY <1>1, <1>2, <1>3

LEMMA ActsPays ==
    ASSUME TypeInv, NEW c \in Clients, OwnInv(c), Acts(c), NEW h \in Hashes
    PROVE  Pays(c, h)
  BY ExchangePays, PassPays, EventPays, SensorPays, AlonePays DEF Acts

\* A client none of whose affairs a step is.
LEMMA OthersPay ==
    ASSUME TypeInv, NEW d \in Clients, NEW h \in Hashes, Fault \/ NoFault,
           pc'[d] = pc[d], cur'[d] = cur[d], todo'[d] = todo[d],
           registry'[d] = registry[d], disk'[d] = disk[d],
           d \in Sensors => stored'[d] = stored[d] /\ filed'[d] = filed[d],
           Spent(d, h)' <= Spent(d, h)
    PROVE  Pays(d, h)
<1>1. Credit(d, h)' = Credit(d, h)
  <2>1. Sent(d, h)' = Sent(d, h) /\ Finished(d, h)' = Finished(d, h)
        /\ Saved(d, h)' = Saved(d, h)
    BY DEF Sent, Finished, Saved, Copies, Pending
  <2>2. QED
    BY <2>1 DEF Credit
<1>2. Credit(d, h) \in Int
  BY Credits
<1>3. QED
  BY <1>1, <1>2 DEF Pays

OnceInv ==
    /\ TypeInv
    /\ \A c \in Clients : OwnInv(c)
    /\ \A c \in Clients, h \in Hashes : SpentInv(c, h)

LEMMA NextOnce == OnceInv /\ [Next]_vars => OnceInv'
<1> SUFFICES ASSUME OnceInv, [Next]_vars PROVE OnceInv'
  OBVIOUS
<1>1. TypeInv /\ TypeInv' /\ \A c \in Clients : OwnInv(c)'
  BY NextType, NextOwn DEF OnceInv
<1> SUFFICES ASSUME NEW d \in Clients, NEW h \in Hashes PROVE SpentInv(d, h)'
  BY <1>1 DEF OnceInv
<1>2. SpentInv(d, h) /\ OwnInv(d)
  BY DEF OnceInv
<1> SUFFICES Pays(d, h)
  BY <1>1, <1>2, PaysOff
<1>3. ASSUME NEW c \in Clients, Acts(c) PROVE Pays(d, h)
  <2>1. CASE d = c
    BY <1>1, <1>2, <1>3, <2>1, ActsPays
  <2>2. CASE d # c
    <3>1. OwnOnly(c) /\ SensorOnly(c) /\ (Fault \/ NoFault)
      BY <1>1, <1>3, StepOnly, ActsCounted
    <3>2. Spent(d, h)' <= Spent(d, h)
      BY <1>1, <2>2, <3>1, SpendsNothing DEF OwnOnly
    <3>3. QED
      BY <1>1, <2>2, <3>1, <3>2, OthersPay DEF OwnOnly, SensorOnly
  <2>3. QED
    BY <2>1, <2>2
<1>4. ASSUME Unnoticed, Fault \/ NoFault, Spent(d, h)' <= Spent(d, h)
      PROVE  Pays(d, h)
  BY <1>1, <1>4, OthersPay DEF Unnoticed, sensor
<1>5. CASE StoreMoves /\ UNCHANGED <<client, sensor>>
  <2>1. Spent(d, h)' <= Spent(d, h)
    BY <1>1, <1>5, SpendsNothing DEF client, network
  <2>2. Fault \/ NoFault
    BY <1>5 DEF StoreMoves, DoWork, IndexDocument, DoWorkReturns, Stop
  <2>3. QED
    BY <1>4, <1>5, <2>1, <2>2, NotActs
<1>6. ASSUME NEW p \in limbo, Arrives(p) /\ UNCHANGED sensor PROVE Pays(d, h)
  <2>1. PICK c \in Clients, g \in Hashes : p = <<c, g>>
    BY <1>1 DEF TypeInv, FleetTypeOK, SessionTypeOK
  <2>2. limbo' = limbo \ {<<c, g>>} /\ <<c, g>> \in limbo /\ NoFault
    BY <1>6, <2>1 DEF Arrives
  <2>3. sends[d][h] \in Nat
    BY <1>1 DEF TypeInv, FleetTypeOK, SessionTypeOK
  <2>4. CASE Accepted(<<c, g>>)
    <3>1. sends' = [sends EXCEPT ![c][g] = @ + 1]
      BY <2>4 DEF Accepted
    <3>2. CASE <<d, h>> = <<c, g>>
      <4>1. sends'[d][h] = sends[d][h] + 1
        BY <1>1, <3>1, <3>2 DEF TypeInv, FleetTypeOK, SessionTypeOK
      <4>2. QED
        BY <1>4, <1>6, <2>2, <2>3, <3>2, <4>1, NotActs DEF Spent, Count
    <3>3. CASE <<d, h>> # <<c, g>>
      <4>1. sends'[d][h] = sends[d][h]
        BY <1>1, <3>1, <3>3 DEF TypeInv, FleetTypeOK, SessionTypeOK
      <4>2. Spent(d, h)' <= Spent(d, h)
        BY <1>1, <2>2, <4>1, SpendsNothing
      <4>3. QED
        BY <1>4, <1>6, <2>2, <4>2, NotActs
    <3>4. QED
      BY <3>2, <3>3
  <2>5. CASE UNCHANGED sends
    <3>1. Spent(d, h)' <= Spent(d, h)
      BY <1>1, <2>2, <2>5, SpendsNothing
    <3>2. QED
      BY <1>4, <1>6, <2>2, <3>1, NotActs
  <2>6. QED
    BY <1>6, <2>1, <2>4, <2>5 DEF Arrives
<1>7. CASE UNCHANGED vars
  <2>1. NoFault /\ Spent(d, h)' <= Spent(d, h)
    BY <1>1, <1>7, SpendsNothing DEF vars, client, network, NoFault
  <2>2. QED
    BY <1>4, <1>7, <2>1, NotActs
<1>8. QED
  BY <1>3, <1>5, <1>6, <1>7, NextActs

LEMMA InitOnce == Init => OnceInv
<1> SUFFICES ASSUME Init PROVE OnceInv
  OBVIOUS
<1>1. TypeInv /\ \A c \in Clients : OwnInv(c)
  BY InitType, InitOwn
<1>2. ASSUME NEW c \in Clients, NEW h \in Hashes PROVE SpentInv(c, h)
  <2>1. Spent(c, h) = 0 /\ faults = 0
    BY <1>2 DEF Init, SessionInit, Spent, Count
  <2>2. Credit(c, h) >= 0
    <3>1. CASE c \in Sensors
      <4>1. c \notin Voltages /\ filed[c][h] = 0 /\ h \notin stored[c]
        BY <3>1, KindsAssumption DEF Init, SensorInit
      <4>2. QED
        BY <3>1, <4>1 DEF Credit, Count
    <3>2. CASE c \notin Sensors
      <4>1. Cardinality(Finished(c, h)) \in Nat
        BY CopiesCount DEF Finished
      <4>2. QED
        BY <3>2, <4>1 DEF Credit, Count
    <3>3. QED
      BY <3>1, <3>2
  <2>3. Credit(c, h) \in Int /\ Setback(c, h) \in Nat
    BY <1>1, Credits
  <2>4. QED
    BY <2>1, <2>2, <2>3 DEF SpentInv
<1>3. QED
  BY <1>1, <1>2 DEF OnceInv

\* A client submits a content once for each file the design allows it, and more
\* than that only as often as something failed: the registries, the list in redis
\* and the file store of Suricata stand for every submission that was not made
\* again for a failure.
THEOREM NoNeedlessSubmission == Spec => []SubmittedOnce
<1>1. OnceInv => SubmittedOnce
  <2> SUFFICES ASSUME OnceInv, NEW c \in Clients, NEW h \in Hashes
               PROVE  sends[c][h] <= Allowance(c, h) + faults * Setback(c, h)
    BY DEF SubmittedOnce
  <2>1. Spent(c, h) <= Credit(c, h) + faults * Setback(c, h)
    BY DEF OnceInv, SpentInv
  <2>2. /\ Credit(c, h) \in Int /\ Credit(c, h) <= Allowance(c, h)
        /\ Setback(c, h) \in Nat /\ faults \in Nat /\ sends[c][h] \in Nat
    BY Credits DEF OnceInv, TypeInv, FleetTypeOK, SessionTypeOK
  <2>3. Allowance(c, h) \in Int
    BY <2>2, CopiesCount
       DEF Allowance, OnceInv, TypeInv, FleetTypeOK, SensorTypeOK
  <2>4. faults * Setback(c, h) \in Nat
    BY <2>2
  <2>5. sends[c][h] <= Spent(c, h) /\ Spent(c, h) \in Nat
    BY <2>2 DEF Spent, Count
  <2>6. QED
    BY <2>1, <2>2, <2>3, <2>4, <2>5
<1>2. QED
  BY <1>1, InitOnce, NextOnce, PTL DEF Spec
=============================================================================
