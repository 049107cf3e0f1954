------------------------- MODULE SensorReloadProofs -------------------------
(***************************************************************************)
(* Machine-checked proofs about SensorReload, for any events, editions,    *)
(* servers and debug levels, and any number of edits, signals, expired     *)
(* tokens, failures and stops.                                             *)
(***************************************************************************)
EXTENDS SensorReload, FiniteSetTheorems, TLAPS

-----------------------------------------------------------------------------
(* The inductive invariant                                                 *)

InHand == {"popped", "query", "auth", "requery", "submit", "auth2", "resubmit",
           "remove"}
Lost == Events \ (list \cup done \cup {cur})

\* The process is there with both its goroutines, or not at all; main holds an
\* event from LPop to the end of it.
ProcessInv ==
    /\ up <=> mon # "off"
    /\ up <=> at # "off"
    /\ cur # NoEvent <=> at \in InHand

\* Config is one edition that the checks accept, but while the monitor has the lock
\* and has not decoded all of it.
ConfigInv ==
    /\ mon \in {"lock", "decode", "close", "redis"} => got \in Editions
    /\ mon \in {"close", "redis"} => got \notin Bad /\ Config = Whole(got)
    /\ mon \in {"debug", "hash", "fetch", "lock"} =>
          \E e \in Editions \ Bad : Config = Whole(e)

\* From the poll that hears a signal to the end of the load, what was fetched is
\* no older than the signal.
HeardInv ==
    /\ signalled =< edition /\ signal >= 1
    /\ reload_hash_old =< signal /\ first =< signal
    /\ reload_hash_old = NoHash <=> first = NoHash
    /\ mon = "off" => reload_hash_old = NoHash
    /\ reload_hash_old = signal /\ signal # first =>
          /\ mon \in {"debug", "hash"} => loaded >= signalled
          /\ mon \in {"lock", "decode", "close", "redis"} => got >= signalled

\* An event in the request that a closed client cut is as good as lost.
DebtInv ==
    Cardinality(Lost) + (IF at = "popped" /\ ~snap.open THEN 1 ELSE 0) =< cuts

\* A renewed token is good for the server main submits to, or its event is mixed;
\* what main is about to delete was accepted, or is mixed.
TokenInv ==
    /\ at = "resubmit" => cur \in mixed \/ Takes(snap.query)
    /\ at = "remove" => cur \in accepted \cup mixed

SharedInv ==
    /\ SensorReloadTypeOK /\ ProcessInv /\ ConfigInv /\ SnapshotOfOneEdition
    /\ HeardInv /\ DebtInv /\ TokenInv /\ DeletionExplained

\* SensorReloadTypeOK in the parts that change together.
WorldType ==
    /\ edition \in Editions /\ signal \in Nat /\ level \in Nat /\ good \in Nat
    /\ list \subseteq Events /\ store \subseteq Events /\ accepted \subseteq Events
    /\ valid \in [Servers -> Nat]
CalmTyped == calm \in (0..MaxEvents) \X (0..MaxFaults)
MonitorType ==
    /\ up \in BOOLEAN /\ client \in BOOLEAN
    /\ Config \in [Fields -> {Zero} \cup Editions]
    /\ mon \in {"off", "debug", "hash", "fetch", "lock", "decode", "close", "redis"}
    /\ D \in Nat /\ debug_level_old \in Nat /\ reload_hash_old \in Nat \cup {Denied}
    /\ got \in {0} \cup Editions /\ air \in Nat /\ tries \in 0..MaxTries - 1
MainType ==
    /\ at \in {"off", "init", "top", "pop"} \cup InHand
    /\ snap \in [query : {Zero} \cup Editions, path : {Zero} \cup Editions,
                 open : BOOLEAN]
    /\ cur \in Events \cup {NoEvent} /\ url \in {Zero} \cup Editions
    /\ hv \in Servers \X Nat
SeenType ==
    signalled \in Editions /\ first \in Nat \cup {Denied} /\ loaded \in {0} \cup Editions
PastType == done \subseteq Events /\ mixed \subseteq Events /\ cuts \in Nat

Typed == WorldType /\ CalmTyped /\ MonitorType /\ MainType /\ SeenType /\ PastType

LEMMA TypeParts ==
    (SensorReloadTypeOK <=> Typed) /\ (SensorReloadTypeOK' <=> Typed')
BY DEF SensorReloadTypeOK, Typed, WorldType, CalmTyped, MonitorType, MainType, SeenType,
   PastType, InHand

\* A part keeps its type while its variables keep their values.
LEMMA TypeFrames ==
    ASSUME SensorReloadTypeOK
    PROVE  /\ UNCHANGED <<jsonair, world>> => WorldType'
           /\ Happens \/ Fault \/ UNCHANGED calm => CalmTyped'
           /\ UNCHANGED <<up, client, Config, monitor>> => MonitorType'
           /\ UNCHANGED main => MainType'
           /\ UNCHANGED seen => SeenType'
           /\ UNCHANGED past => PastType'
<1>1. UNCHANGED <<jsonair, world>> => WorldType'
  BY TypeParts DEF Typed, WorldType, jsonair, world
<1>2. Happens \/ Fault \/ UNCHANGED calm => CalmTyped'
  BY SensorAssumption DEF SensorReloadTypeOK, CalmTyped, calm, Happens, Fault
<1>3. UNCHANGED <<up, client, Config, monitor>> => MonitorType'
  BY TypeParts DEF Typed, MonitorType, monitor
<1>4. UNCHANGED main => MainType'
  BY TypeParts DEF Typed, MainType, main
<1>5. (UNCHANGED seen => SeenType') /\ (UNCHANGED past => PastType')
  BY TypeParts DEF Typed, SeenType, PastType, seen, past
<1>6. QED
  BY <1>1, <1>2, <1>3, <1>4, <1>5

LEMMA Basics ==
    /\ 1 \in Editions /\ 1 \in Editions \ Bad
    /\ \A e \in Editions : e \in Nat /\ e # Zero /\ Server[e] \in Servers
    /\ NoEvent \notin Events
    /\ \A S \in SUBSET Events : IsFiniteSet(S) /\ Cardinality(S) \in Nat
    /\ 0 \in 0..MaxTries - 1 /\ <<0, 0>> \in (0..MaxEvents) \X (0..MaxFaults)
BY SensorAssumption, FS_Subset, FS_CardinalityType DEF Editions, Servers, Zero

LEMMA SharedInvInit == Init => SharedInv
<1> SUFFICES ASSUME Init PROVE SharedInv
  OBVIOUS
<1>1. SensorReloadTypeOK
  <2>1. WorldType /\ CalmTyped
    BY Basics, SensorAssumption DEF Init, WorldType, CalmTyped, calm
  <2>2. MonitorType
    BY Basics DEF Init, MonitorType, Whole, NoLevel, NoHash
  <2>3. MainType
    BY Basics DEF Init, MainType, NoSnap, NoToken
  <2>4. SeenType /\ PastType
    BY Basics DEF Init, SeenType, PastType, NoHash
  <2>5. QED
    BY <2>1, <2>2, <2>3, <2>4, TypeParts DEF Typed
<1>2. ProcessInv /\ ConfigInv /\ SnapshotOfOneEdition
  BY DEF Init, ProcessInv, ConfigInv, SnapshotOfOneEdition, InHand, Holding
<1>3. HeardInv
  BY Basics DEF Init, HeardInv, NoHash
<1>4. DebtInv /\ TokenInv /\ DeletionExplained
  <2>1. Lost = {} /\ at = "off" /\ cuts = 0
    BY DEF Init, Lost
  <2>2. QED
    BY <2>1, FS_EmptySet DEF Init, DebtInv, TokenInv, DeletionExplained
<1>5. QED
  BY <1>1, <1>2, <1>3, <1>4 DEF SharedInv

-----------------------------------------------------------------------------
(* What does not concern main, and what does not concern the monitor       *)

LEMMA MainUntouched ==
    ASSUME SharedInv, UNCHANGED <<world, main, past>>
    PROVE  SnapshotOfOneEdition' /\ DebtInv' /\ TokenInv' /\ DeletionExplained'
BY DEF SharedInv, world, main, past, SnapshotOfOneEdition, DebtInv, Lost, TokenInv,
   Takes, DeletionExplained

LEMMA MonitorUntouched ==
    ASSUME SharedInv, UNCHANGED <<jsonair, up, Config, monitor, seen>>
    PROVE  ConfigInv' /\ HeardInv'
BY DEF SharedInv, jsonair, monitor, seen, ConfigInv, Whole, HeardInv

-----------------------------------------------------------------------------
(* Start and end of the process                                            *)

\* An end costs the event in hand, which is paid for with one cut.
LEMMA ExitKeeps ==
    ASSUME SharedInv, up, Exit, Fault \/ UNCHANGED calm
    PROVE  SharedInv'
<1> USE Basics, SensorAssumption DEF SharedInv
<1>1. SensorReloadTypeOK'
  <2>1. WorldType' /\ CalmTyped'
    BY TypeFrames DEF Exit
  <2>2. MonitorType'
    BY DEF Exit, MonitorType, Whole, NoLevel, NoHash
  <2>3. MainType'
    BY DEF Exit, MainType, NoSnap, NoToken
  <2>4. SeenType' /\ PastType'
    BY TypeParts DEF Typed, Exit, SeenType, PastType, NoHash
  <2>5. QED
    BY <2>1, <2>2, <2>3, <2>4, TypeParts DEF Typed
<1>2. ProcessInv' /\ ConfigInv' /\ SnapshotOfOneEdition' /\ TokenInv'
  BY DEF Exit, ProcessInv, ConfigInv, SnapshotOfOneEdition, TokenInv, InHand, Holding
<1>3. HeardInv'
  BY DEF Exit, HeardInv, SensorReloadTypeOK, jsonair, NoHash
<1>4. DebtInv'
  <2>1. Lost' = Lost \/ (Lost' = Lost \cup {cur} /\ cur \notin Lost)
    BY DEF Exit, Lost, world
  <2>2. Cardinality(Lost') =< Cardinality(Lost) + 1
    <3>1. IsFiniteSet(Lost) /\ Cardinality(Lost) \in Nat
      BY DEF Lost
    <3>2. cur \notin Lost => Cardinality(Lost \cup {cur}) = Cardinality(Lost) + 1
      BY <3>1, FS_AddElement
    <3>3. CASE Lost' = Lost
      BY ONLY <3>1, <3>3
    <3>4. CASE Lost' = Lost \cup {cur} /\ cur \notin Lost
      BY ONLY <3>1, <3>2, <3>4
    <3>5. QED
      BY ONLY <2>1, <3>3, <3>4
  <2>3. Cardinality(Lost) =< cuts /\ cuts' = cuts + 1 /\ at' = "off"
    BY DEF DebtInv, Exit, SensorReloadTypeOK, Lost
  <2>4. Cardinality(Lost) \in Nat /\ Cardinality(Lost') \in Nat /\ cuts \in Nat
    BY DEF Lost, SensorReloadTypeOK
  <2>5. QED
    BY <2>2, <2>3, <2>4 DEF DebtInv
<1>5. DeletionExplained'
  BY DEF Exit, DeletionExplained, world
<1>6. QED
  BY <1>1, <1>2, <1>3, <1>4, <1>5

LEMMA StartKeeps == ASSUME SharedInv, Start PROVE SharedInv'
<1> USE Basics, SensorAssumption DEF SharedInv
<1>1. /\ ~up /\ at = "off" /\ cur = NoEvent /\ edition \in Editions \ Bad
      /\ UNCHANGED <<jsonair, world, calm, D, reload_hash_old, got, tries, snap, cur,
                     url, seen, past, client>>
  BY DEF Start, ProcessInv, InHand, SensorReloadTypeOK
<1>2. SensorReloadTypeOK'
  <2>1. Config' \in [Fields -> {Zero} \cup Editions] /\ hv' \in Servers \X Nat
    BY <1>1, TypeParts DEF Typed, Start, Whole, WorldType
  <2>2. MonitorType' /\ MainType'
    BY <1>1, <2>1, TypeParts DEF Typed, Start, MonitorType, MainType, WorldType, jsonair
  <2>3. QED
    BY <1>1, <2>2, TypeFrames, TypeParts DEF Typed
<1>3. ProcessInv' /\ ConfigInv' /\ SnapshotOfOneEdition'
  BY <1>1 DEF Start, ProcessInv, ConfigInv, SnapshotOfOneEdition, InHand, Holding, Whole
<1>4. HeardInv'
  <2>1. mon = "off" /\ mon' = "debug"
    BY <1>1 DEF Start, ProcessInv
  <2>2. reload_hash_old = NoHash /\ first = NoHash
    BY <2>1 DEF HeardInv
  <2>3. QED
    BY <1>1, <2>1, <2>2 DEF HeardInv, jsonair, seen, NoHash
<1>5. DebtInv' /\ TokenInv' /\ DeletionExplained'
  BY <1>1 DEF Start, DebtInv, Lost, TokenInv, DeletionExplained, world, past
<1>6. QED
  BY <1>2, <1>3, <1>4, <1>5

-----------------------------------------------------------------------------
(* JSONAir and its users, and the servers                                  *)

LEMMA WorldKeeps == ASSUME SharedInv, World PROVE SharedInv'
<1> USE DEF SharedInv
<1>1. UNCHANGED <<process, first, loaded, past, list, store, accepted>> /\ Happens
  BY DEF World, Edit, Signal, SetLevel, ExpireJSONAir, ExpireHighvolt, world, seen
<1>2. CalmTyped' /\ MonitorType' /\ MainType' /\ PastType'
  BY <1>1, TypeFrames DEF process
<1>3. ProcessInv' /\ ConfigInv' /\ SnapshotOfOneEdition' /\ DebtInv' /\ DeletionExplained'
  BY <1>1 DEF process, monitor, main, past, ProcessInv, ConfigInv, Whole,
     SnapshotOfOneEdition, DebtInv, Lost, DeletionExplained
<1>4. CASE ~\E s \in Servers : ExpireHighvolt(s)
  <2>1. UNCHANGED valid /\ SeenType' /\ WorldType'
    <3>1. CASE Edit
      BY <3>1, TypeParts, SensorAssumption
         DEF Typed, Edit, WorldType, SeenType, Editions, world, seen
    <3>2. CASE Signal
      BY <3>2, TypeParts DEF Typed, Signal, WorldType, SeenType, world
    <3>3. CASE SetLevel
      BY <3>3, TypeParts DEF Typed, SetLevel, WorldType, SeenType, world, seen
    <3>4. CASE ExpireJSONAir
      BY <3>4, TypeParts DEF Typed, ExpireJSONAir, WorldType, SeenType, world, seen
    <3>5. QED
      BY <1>4, <3>1, <3>2, <3>3, <3>4 DEF World
  <2>2. TokenInv'
    BY <1>1, <2>1 DEF TokenInv, Takes, process, main, past
  <2>3. HeardInv'
    <3>1. /\ edition \in Int /\ signal \in Int /\ signalled \in Int /\ first \in Int
          /\ reload_hash_old \in Int /\ edition' >= edition /\ signal' >= signal
          /\ edition' \in Int /\ signal' \in Int
      BY <1>4, Basics DEF World, Edit, Signal, SetLevel, ExpireJSONAir,
         SensorReloadTypeOK, Denied
    <3>2. CASE Signal
      BY <1>1, <3>1, <3>2 DEF Signal, HeardInv, process, monitor
    <3>3. CASE ~Signal
      <4>1. UNCHANGED <<signal, signalled>>
        BY <1>4, <3>3 DEF World, Edit, SetLevel, ExpireJSONAir, seen
      <4>2. QED
        BY <1>1, <3>1, <4>1 DEF HeardInv, process, monitor
    <3>4. QED
      BY <3>2, <3>3
  <2>4. QED
    BY <1>2, <1>3, <2>1, <2>2, <2>3, TypeParts DEF Typed
<1>5. ASSUME NEW s \in Servers, ExpireHighvolt(s)
      PROVE  SharedInv'
  <2>1. WorldType' /\ SeenType'
    BY <1>5, TypeParts DEF Typed, ExpireHighvolt, WorldType, SeenType, jsonair, seen
  <2>2. TokenInv'
    BY <1>1, <1>5 DEF ExpireHighvolt, TokenInv, process, main, past
  <2>3. HeardInv'
    BY <1>5 DEF ExpireHighvolt, HeardInv, jsonair, seen, process, monitor
  <2>4. QED
    BY <1>2, <1>3, <2>1, <2>2, <2>3, TypeParts DEF Typed
<1>6. QED
  BY <1>4, <1>5

-----------------------------------------------------------------------------
(* Monitor_State                                                           *)

LEMMA PollKeeps ==
    ASSUME SharedInv, PollDebug \/ PollHash
    PROVE  SharedInv'
<1> USE DEF SharedInv
<1>1. CASE PollHash /\ Exit
  BY <1>1, ExitKeeps DEF PollHash, Watch
<1>2. CASE PollDebug
  <2>1. UNCHANGED <<jsonair, world, up, main, calm, Config, client, debug_level_old,
                    reload_hash_old, got, air, tries, seen, past>>
        /\ up /\ mon = "debug" /\ mon' = "hash" /\ D' \in {D, level}
    BY <1>2 DEF PollDebug, Watch, Steady
  <2>2. MonitorType'
    BY <2>1, TypeParts DEF Typed, MonitorType, WorldType
  <2>3. SensorReloadTypeOK'
    BY <2>1, <2>2, TypeFrames, TypeParts DEF Typed
  <2>4. ProcessInv' /\ ConfigInv' /\ HeardInv'
    BY <2>1 DEF ProcessInv, ConfigInv, Whole, HeardInv, jsonair, seen, main
  <2>5. QED
    BY <2>1, <2>3, <2>4, MainUntouched
<1>3. CASE PollHash /\ ~Exit
  <2> DEFINE h == IF air = good THEN signal ELSE Denied
  <2>1. /\ UNCHANGED <<jsonair, world, up, main, calm, Config, client, D, got, air,
                       tries, signalled, loaded, past>>
        /\ up /\ mon = "hash" /\ mon' = IF Heard(h) THEN "fetch" ELSE "debug"
        /\ debug_level_old' = D /\ reload_hash_old' = h
        /\ first' = IF first = NoHash THEN h ELSE first
    BY <1>3 DEF PollHash, Watch, Steady
  <2>2. h \in Nat \cup {Denied} /\ h # NoHash /\ h =< signal /\ signal \in Nat
        /\ signal >= 1 /\ Denied =< signal
    BY DEF HeardInv, SensorReloadTypeOK, Denied, NoHash
  <2>3. MonitorType' /\ SeenType'
    BY <2>1, <2>2, TypeParts DEF Typed, MonitorType, SeenType
  <2>4. SensorReloadTypeOK'
    BY <2>1, <2>3, TypeFrames, TypeParts DEF Typed
  <2>5. ProcessInv' /\ ConfigInv'
    BY <2>1 DEF ProcessInv, ConfigInv, Whole, main
  <2>6. HeardInv'
    <3>1. /\ signalled' =< edition' /\ signal' >= 1
          /\ reload_hash_old' =< signal' /\ first' =< signal'
          /\ reload_hash_old' = NoHash <=> first' = NoHash
          /\ mon' \in {"fetch", "debug"}
      BY <2>1, <2>2 DEF HeardInv, jsonair
    <3>2. ASSUME mon' = "debug", reload_hash_old' = signal', signal' # first'
          PROVE  loaded' >= signalled'
      <4>1. h = signal /\ ~Heard(h) /\ UNCHANGED <<signal, loaded, signalled>>
        BY <2>1, <3>2 DEF jsonair
      <4>2. CASE reload_hash_old = NoHash
        BY <2>1, <3>2, <4>1, <4>2 DEF HeardInv
      <4>3. CASE reload_hash_old = h /\ reload_hash_old # NoHash
        BY <2>1, <3>2, <4>1, <4>3 DEF HeardInv
      <4>4. QED
        BY <4>1, <4>2, <4>3 DEF Heard
    <3>3. QED
      BY <3>1, <3>2 DEF HeardInv
  <2>7. QED
    BY <2>1, <2>4, <2>5, <2>6, MainUntouched
<1>4. QED
  BY <1>1, <1>2, <1>3

LEMMA FetchKeeps ==
    ASSUME SharedInv, PollFails \/ FetchFails \/ Unauthorized \/ Fetch
    PROVE  SharedInv'
<1> USE DEF SharedInv
<1>1. CASE Exit /\ (Fault \/ UNCHANGED calm)
  BY <1>1, ExitKeeps DEF PollFails, FetchFails, Unauthorized, Fetch, Watch
<1>2. ASSUME NEW tok \in {air, good, NoToken}, ~Exit, up, mon = "fetch", NextTry(tok),
             Fault \/ UNCHANGED calm
      PROVE  SharedInv'
  <2>1. UNCHANGED <<jsonair, world, up, main, Config, client, mon, D, debug_level_old,
                    reload_hash_old, got, seen, past>>
        /\ tries + 1 < MaxTries /\ tries' = tries + 1 /\ air' = tok
    BY <1>2 DEF NextTry, Steady
  <2>2. MonitorType'
    BY <2>1, TypeParts, SensorAssumption DEF Typed, MonitorType, WorldType, NoToken
  <2>3. SensorReloadTypeOK'
    BY <1>2, <2>1, <2>2, TypeFrames, TypeParts DEF Typed
  <2>4. ProcessInv' /\ ConfigInv' /\ HeardInv'
    BY <2>1 DEF ProcessInv, ConfigInv, Whole, HeardInv, jsonair, seen, main
  <2>5. QED
    BY <2>1, <2>3, <2>4, MainUntouched
<1>3. CASE Fetch
  <2>1. UNCHANGED <<jsonair, world, up, main, calm, Config, client, D, debug_level_old,
                    reload_hash_old, air, seen, past>>
        /\ up /\ mon = "fetch" /\ mon' = "lock" /\ got' = edition /\ tries' = 0
    BY <1>3 DEF Fetch, Watch, Steady
  <2>2. MonitorType'
    BY <2>1, TypeParts, Basics DEF Typed, MonitorType, WorldType
  <2>3. SensorReloadTypeOK'
    BY <2>1, <2>2, TypeFrames, TypeParts DEF Typed
  <2>4. ProcessInv' /\ ConfigInv' /\ HeardInv'
    BY <2>1 DEF ProcessInv, ConfigInv, Whole, HeardInv, SensorReloadTypeOK, jsonair,
       seen, main
  <2>5. QED
    BY <2>1, <2>3, <2>4, MainUntouched
<1>4. QED
  BY <1>1, <1>2, <1>3 DEF PollFails, FetchFails, Unauthorized, Watch, NextTry

LEMMA LoadKeeps ==
    ASSUME SharedInv, Lock \/ Decode \/ Check \/ Close \/ Redis
    PROVE  SharedInv'
<1> USE DEF SharedInv
<1>1. CASE Exit
  BY <1>1, ExitKeeps DEF Lock, Decode, Check, Close, Redis, Watch, Exit, calm, Steady,
     Fault
<1>2. CASE Lock
  <2>1. UNCHANGED <<jsonair, world, up, main, calm, D, debug_level_old,
                    reload_hash_old, got, air, tries, seen, past>>
        /\ up /\ mon = "lock" /\ mon' = "decode" /\ Config' = Whole(Zero)
        /\ client' = FALSE
    BY <1>2 DEF Lock, Watch, Steady
  <2>2. MonitorType'
    BY <2>1, TypeParts DEF Typed, MonitorType, Whole
  <2>3. SensorReloadTypeOK'
    BY <2>1, <2>2, TypeFrames, TypeParts DEF Typed
  <2>4. ProcessInv' /\ ConfigInv' /\ HeardInv'
    BY <2>1 DEF ProcessInv, ConfigInv, HeardInv, jsonair, seen, main
  <2>5. QED
    BY <2>1, <2>3, <2>4, MainUntouched
<1>3. CASE Decode
  <2>1. UNCHANGED <<jsonair, world, up, main, calm, client, monitor, seen, past>>
        /\ up /\ mon = "decode" /\ got \in Editions
        /\ \E f \in Fields : Config' = [Config EXCEPT ![f] = got]
    BY <1>3 DEF Decode, Watch, Steady, ConfigInv
  <2>2. MonitorType'
    BY <2>1, TypeParts DEF Typed, MonitorType, monitor
  <2>3. SensorReloadTypeOK'
    BY <2>1, <2>2, TypeFrames, TypeParts DEF Typed
  <2>4. ProcessInv' /\ ConfigInv' /\ HeardInv'
    BY <2>1 DEF ProcessInv, ConfigInv, HeardInv, jsonair, seen, main, monitor
  <2>5. QED
    BY <2>1, <2>3, <2>4, MainUntouched
<1>4. CASE Check /\ ~Exit
  <2>1. UNCHANGED <<jsonair, world, up, main, calm, Config, client, D, debug_level_old,
                    reload_hash_old, got, air, tries, seen, past>>
        /\ up /\ mon = "decode" /\ mon' = "close" /\ got \notin Bad
        /\ Config = Whole(got)
    BY <1>4 DEF Check, Watch, Steady
  <2>2. MonitorType'
    BY <2>1, TypeParts DEF Typed, MonitorType
  <2>3. SensorReloadTypeOK'
    BY <2>1, <2>2, TypeFrames, TypeParts DEF Typed
  <2>4. ProcessInv' /\ ConfigInv' /\ HeardInv'
    BY <2>1 DEF ProcessInv, ConfigInv, Whole, HeardInv, jsonair, seen, main
  <2>5. QED
    BY <2>1, <2>3, <2>4, MainUntouched
<1>5. CASE Close
  <2>1. /\ UNCHANGED <<jsonair, world, calm, up, Config, client, D, debug_level_old,
                       reload_hash_old, got, air, tries, at, cur, url, hv, seen,
                       done, mixed>>
        /\ up /\ mon = "close" /\ mon' = "redis" /\ cuts' = cuts + 1
        /\ snap' = [snap EXCEPT !.open = FALSE]
    BY <1>5 DEF Close, Watch
  <2>2. MonitorType' /\ MainType' /\ PastType'
    <3>1. MonitorType' /\ PastType'
      BY <2>1, TypeParts DEF Typed, MonitorType, PastType
    <3>2. MainType
      BY TypeParts DEF Typed
    <3>3. MainType'
      BY ONLY <2>1, <3>2 DEF MainType
    <3>4. QED
      BY <3>1, <3>3
  <2>3. SensorReloadTypeOK'
    BY <2>1, <2>2, TypeFrames, TypeParts DEF Typed
  <2>4. ProcessInv' /\ ConfigInv' /\ HeardInv'
    BY <2>1 DEF ProcessInv, ConfigInv, Whole, HeardInv, jsonair, seen
  <2>5. snap'.query = snap.query /\ snap'.path = snap.path
    BY <2>1 DEF SensorReloadTypeOK
  <2>6. SnapshotOfOneEdition' /\ TokenInv' /\ DeletionExplained'
    BY <2>1, <2>5 DEF SnapshotOfOneEdition, TokenInv, Takes, DeletionExplained, world
  <2>7. DebtInv'
    <3>1. Lost' = Lost /\ Cardinality(Lost) \in Nat /\ cuts \in Nat
      BY <2>1, Basics DEF Lost, world, SensorReloadTypeOK
    <3>2. QED
      BY <2>1, <3>1 DEF DebtInv
  <2>8. QED
    BY <2>3, <2>4, <2>6, <2>7
<1>6. CASE Redis /\ ~Exit
  <2>1. UNCHANGED <<jsonair, world, up, main, calm, Config, D, debug_level_old,
                    reload_hash_old, air, tries, signalled, first, past>>
        /\ up /\ mon = "redis" /\ mon' = "debug" /\ client' = TRUE /\ got' = 0
        /\ loaded' = got
    BY <1>6 DEF Redis, Watch, Steady
  <2>2. MonitorType' /\ SeenType'
    BY <2>1, TypeParts DEF Typed, MonitorType, SeenType
  <2>3. SensorReloadTypeOK'
    BY <2>1, <2>2, TypeFrames, TypeParts DEF Typed
  <2>4. ProcessInv' /\ ConfigInv' /\ HeardInv'
    BY <2>1 DEF ProcessInv, ConfigInv, Whole, HeardInv, jsonair, main
  <2>5. QED
    BY <2>1, <2>3, <2>4, MainUntouched
<1>7. QED
  BY <1>1, <1>2, <1>3, <1>4, <1>5, <1>6

-----------------------------------------------------------------------------
(* main                                                                    *)

\* From one event to the next: a snapshot is taken, and an event, if there is one.
LEMMA NextEventKeeps ==
    ASSUME SharedInv, MainRedis \/ Snapshot \/ LPop \/ NoRecords \/ Popped
    PROVE  SharedInv'
<1> USE DEF SharedInv
<1>1. CASE MainRedis /\ Exit
  <2>1. up /\ (Fault \/ UNCHANGED calm)
    BY ONLY <1>1 DEF MainRedis, Runs, Quiet
  <2>2. QED
    BY <1>1, <2>1, ExitKeeps
<1>2. CASE MainRedis /\ ~Exit
  <2>1. /\ UNCHANGED <<jsonair, world, calm, up, Config, monitor, seen, snap, cur, url,
                       hv, past>>
        /\ up /\ at = "init" /\ at' = "top" /\ client' = TRUE
    BY <1>2 DEF MainRedis, Runs, Quiet
  <2>2. MonitorType /\ MainType
    BY TypeParts DEF Typed
  <2>3. MonitorType'
    BY ONLY <2>1, <2>2 DEF MonitorType, monitor
  <2>4. MainType'
    BY ONLY <2>1, <2>2 DEF MainType
  <2>5. SensorReloadTypeOK'
    BY <2>1, <2>3, <2>4, TypeFrames, TypeParts DEF Typed
  <2>6. ProcessInv' /\ SnapshotOfOneEdition' /\ DebtInv' /\ TokenInv' /\ DeletionExplained'
    BY <2>1 DEF ProcessInv, SnapshotOfOneEdition, DebtInv, Lost, TokenInv,
       DeletionExplained, InHand, Holding, world, past, monitor
  <2>7. QED
    BY <2>1, <2>5, <2>6, MonitorUntouched
<1>3. CASE Snapshot
  <2>1. /\ UNCHANGED <<jsonair, world, calm, up, Config, client, monitor, seen, cur, url,
                       hv, past>>
        /\ up /\ at = "top" /\ at' = "pop" /\ ~Locked
        /\ snap' = [query |-> Config["url"], path |-> Config["rest"], open |-> client]
    BY <1>3 DEF Snapshot, Runs, Quiet
  <2>2. PICK e \in Editions \ Bad : Config = Whole(e)
    BY <2>1 DEF ConfigInv, ProcessInv, Locked, SensorReloadTypeOK
  <2>3. snap' = [query |-> e, path |-> e, open |-> client]
    BY <2>1, <2>2 DEF Whole, Fields
  <2>4. MainType'
    BY <2>1, <2>3, TypeParts DEF Typed, MainType, MonitorType
  <2>5. SensorReloadTypeOK'
    BY <2>1, <2>4, TypeFrames, TypeParts DEF Typed
  <2>6. ProcessInv' /\ SnapshotOfOneEdition' /\ DebtInv' /\ TokenInv' /\ DeletionExplained'
    BY <2>1, <2>3 DEF ProcessInv, SnapshotOfOneEdition, DebtInv, Lost, TokenInv,
       DeletionExplained, InHand, Holding, world, past, monitor
  <2>7. QED
    BY <2>1, <2>5, <2>6, MonitorUntouched
<1>4. CASE LPop
  <2>1. /\ UNCHANGED <<jsonair, calm, up, Config, client, monitor, seen, snap, url, hv,
                       past, store, accepted, valid>>
        /\ up /\ at = "pop" /\ at' = "popped" /\ snap.open /\ cur = NoEvent
        /\ cur' \in list /\ list' = list \ {cur'}
    BY <1>4 DEF LPop, Runs, Quiet, ProcessInv, InHand
  <2>2. MainType' /\ WorldType' /\ cur' \in Events /\ cur' # NoEvent
    BY <2>1, TypeParts, Basics DEF Typed, MainType, WorldType, InHand, jsonair
  <2>3. SensorReloadTypeOK'
    BY <2>1, <2>2, TypeFrames, TypeParts DEF Typed
  <2>4. ProcessInv' /\ SnapshotOfOneEdition' /\ TokenInv' /\ DeletionExplained'
    BY <2>1, <2>2 DEF ProcessInv, SnapshotOfOneEdition, TokenInv, DeletionExplained,
       InHand, Holding, past, monitor
  <2>5. DebtInv'
    <3>1. Lost' = Lost
      BY <2>1, Basics DEF Lost, past
    <3>2. QED
      BY <2>1, <3>1 DEF DebtInv, past
  <2>6. QED
    BY <2>1, <2>3, <2>4, <2>5, MonitorUntouched
<1>5. CASE NoRecords
  <2>1. /\ UNCHANGED <<jsonair, world, calm, up, Config, client, monitor, seen, snap, cur,
                       url, hv, past>>
        /\ up /\ at = "pop" /\ at' = "top"
    BY <1>5 DEF NoRecords, Runs, Quiet
  <2>2. MainType'
    BY <2>1, TypeParts DEF Typed, MainType
  <2>3. SensorReloadTypeOK'
    BY <2>1, <2>2, TypeFrames, TypeParts DEF Typed
  <2>4. ProcessInv' /\ SnapshotOfOneEdition' /\ DebtInv' /\ TokenInv' /\ DeletionExplained'
    BY <2>1 DEF ProcessInv, SnapshotOfOneEdition, DebtInv, Lost, TokenInv,
       DeletionExplained, InHand, Holding, world, past, monitor
  <2>5. QED
    BY <2>1, <2>3, <2>4, MonitorUntouched
<1>6. CASE Popped
  <2>1. /\ UNCHANGED <<jsonair, world, calm, up, Config, client, monitor, seen, snap,
                       url, hv, past>>
        /\ up /\ at = "popped" /\ cur # NoEvent
        /\ \/ snap.open /\ at' = "query" /\ cur' = cur
           \/ ~snap.open /\ at' = "top" /\ cur' = NoEvent
    BY <1>6 DEF Popped, Runs, Quiet, ProcessInv, InHand
  <2>2. MainType'
    BY <2>1, TypeParts DEF Typed, MainType, InHand
  <2>3. SensorReloadTypeOK'
    BY <2>1, <2>2, TypeFrames, TypeParts DEF Typed
  <2>4. ProcessInv' /\ SnapshotOfOneEdition' /\ TokenInv' /\ DeletionExplained'
    BY <2>1 DEF ProcessInv, SnapshotOfOneEdition, TokenInv, DeletionExplained,
       InHand, Holding, world, past, monitor
  <2>5. DebtInv'
    <3>1. IsFiniteSet(Lost) /\ Cardinality(Lost) \in Nat /\ cuts \in Nat
      BY Basics DEF Lost, SensorReloadTypeOK
    <3>2. CASE snap.open
      BY <2>1, <3>2 DEF DebtInv, Lost, world, past
    <3>3. CASE ~snap.open
      <4>1. Lost' = Lost \/ Lost' = Lost \cup {cur}
        <5>1. UNCHANGED <<list, done>> /\ cur' = NoEvent /\ cur \in Events
          BY <2>1, <3>3, TypeParts DEF Typed, MainType, world, past
        <5>2. NoEvent \notin Events
          BY Basics
        <5>3. QED
          BY ONLY <5>1, <5>2 DEF Lost
      <4>2. Cardinality(Lost \cup {cur}) =< Cardinality(Lost) + 1
            /\ Cardinality(Lost \cup {cur}) \in Nat
        <5>1. Cardinality(Lost \cup {cur})
                = IF cur \in Lost THEN Cardinality(Lost) ELSE Cardinality(Lost) + 1
          BY ONLY <3>1, FS_AddElement
        <5>2. QED
          BY ONLY <3>1, <5>1
      <4>3. Cardinality(Lost) + 1 =< cuts /\ UNCHANGED cuts /\ at' = "top"
        <5>1. at = "popped" /\ ~snap.open /\ at' = "top" /\ UNCHANGED cuts
          BY <2>1, <3>3 DEF past, InHand
        <5>2. DebtInv
          OBVIOUS
        <5>3. QED
          BY ONLY <5>1, <5>2 DEF DebtInv
      <4>4. Cardinality(Lost') =< cuts
        <5>1. CASE Lost' = Lost
          BY ONLY <3>1, <4>3, <5>1
        <5>2. CASE Lost' = Lost \cup {cur}
          BY ONLY <3>1, <4>2, <4>3, <5>2
        <5>3. QED
          BY <4>1, <5>1, <5>2
      <4>5. Cardinality(Lost') \in Nat
        BY Basics DEF Lost
      <4>6. QED
        BY <3>1, <4>3, <4>4, <4>5 DEF DebtInv
    <3>4. QED
      BY <3>2, <3>3
  <2>6. QED
    BY <2>1, <2>3, <2>4, <2>5, MonitorUntouched
<1>7. QED
  BY <1>1, <1>2, <1>3, <1>4, <1>5, <1>6

\* The exchange about the event in hand, token renewals included.
LEMMA ExchangeKeeps ==
    ASSUME SharedInv,
           \/ Query \/ Submit \/ Resubmit
           \/ Runs("auth") /\ PAT_Auth("requery")
           \/ Runs("auth2") /\ PAT_Auth("resubmit")
    PROVE  SharedInv'
<1> USE DEF SharedInv
<1>0. cur \in Events /\ cur # NoEvent
  BY DEF Query, Submit, Resubmit, Runs, ProcessInv, InHand, SensorReloadTypeOK
<1>1. CASE Query
  <2>1. /\ UNCHANGED <<jsonair, world, calm, up, Config, client, monitor, seen, snap, hv,
                       mixed, cuts>>
        /\ up /\ at \in {"query", "requery"}
        /\ \/ at' = "top" /\ cur' = NoEvent /\ done' = done \cup {cur} /\ url' = url
           \/ at' = "submit" /\ UNCHANGED <<cur, url, done>>
           \/ at' = "auth" /\ UNCHANGED <<cur, done>> /\ url' = Config["url"]
    BY <1>1 DEF Query, Runs, Quiet
  <2>2. Config["url"] \in {Zero} \cup Editions
    BY DEF SensorReloadTypeOK, Fields
  <2>3. MainType' /\ PastType'
    BY <1>0, <2>1, <2>2, TypeParts DEF Typed, MainType, PastType, InHand
  <2>4. SensorReloadTypeOK'
    BY <2>1, <2>3, TypeFrames, TypeParts DEF Typed
  <2>5. ProcessInv' /\ SnapshotOfOneEdition' /\ TokenInv' /\ DeletionExplained'
    BY <1>0, <2>1 DEF ProcessInv, SnapshotOfOneEdition, TokenInv, DeletionExplained,
       InHand, Holding, world, monitor
  <2>6. DebtInv'
    <3>1. Lost' = Lost /\ at' # "popped" /\ at # "popped" /\ cuts' = cuts
      BY <2>1, Basics DEF Lost, world
    <3>2. QED
      BY <3>1 DEF DebtInv
  <2>7. QED
    BY <2>1, <2>4, <2>5, <2>6, MonitorUntouched
<1>2. CASE Submit
  <2>1. /\ UNCHANGED <<jsonair, calm, up, Config, client, monitor, seen, snap, hv, cur,
                       past, list, store, valid>>
        /\ up /\ at = "submit"
        /\ \/ at' = "remove" /\ accepted' = accepted \cup {cur} /\ url' = url
           \/ at' = "auth2" /\ accepted' = accepted /\ url' = Config["url"]
    BY <1>2 DEF Submit, Runs, Quiet
  <2>2. Config["url"] \in {Zero} \cup Editions
    BY DEF SensorReloadTypeOK, Fields
  <2>3. MainType' /\ WorldType'
    BY <1>0, <2>1, <2>2, TypeParts DEF Typed, MainType, WorldType, InHand, jsonair
  <2>4. SensorReloadTypeOK'
    BY <2>1, <2>3, TypeFrames, TypeParts DEF Typed
  <2>5. ProcessInv' /\ SnapshotOfOneEdition' /\ TokenInv' /\ DeletionExplained' /\ DebtInv'
    BY <2>1 DEF ProcessInv, SnapshotOfOneEdition, TokenInv, DeletionExplained, DebtInv,
       Lost, InHand, Holding, past, monitor
  <2>6. QED
    BY <2>1, <2>4, <2>5, MonitorUntouched
<1>3. CASE Resubmit
  <2>1. /\ UNCHANGED <<jsonair, calm, up, Config, client, monitor, seen, snap, hv, cur, url,
                       past, list, store, valid>>
        /\ up /\ at = "resubmit" /\ at' = "remove"
        /\ accepted' = IF Takes(snap.query) THEN accepted \cup {cur} ELSE accepted
    BY <1>3 DEF Resubmit, Runs, Quiet
  <2>2. MainType' /\ WorldType'
    BY <1>0, <2>1, TypeParts DEF Typed, MainType, WorldType, InHand, jsonair
  <2>3. SensorReloadTypeOK'
    BY <2>1, <2>2, TypeFrames, TypeParts DEF Typed
  <2>4. cur \in accepted' \cup mixed
    BY <2>1 DEF TokenInv
  <2>5. ProcessInv' /\ SnapshotOfOneEdition' /\ TokenInv' /\ DeletionExplained' /\ DebtInv'
    BY <2>1, <2>4 DEF ProcessInv, SnapshotOfOneEdition, TokenInv, DeletionExplained,
       DebtInv, Lost, InHand, Holding, past, monitor
  <2>6. QED
    BY <2>1, <2>3, <2>5, MonitorUntouched
<1>4. ASSUME NEW next \in {"requery", "resubmit"}, up, at \in {"auth", "auth2"},
             PAT_Auth(next)
      PROVE  SharedInv'
  <2>1. CASE Exit
    BY <1>4, <2>1, ExitKeeps DEF PAT_Auth
  <2>2. CASE ~Exit
    <3>1. PICK tok \in {<<Server[1], NoToken>>, <<Server[url], valid[Server[url]]>>} :
              /\ hv' = tok /\ at' = next
              /\ mixed' = IF url # snap.query \/ tok[2] = NoToken
                          THEN mixed \cup {cur} ELSE mixed
              /\ url = Zero => tok = <<Server[1], NoToken>>
              /\ UNCHANGED <<jsonair, world, up, Config, client, monitor,
                             snap, cur, url, seen, done, cuts>>
              /\ Fault \/ UNCHANGED calm
      <4>1. CASE url = Zero
        BY <1>4, <2>2, <4>1 DEF PAT_Auth
      <4>2. CASE url # Zero
        BY <1>4, <2>2, <4>2 DEF PAT_Auth
      <4>3. QED
        BY <4>1, <4>2
    <3>2. hv' \in Servers \X Nat
      <4>1. CASE url = Zero
        BY <3>1, <4>1, Basics DEF NoToken
      <4>2. CASE url # Zero
        <5>1. url \in Editions /\ Server[url] \in Servers
          BY <4>2, Basics DEF SensorReloadTypeOK
        <5>2. valid[Server[url]] \in Nat
          BY <5>1 DEF SensorReloadTypeOK
        <5>3. QED
          BY <3>1, <5>1, <5>2, Basics DEF NoToken
      <4>3. QED
        BY <4>1, <4>2
    <3>3. MainType' /\ PastType'
      BY <1>0, <1>4, <3>1, <3>2, TypeParts DEF Typed, MainType, PastType, InHand
    <3>4. SensorReloadTypeOK'
      BY <3>1, <3>3, TypeFrames, TypeParts DEF Typed
    <3>5. ProcessInv' /\ SnapshotOfOneEdition' /\ DeletionExplained' /\ DebtInv'
      BY <1>0, <1>4, <3>1 DEF ProcessInv, SnapshotOfOneEdition, DeletionExplained, DebtInv,
         Lost, InHand, Holding, world, monitor
    <3>6. cur' \in mixed' \/ Takes(snap.query)'
      <4>1. CASE url # snap.query \/ tok[2] = NoToken
        BY <3>1, <4>1
      <4>2. CASE url = snap.query /\ tok[2] # NoToken
        <5>1. tok = <<Server[url], valid[Server[url]]>>
          BY <3>1, <4>2
        <5>2. QED
          BY <3>1, <4>2, <5>1 DEF Takes, world
      <4>3. QED
        BY <4>1, <4>2
    <3>7. TokenInv'
      BY <1>4, <3>1, <3>6 DEF TokenInv
    <3>8. QED
      BY <3>1, <3>4, <3>5, <3>7, MonitorUntouched
  <2>3. QED
    BY <2>1, <2>2
<1>5. QED
  BY <1>1, <1>2, <1>3, <1>4 DEF Runs

LEMMA RemoveKeeps == ASSUME SharedInv, Remove PROVE SharedInv'
<1> USE DEF SharedInv
<1>1. /\ UNCHANGED <<jsonair, calm, up, Config, client, monitor, seen, snap, hv, url,
                     list, accepted, valid, mixed, cuts>>
      /\ up /\ at = "remove" /\ at' = "top" /\ store' = store \ {cur}
      /\ done' = done \cup {cur} /\ cur' = NoEvent
      /\ cur \in Events /\ cur # NoEvent /\ cur \in accepted \cup mixed
  BY DEF Remove, Runs, Quiet, ProcessInv, InHand, TokenInv, SensorReloadTypeOK
<1>2. MainType' /\ WorldType' /\ PastType'
  BY <1>1, TypeParts DEF Typed, MainType, WorldType, PastType, jsonair
<1>3. SensorReloadTypeOK'
  BY <1>1, <1>2, TypeFrames, TypeParts DEF Typed
<1>4. ProcessInv' /\ SnapshotOfOneEdition' /\ TokenInv' /\ DeletionExplained'
  BY <1>1 DEF ProcessInv, SnapshotOfOneEdition, TokenInv, DeletionExplained, InHand,
     Holding, monitor
<1>5. DebtInv'
  <2>1. Lost' = Lost
    BY <1>1, Basics DEF Lost
  <2>2. QED
    BY <1>1, <2>1 DEF DebtInv
<1>6. QED
  BY <1>1, <1>3, <1>4, <1>5, MonitorUntouched

-----------------------------------------------------------------------------
(* The theorems                                                            *)

LEMMA SharedInvStep == SharedInv /\ [Next]_vars => SharedInv'
<1> SUFFICES ASSUME SharedInv, [Next]_vars PROVE SharedInv'
  OBVIOUS
<1>1. CASE UNCHANGED vars
  <2>1. UNCHANGED <<jsonair, world, calm, up, Config, client, monitor, main, seen, past>>
    BY <1>1 DEF vars, process
  <2>2. SensorReloadTypeOK'
    BY <2>1, TypeFrames, TypeParts DEF Typed, SharedInv
  <2>3. ProcessInv'
    BY <2>1 DEF SharedInv, ProcessInv, monitor, main
  <2>4. QED
    BY <2>1, <2>2, <2>3, MainUntouched, MonitorUntouched DEF SharedInv
<1>2. CASE StartRefused
  BY <1>1, <1>2 DEF StartRefused
<1>3. CASE SigHandler
  BY <1>3, ExitKeeps DEF SigHandler
<1>4. CASE World \/ Start
  BY <1>4, WorldKeeps, StartKeeps
<1>5. CASE Monitor_State \/ PollFails \/ FetchFails
  BY <1>5, PollKeeps, FetchKeeps, LoadKeeps DEF Monitor_State
<1>6. CASE Main
  BY <1>6, NextEventKeeps, ExchangeKeeps, RemoveKeeps DEF Main
<1>7. QED
  BY <1>1, <1>2, <1>3, <1>4, <1>5, <1>6 DEF Next

\* For any events, editions and servers, and whatever is edited, signalled, expires
\* or fails: main works with one accepted edition for each event, a closed redis
\* client costs an event at most, and no reload signal is missed.
THEOREM SensorCorrect == Spec => []SensorInv
<1>1. SharedInv => SensorInv
  <2> SUFFICES ASSUME SharedInv PROVE SensorInv
    OBVIOUS
  <2> USE DEF SharedInv
  <2>1. CutCostsOneEvent
    <3>1. Cardinality(Lost) =< cuts
      BY Basics DEF DebtInv, Lost, SensorReloadTypeOK
    <3>2. QED
      BY <3>1 DEF CutCostsOneEvent, Lost
  <2>2. NoSensorReloadMissed
    BY DEF NoSensorReloadMissed, HeardInv
  <2>3. QED
    BY <2>1, <2>2 DEF SensorInv
<1>2. QED
  BY <1>1, SharedInvInit, SharedInvStep, PTL DEF Spec

\* Whatever happens in whatever order, a file that no server accepted is deleted only
\* if its token was renewed for another configuration, or got no answer.
THEOREM DeletionsExplained == Spec => []DeletionExplained
<1>1. SharedInv => DeletionExplained
  BY DEF SharedInv
<1>2. QED
  BY <1>1, SharedInvInit, SharedInvStep, PTL DEF Spec
=============================================================================
