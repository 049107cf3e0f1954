------------------------ MODULE ServerLifetimeProofs ------------------------
(***************************************************************************)
(* Machine-checked proofs about ServerLifetime, for any connections, both, *)
(* either or none of the monitors, any environments, and any number of     *)
(* attempts, edits, signals and failures.                                  *)
(***************************************************************************)
EXTENDS ServerLifetime, TLAPS

-----------------------------------------------------------------------------
(* The inductive invariant                                                 *)

\* Where main is before it has a configuration, while it builds the server from
\* it, and afterwards.
BeforeLoad == {"notify", "env", "auth", "fetch", "lock", "defaults", "decode"}
Building == {"go", "debug", "write_backends", "max_workers", "haproxy_enabled",
             "monitors", "context", "cert", "http_listen"}
Serving == {"drop", "serving", "draining"}
Holding == {"defaults", "decode"}
LoaderPlaces == {"off", "wait", "sleep", "fetch", "lock"} \cup Holding

\* Where main is before it starts a goroutine.
Before(l) ==
    IF l = "reload" THEN BeforeLoad \cup (Building \ {"context", "cert", "http_listen"})
                    ELSE BeforeLoad \cup {"go"}

PlaceInv ==
    /\ Up => pc["main"] \in BeforeLoad \cup Building \cup Serving
    /\ \A l \in Loaders : pc[l] \in LoaderPlaces
    /\ ~Up => \A t \in Threads : pc[t] = "off"
    /\ \A l \in Loaders : Up /\ pc["main"] \in Before(l) => pc[l] = "off"

\* Who is past GetConfigJSON has an edition to load.
GotInv ==
    \A t \in Threads : pc[t] \in {"lock"} \cup Holding => got[t] \in Editions

\* ConfigMu is held by the thread that is between the reset and the decoding.
LockInv == \A t \in Threads : pc[t] \in Holding <=> lock = t

\* main reads nothing before it has loaded.  From then on models.C is decoded to the
\* end whenever nobody holds ConfigMu, and what main has read since it was is from it.
BuildInv ==
    /\ ~Up \/ pc["main"] \in BeforeLoad =>
          calm = {} /\ torn = {} /\ \A s \in Settings : used[s] = Unread
    /\ lock # NoOne => calm = {}
    /\ Up /\ pc["main"] \in Building \cup Serving /\ lock = NoOne =>
          \E e \in Editions : C = Decoded(e) /\ \A s \in calm : used[s] = e
    /\ \A s \in Settings : used[s] \in {Zero, Default} => s \in torn

BootInv == LifetimeTypeOK /\ PlaceInv /\ GotInv /\ LockInv /\ BuildInv

LEMMA FollowingPlaces ==
    /\ Steps = {"notify", "env", "auth", "drop"} \cup Building
    /\ \A s \in {"notify", "env", "auth"} : Following[s] \in {"env", "auth", "fetch"}
    /\ \A s \in Building \ {"http_listen"} : Following[s] \in Building
    /\ Following["http_listen"] = "drop" /\ Following["drop"] = "serving"
    /\ \A s \in Building \ {"go", "monitors"} : \A l \in Loaders :
          Following[s] \in Before(l) => s \in Before(l)
    /\ Following["go"] = "debug" /\ Following["monitors"] = "context"
BY DEF Steps, Following, Building, Before, BeforeLoad

LEMMA ThreadNames ==
    /\ "main" \in Threads /\ "main" \notin Loaders
    /\ "hup" \in Loaders /\ "hup" \in Threads
    /\ Threads = Loaders \cup {"main"} /\ Monitors \subseteq Loaders
    /\ Loaders \subseteq {"poll", "reload", "hup"}
    /\ "http_listen" \in Settings /\ Settings \subseteq Building
    /\ 1 \in Editions /\ NoOne \notin Threads
    /\ \A e \in Editions : e \notin {Unread, Zero, Default}
BY LifetimeAssumption DEF Threads, Loaders, Settings, Building, Editions, NoOne,
                          Unread, Zero, Default

LEMMA BootInvInit == Init => BootInv
<1> SUFFICES ASSUME Init PROVE BootInv
  OBVIOUS
<1> USE ThreadNames, FollowingPlaces, LifetimeAssumption
<1>0. <<>> \in Seq(Signals) /\ Len(<<>>) =< Buffer /\ 0 \in 0..MaxTries - 1
  BY DEF Buffer
<1>1. LifetimeTypeOK
  <2>1. /\ env \in Environments /\ edition \in Editions
        /\ C \in [Settings -> {Zero, Default} \cup Editions]
        /\ used \in [Settings -> {Unread, Zero, Default} \cup Editions]
    BY DEF Init
  <2>2. /\ got \in [Threads -> {0} \cup Editions]
        /\ tries \in [Threads -> 0..MaxTries - 1]
    BY <1>0 DEF Init
  <2>3. /\ pc \in [Threads -> Steps \cup {"off", "wait", "sleep", "fetch", "lock",
                                      "defaults", "decode", "serving", "draining"}]
    BY DEF Init
  <2>4. /\ channel \in Seq(Signals) /\ Len(channel) =< Buffer
        /\ lock \in Threads \cup {NoOne}
    BY <1>0 DEF Init
  <2>5. /\ ctx \in {"none", "live", "done"}
        /\ connection \in [Connections -> {"idle", "busy", "cut"}]
        /\ exit \in {"running", "failed", "killed", "panic", "stopped", "drained", "timeout"}
        /\ sent \in 0..MaxSignals /\ faults \in 0..MaxFaults
    <3>1. exit = "running" /\ ctx = "none"
      BY DEF Init
    <3>2. connection = [k \in Connections |-> "idle"] /\ sent = 0 /\ faults = 0
      BY DEF Init
    <3>3. 0 \in 0..MaxSignals /\ 0 \in 0..MaxFaults
      OBVIOUS
    <3>4. QED
      BY ONLY <3>1, <3>2, <3>3
  <2>6. owed = FALSE /\ pool = FALSE /\ torn = {} /\ calm = {}
    BY DEF Init
  <2>7. QED
    BY ONLY <2>1, <2>2, <2>3, <2>4, <2>5, <2>6 DEF LifetimeTypeOK
<1>2. PlaceInv /\ GotInv
  BY DEF Init, PlaceInv, GotInv, Up, BeforeLoad, LoaderPlaces, Holding
<1>3. LockInv
  BY DEF Init, LockInv, Holding
<1>4. BuildInv
  <2>1. /\ Up /\ pc["main"] = "notify" /\ lock = NoOne /\ torn = {} /\ calm = {}
        /\ \A s \in Settings : used[s] = Unread
    BY DEF Init, Up
  <2>2. pc["main"] \notin Building \cup Serving
    BY <2>1 DEF Building, Serving
  <2>3. QED
    BY <2>1, <2>2 DEF BuildInv, Unread, Zero, Default
<1>5. QED
  BY <1>1, <1>2, <1>3, <1>4 DEF BootInv

-----------------------------------------------------------------------------
(* The end of the process                                                  *)

LEMMA EndKeeps ==
    ASSUME BootInv, Up,
           NEW how \in {"failed", "killed", "panic", "stopped", "drained", "timeout"},
           End(how), sent' \in 0..MaxSignals, faults' \in 0..MaxFaults
    PROVE  BootInv'
<1> USE ThreadNames, FollowingPlaces, LifetimeAssumption DEF BootInv
<1>0. <<>> \in Seq(Signals) /\ Len(<<>>) =< Buffer /\ 0 \in 0..MaxTries - 1
  BY DEF Buffer
<1>1. LifetimeTypeOK'
  BY <1>0 DEF End, Forget, LifetimeTypeOK
<1>2. ~Up' /\ lock' = NoOne /\ \A t \in Threads : pc'[t] = "off"
  BY DEF End, Up
<1>3. PlaceInv' /\ GotInv' /\ LockInv'
  BY <1>2 DEF PlaceInv, GotInv, LockInv, LoaderPlaces, Holding
<1>4. calm' = {} /\ torn' = {} /\ \A s \in Settings : used'[s] = Unread
  BY DEF End, Forget
<1>5. BuildInv'
  BY <1>2, <1>4 DEF BuildInv, Unread, Zero, Default
<1>6. QED
  BY <1>1, <1>3, <1>5

LEMMA FaultCounts == ASSUME LifetimeTypeOK, Fault PROVE faults' \in 0..MaxFaults
BY LifetimeAssumption DEF Fault, LifetimeTypeOK

LEMMA FailKeeps == ASSUME BootInv, Up, Fail PROVE BootInv'
<1>1. End("failed") /\ sent' \in 0..MaxSignals /\ faults' \in 0..MaxFaults
  BY FaultCounts DEF Fail, BootInv, LifetimeTypeOK
<1>2. QED
  BY <1>1, EndKeeps

-----------------------------------------------------------------------------
(* Steps that go from one place to the next                                *)

\* A thread moves that does not hold ConfigMu, before or after, and that is not main
\* in the part of its list where it reads settings and starts goroutines.
LEMMA MoveKeeps ==
    ASSUME BootInv, Up, NEW t \in Threads, NEW p, Goto(t, p),
           UNCHANGED <<C, lock, past, exit>>,
           pc[t] \notin Holding, p \notin Holding,
           t # "main" => pc[t] # "off" /\ p \in LoaderPlaces,
           t = "main" => \/ pc[t] \in BeforeLoad /\ p \in BeforeLoad
                         \/ pc[t] \in Serving /\ p \in Serving
    PROVE  PlaceInv' /\ LockInv' /\ BuildInv'
<1> USE ThreadNames DEF BootInv
<1>1. \A u \in Threads : pc'[u] = IF u = t THEN p ELSE pc[u]
  BY DEF Goto, LifetimeTypeOK
<1>2. Up' /\ UNCHANGED <<calm, torn, used>>
  BY DEF Up, past
<1>3. /\ pc'["main"] \in BeforeLoad <=> pc["main"] \in BeforeLoad
      /\ pc'["main"] \in Building \cup Serving <=> pc["main"] \in Building \cup Serving
      /\ \A l \in Loaders : pc'["main"] \in Before(l) <=> pc["main"] \in Before(l)
  BY <1>1 DEF BeforeLoad, Building, Serving, Before
<1>4. PlaceInv'
  BY <1>1, <1>2, <1>3 DEF PlaceInv
<1>5. LockInv'
  BY <1>1 DEF LockInv
<1>6. BuildInv'
  BY <1>2, <1>3 DEF BuildInv, Decoded
<1>7. QED
  BY <1>4, <1>5, <1>6

\* Nothing changes but what the environment does.
LEMMA StayKeeps ==
    ASSUME BootInv, UNCHANGED <<pc, C, lock, past, exit, got>>
    PROVE  PlaceInv' /\ GotInv' /\ LockInv' /\ BuildInv'
<1> USE DEF BootInv
<1>1. PlaceInv' /\ GotInv' /\ LockInv'
  BY DEF PlaceInv, GotInv, LockInv, Up
<1>2. BuildInv'
  BY DEF BuildInv, Up, Decoded, past
<1>3. QED
  BY <1>1, <1>2

\* The steps of Load_Config, whoever it is that loads.
LEMMA ResetKeeps ==
    ASSUME BootInv, NEW t \in Threads, Reset(t)
    PROVE  BootInv'
<1> USE ThreadNames, FollowingPlaces DEF BootInv
<1>1. LifetimeTypeOK'
  BY DEF Reset, At, Goto, LifetimeTypeOK, signals
<1>2. \A u \in Threads : pc'[u] = IF u = t THEN "defaults" ELSE pc[u]
  BY DEF Reset, Goto, LifetimeTypeOK
<1>3. /\ Up /\ Up' /\ pc[t] = "lock" /\ lock = NoOne /\ lock' = t /\ calm' = {}
      /\ UNCHANGED <<got, used, torn>>
  BY DEF Reset, At, Up
<1>4. \A l \in Loaders : l = t => pc["main"] \notin Before(l)
  BY <1>3 DEF PlaceInv
<1>5. PlaceInv' /\ GotInv'
  BY <1>2, <1>3, <1>4
     DEF PlaceInv, GotInv, BeforeLoad, Building, Serving, Before, LoaderPlaces, Holding
<1>6. LockInv'
  BY <1>2, <1>3 DEF LockInv, Holding
<1>7. pc'["main"] \in BeforeLoad => pc["main"] \in BeforeLoad
  BY <1>2, <1>3 DEF BeforeLoad
<1>8. BuildInv'
  BY <1>3, <1>7 DEF BuildInv
<1>9. QED
  BY <1>1, <1>5, <1>6, <1>8

LEMMA SetDefaultsKeeps ==
    ASSUME BootInv, NEW t \in Threads, SetDefaults(t)
    PROVE  BootInv'
<1> USE ThreadNames, FollowingPlaces DEF BootInv
<1>1. LifetimeTypeOK'
  BY DEF SetDefaults, At, Goto, LifetimeTypeOK, signals, past
<1>2. \A u \in Threads : pc'[u] = IF u = t THEN "decode" ELSE pc[u]
  BY DEF SetDefaults, Goto, LifetimeTypeOK
<1>3. /\ Up /\ Up' /\ pc[t] = "defaults" /\ lock = t /\ lock' = t
      /\ UNCHANGED <<got, used, torn, calm>>
  BY DEF SetDefaults, At, Up, LockInv, Holding, past
<1>4. \A l \in Loaders : l = t => pc["main"] \notin Before(l)
  BY <1>3 DEF PlaceInv
<1>5. PlaceInv' /\ GotInv'
  BY <1>2, <1>3, <1>4
     DEF PlaceInv, GotInv, BeforeLoad, Building, Serving, Before, LoaderPlaces, Holding
<1>6. LockInv'
  BY <1>2, <1>3 DEF LockInv, Holding
<1>7. pc'["main"] \in BeforeLoad => pc["main"] \in BeforeLoad
  BY <1>2, <1>3 DEF BeforeLoad
<1>8. BuildInv'
  BY <1>3, <1>7 DEF BuildInv
<1>9. QED
  BY <1>1, <1>5, <1>6, <1>8

LEMMA DecodeKeeps ==
    ASSUME BootInv, NEW t \in Threads, Decode(t)
    PROVE  BootInv'
<1> USE ThreadNames, FollowingPlaces DEF BootInv
<1> DEFINE p == After(t)
<1>1. p = IF t = "main" THEN "go" ELSE IF t = "hup" THEN "wait" ELSE "sleep"
  BY DEF After
<1>2. /\ \A u \in Threads : pc'[u] = IF u = t THEN p ELSE pc[u]
      /\ pc' \in [Threads -> Steps \cup {"off", "wait", "sleep", "fetch", "lock",
                                "defaults", "decode", "serving", "draining"}]
  BY <1>1 DEF Decode, Goto, LifetimeTypeOK, Building
<1>3. /\ Up /\ Up' /\ pc[t] = "decode" /\ lock = t /\ lock' = NoOne
      /\ got[t] \in Editions /\ got' = [got EXCEPT ![t] = 0] /\ C' = Decoded(got[t])
      /\ UNCHANGED <<used, torn, calm>>
  BY DEF Decode, At, Up, LockInv, GotInv, Holding, past
<1>4. LifetimeTypeOK'
  BY <1>2, <1>3 DEF Decode, LifetimeTypeOK, signals, Decoded, past
<1>5. \A l \in Loaders : l = t => pc["main"] \notin Before(l)
  BY <1>3 DEF PlaceInv
<1>6. p \notin {"lock"} \cup Holding /\ p \notin BeforeLoad
      /\ (t # "main" => p \in LoaderPlaces)
  BY <1>1 DEF LoaderPlaces, Holding, BeforeLoad
<1> HIDE DEF p
<1>7. PlaceInv'
  <2>1. CASE t = "main"
    <3>1. pc["main"] \in BeforeLoad /\ p = "go"
      BY <1>1, <1>3, <2>1 DEF BeforeLoad
    <3>2. \A l \in Loaders : pc[l] = "off"
      BY <1>3, <3>1 DEF PlaceInv, Before
    <3>3. QED
      BY <1>2, <1>3, <2>1, <3>1, <3>2 DEF PlaceInv, Building, LoaderPlaces
  <2>2. CASE t # "main"
    BY <1>2, <1>3, <1>5, <1>6, <2>2 DEF PlaceInv
  <2>3. QED
    BY <2>1, <2>2
<1>8. GotInv' /\ LockInv'
  BY <1>2, <1>3, <1>6 DEF GotInv, LockInv, LifetimeTypeOK
<1>9. pc'["main"] \in BeforeLoad => pc["main"] \in BeforeLoad
  BY <1>2, <1>6
<1>10. calm' = {}
  BY <1>3 DEF BuildInv
<1>11. BuildInv'
  BY <1>3, <1>9, <1>10 DEF BuildInv
<1>12. QED
  BY <1>4, <1>7, <1>8, <1>11

LEMMA LoadKeeps ==
    ASSUME BootInv, NEW t \in Threads, Load(t)
    PROVE  BootInv'
<1> USE ThreadNames, FollowingPlaces, LifetimeAssumption DEF BootInv
<1>1. CASE Fetch(t)
  <2>1. LifetimeTypeOK'
    BY <1>1 DEF Fetch, At, Goto, LifetimeTypeOK, signals, past
  <2>2. GotInv'
    BY <1>1 DEF Fetch, At, Goto, LifetimeTypeOK, GotInv, Holding
  <2>3. PlaceInv' /\ LockInv' /\ BuildInv'
    BY <1>1, MoveKeeps DEF Fetch, At, BeforeLoad, LoaderPlaces, Holding
  <2>4. QED
    BY <2>1, <2>2, <2>3
<1>2. CASE FetchFails(t)
  <2>1. CASE Fail
    BY <1>2, <2>1, FailKeeps DEF FetchFails, At
  <2>2. CASE Fault /\ tries' = [tries EXCEPT ![t] = @ + 1] /\ tries[t] + 1 < MaxTries
             /\ UNCHANGED <<env, edition, C, lock, pc, got, pool, signals, connection,
                            exit, past>>
    <3>1. LifetimeTypeOK'
      BY <2>2, FaultCounts DEF LifetimeTypeOK, signals, past
    <3>2. QED
      BY <2>2, <3>1, StayKeeps
  <2>3. QED
    BY <1>2, <2>1, <2>2 DEF FetchFails
<1>3. CASE Refuse(t)
  BY <1>3, FailKeeps DEF Refuse, At
<1>4. QED
  BY <1>1, <1>2, <1>3, ResetKeeps, SetDefaultsKeeps, DecodeKeeps DEF Load

-----------------------------------------------------------------------------
(* main                                                                    *)

\* The step from one place of main's list to the next, and the goroutines it starts.
LEMMA ProceedKeeps == ASSUME BootInv, Proceed PROVE BootInv'
<1> USE ThreadNames, FollowingPlaces, LifetimeAssumption DEF BootInv
<1>1. PICK s \in Steps \ (Settings \cup {"env"}) :
          /\ At("main", s)
          /\ pc' = [t \in Threads |->
                     CASE t = "main" -> Following[s]
                       [] s = "go" /\ t = "poll" -> "sleep"
                       [] s = "go" /\ t = "hup" -> "wait"
                       [] s = "monitors" /\ t = "reload" -> "sleep"
                       [] OTHER -> pc[t]]
          /\ ctx' = IF s = "context" THEN "live" ELSE ctx
          /\ IF Following[s] = "serving" THEN Forget ELSE UNCHANGED past
  BY DEF Proceed
<1>2. /\ UNCHANGED <<env, edition, C, lock, got, tries, pool, channel, sent,
                     owed, connection, exit, faults>>
      /\ Up /\ Up' /\ pc["main"] = s
  BY <1>1 DEF Proceed, At, Up
<1>3. /\ pc'["main"] = Following[s]
      /\ \A l \in Loaders :
            \/ pc'[l] = pc[l]
            \/ s \in {"go", "monitors"} /\ s \in Before(l) /\ Following[s] \notin Before(l)
               /\ pc'[l] \in {"sleep", "wait"}
  BY <1>1 DEF Before, Building, BeforeLoad
<1>4. pc' \in [Threads -> Steps \cup {"off", "wait", "sleep", "fetch", "lock",
                                      "defaults", "decode", "serving", "draining"}]
  <2>1. Following[s] \in Steps \cup {"fetch", "serving"}
    BY DEF Building
  <2>2. \A l \in Loaders : pc[l] \in Steps \cup {"off", "wait", "sleep", "fetch", "lock",
                                  "defaults", "decode", "serving", "draining"}
    BY DEF LifetimeTypeOK
  <2>3. QED
    BY <1>1, <1>3, <2>1, <2>2
<1>5. LifetimeTypeOK'
  <2>1. /\ used' \in [Settings -> {Unread, Zero, Default} \cup Editions]
        /\ torn' \subseteq Settings /\ calm' \subseteq Settings
    BY <1>1 DEF LifetimeTypeOK, Forget, past
  <2>2. QED
    BY <1>1, <1>2, <1>4, <2>1 DEF LifetimeTypeOK
<1>6. \/ s \in BeforeLoad /\ pc'["main"] \in BeforeLoad \ ({"lock"} \cup Holding)
      \/ s \in Building \ {"http_listen"} /\ pc'["main"] \in Building
      \/ s = "drop" /\ pc'["main"] = "serving"
  <2>1. CASE s \in {"notify", "env", "auth"}
    BY <1>3, <2>1 DEF BeforeLoad, Holding
  <2>2. CASE s \in Building
    BY <1>3, <2>2
  <2>3. CASE s = "drop"
    BY <1>3, <2>3
  <2>4. QED
    BY <2>1, <2>2, <2>3
<1>7. \A l \in Loaders : pc'["main"] \in Before(l) => s \in Before(l) /\ pc'[l] = pc[l]
  <2>1. CASE s \in BeforeLoad
    BY <1>3, <2>1 DEF Before, BeforeLoad
  <2>2. CASE s \in Building \ {"http_listen"}
    BY <1>3, <2>2 DEF Before, Building, BeforeLoad
  <2>3. CASE s = "drop"
    BY <1>3, <2>3 DEF Before, Building, BeforeLoad
  <2>4. QED
    BY <1>6, <2>1, <2>2, <2>3
<1>8. PlaceInv'
  BY <1>2, <1>3, <1>6, <1>7 DEF PlaceInv, LoaderPlaces, Serving
<1>9. \A t \in Threads : pc'[t] \in {"lock"} \cup Holding => pc'[t] = pc[t]
  BY <1>3, <1>6 DEF Holding, Building
<1>10. GotInv'
  BY <1>2, <1>9 DEF GotInv
<1>11. \A t \in Threads : pc[t] \in Holding => pc'[t] = pc[t]
  <2>1. s \notin Holding
    BY <1>6 DEF Building, Holding
  <2>2. \A l \in Loaders : s \in Before(l) => pc[l] \notin Holding
    BY <1>2 DEF PlaceInv, Holding
  <2>3. QED
    BY <1>2, <1>3, <2>1, <2>2
<1>12. LockInv'
  BY <1>2, <1>9, <1>11 DEF LockInv
<1>13. BuildInv'
  <2>1. CASE s = "drop"
    BY <1>1, <1>2, <1>6, <2>1
       DEF BuildInv, Forget, Serving, BeforeLoad, Building, Decoded, Unread, Zero, Default
  <2>2. CASE s # "drop"
    <3>1. UNCHANGED <<used, torn, calm>>
      BY <1>1, <1>3, <1>6, <2>2 DEF past, BeforeLoad, Building
    <3>2. /\ pc'["main"] \in BeforeLoad => s \in BeforeLoad
          /\ pc'["main"] \in Building \cup Serving => s \in Building \cup Serving
      BY <1>6, <2>2 DEF BeforeLoad, Building, Serving
    <3>3. QED
      BY <1>2, <3>1, <3>2 DEF BuildInv, Decoded
  <2>3. QED
    BY <2>1, <2>2
<1>14. QED
  BY <1>5, <1>8, <1>10, <1>12, <1>13

\* A start step takes its setting from what it finds: a whole edition when nobody
\* holds ConfigMu.
LEMMA StartReadingKeeps ==
    ASSUME BootInv, NEW s \in Settings, StartReading(s)
    PROVE  BootInv'
<1> USE ThreadNames, FollowingPlaces, LifetimeAssumption DEF BootInv
<1> DEFINE p == Following[s]
<1>1. PICK v \in MayRead(s) : used' = [used EXCEPT ![s] = v]
  BY DEF StartReading
<1>2. /\ UNCHANGED <<env, edition, C, lock, got, tries, signals, connection, exit, faults>>
      /\ Up /\ Up' /\ pc["main"] = s /\ s \in Building
      /\ s \notin {"go", "monitors"}
      /\ IF lock = NoOne THEN calm' = calm \cup {s} /\ UNCHANGED torn
                         ELSE torn' = torn \cup {s} /\ UNCHANGED calm
      /\ pool' = (pool \/ s = "max_workers")
  BY DEF StartReading, At, Up, Settings
<1>3. \A t \in Threads : pc'[t] = IF t = "main" THEN p ELSE pc[t]
  BY DEF StartReading, Goto, LifetimeTypeOK
<1>4. IF s = "http_listen" THEN p = "drop" ELSE p \in Building
  BY <1>2
<1>5. /\ v \in {Zero, Default} \cup Editions
      /\ lock = NoOne => v = C[s]
  <2>1. CASE v = C[s]
    BY <2>1 DEF LifetimeTypeOK
  <2>2. ASSUME NEW t \in Loaders, pc[t] = "decode", v = got[t]
        PROVE  v \in Editions /\ lock # NoOne
    BY <2>2 DEF GotInv, LockInv, Holding
  <2>3. QED
    BY <1>1, <2>1, <2>2 DEF MayRead, At
<1>6. LifetimeTypeOK'
  <2>1. pc' = [pc EXCEPT !["main"] = p] /\ p \in Steps
    BY <1>4 DEF StartReading, Goto
  <2>2. /\ used' \in [Settings -> {Unread, Zero, Default} \cup Editions]
        /\ torn' \subseteq Settings /\ calm' \subseteq Settings /\ pool' \in BOOLEAN
    BY <1>1, <1>2, <1>5 DEF LifetimeTypeOK
  <2>3. QED
    BY <1>2, <2>1, <2>2 DEF LifetimeTypeOK, signals
<1>7. \A l \in Loaders : p \in Before(l) => s \in Before(l)
  BY <1>2, <1>4 DEF Before, BeforeLoad, Building
<1>8. PlaceInv'
  BY <1>2, <1>3, <1>4, <1>7 DEF PlaceInv, Serving
<1>9. GotInv' /\ LockInv'
  BY <1>2, <1>3, <1>4 DEF GotInv, LockInv, Building, Serving, Holding
<1>10. pc'["main"] \in Building \cup Serving /\ pc'["main"] \notin BeforeLoad
  BY <1>3, <1>4 DEF Building, Serving, BeforeLoad
<1>11. \A x \in Settings : used'[x] = IF x = s THEN v ELSE used[x]
  BY <1>1 DEF LifetimeTypeOK
<1>12. ASSUME lock = NoOne
       PROVE  /\ \E e \in Editions : C = Decoded(e) /\ \A x \in calm' : used'[x] = e
              /\ v \in Editions
  <2>1. PICK e \in Editions : C = Decoded(e) /\ \A x \in calm : used[x] = e
    BY <1>2, <1>12 DEF BuildInv
  <2>2. v = e
    BY <1>5, <1>12, <2>1 DEF Decoded
  <2>3. QED
    BY <1>2, <1>11, <1>12, <2>1, <2>2 DEF LifetimeTypeOK
<1>13. \A x \in Settings : used'[x] \in {Zero, Default} => x \in torn'
  <2>1. CASE lock = NoOne
    BY <1>2, <1>11, <1>12, <2>1 DEF BuildInv
  <2>2. CASE lock # NoOne
    BY <1>2, <1>11, <2>2 DEF BuildInv
  <2>3. QED
    BY <2>1, <2>2
<1>14. BuildInv'
  BY <1>2, <1>10, <1>12, <1>13 DEF BuildInv, Decoded
<1>15. QED
  BY <1>6, <1>8, <1>9, <1>14

LEMMA MainKeeps == ASSUME BootInv, Main PROVE BootInv'
<1> USE ThreadNames, FollowingPlaces, LifetimeAssumption DEF BootInv
<1>1. CASE Load_Env
  <2>1. CASE Complete(env)
    <3>1. /\ Up /\ pc["main"] = "env" /\ Goto("main", "auth")
          /\ UNCHANGED <<env, edition, C, lock, got, tries, pool, signals,
                         connection, exit, faults, past>>
      BY <1>1, <2>1 DEF Load_Env, At, Following
    <3>2. PlaceInv' /\ LockInv' /\ BuildInv'
      BY <3>1, MoveKeeps DEF BeforeLoad, Holding
    <3>3. LifetimeTypeOK' /\ GotInv'
      BY <3>1 DEF Goto, LifetimeTypeOK, GotInv, signals, past, Holding
    <3>4. QED
      BY <3>2, <3>3
  <2>2. CASE ~Complete(env)
    BY <1>1, <2>2, EndKeeps DEF Load_Env, At, LifetimeTypeOK
  <2>3. QED
    BY <2>1, <2>2
<1>2. CASE StepFails \/ ServeFails
  BY <1>2, FailKeeps DEF StepFails, ServeFails, At
<1>3. CASE Drain
  <2>1. LifetimeTypeOK' /\ GotInv'
    BY <1>3 DEF Drain, At, Goto, LifetimeTypeOK, GotInv, signals, past, Holding
  <2>2. PlaceInv' /\ LockInv' /\ BuildInv'
    BY <1>3, MoveKeeps DEF Drain, At, Serving, Holding
  <2>3. QED
    BY <2>1, <2>2
<1>4. CASE Shutdown
  BY <1>4, EndKeeps DEF Shutdown, At, LifetimeTypeOK
<1>5. CASE ShutdownTimeout
  BY <1>5, EndKeeps, FaultCounts DEF ShutdownTimeout, At, LifetimeTypeOK
<1>6. QED
  BY <1>1, <1>2, <1>3, <1>4, <1>5, ProceedKeeps, StartReadingKeeps, LoadKeeps DEF Main

-----------------------------------------------------------------------------
(* The other goroutines, signals and requests                              *)

LEMMA GoroutinesKeep ==
    ASSUME BootInv, LoggerFails \/ SigHandler \/ \E l \in Monitors : Wake(l) \/ Load(l)
    PROVE  BootInv'
<1> USE ThreadNames, FollowingPlaces, LifetimeAssumption DEF BootInv
<1>1. CASE LoggerFails
  BY <1>1, FailKeeps DEF LoggerFails
<1>2. ASSUME NEW l \in Monitors, Wake(l)
      PROVE  BootInv'
  <2>1. LifetimeTypeOK' /\ GotInv'
    BY <1>2 DEF Wake, At, Goto, LifetimeTypeOK, GotInv, signals, past, Holding
  <2>2. PlaceInv' /\ LockInv' /\ BuildInv'
    BY <1>2, MoveKeeps DEF Wake, At, LoaderPlaces, Holding
  <2>3. QED
    BY <2>1, <2>2
<1>3. CASE TakeHup
  <2>1. channel' \in Seq(Signals) /\ Len(channel') =< Buffer
    BY <1>3 DEF TakeHup, LifetimeTypeOK, Buffer
  <2>2. LifetimeTypeOK' /\ GotInv'
    BY <1>3, <2>1 DEF TakeHup, At, Goto, LifetimeTypeOK, GotInv, past, Holding
  <2>3. PlaceInv' /\ LockInv' /\ BuildInv'
    BY <1>3, MoveKeeps DEF TakeHup, At, LoaderPlaces, Holding
  <2>4. QED
    BY <2>2, <2>3
<1>4. CASE TakeStop
  BY <1>4, EndKeeps DEF TakeStop, At, LifetimeTypeOK
<1>5. QED
  BY <1>1, <1>2, <1>3, <1>4, LoadKeeps DEF SigHandler

LEMMA WorldKeeps ==
    ASSUME BootInv,
           \/ \E s \in Signals : Signal(s)
           \/ SignalEarly \/ Edit
           \/ \E k \in Connections : Open(k) \/ Answer(k)
    PROVE  BootInv'
<1> USE LifetimeAssumption DEF BootInv
<1>1. ASSUME NEW s \in Signals, Signal(s)
      PROVE  BootInv'
  <2>1. channel' \in Seq(Signals) /\ Len(channel') =< Buffer
    BY <1>1 DEF Signal, Put, LifetimeTypeOK, Buffer
  <2>2. sent' \in 0..MaxSignals /\ ctx' \in {"none", "live", "done"} /\ owed' \in BOOLEAN
    BY <1>1 DEF Signal, LifetimeTypeOK
  <2>3. LifetimeTypeOK'
    BY <1>1, <2>1, <2>2 DEF Signal, LifetimeTypeOK, loading, past
  <2>4. QED
    BY <1>1, <2>3, StayKeeps DEF Signal, loading
<1>2. CASE SignalEarly
  <2>1. /\ Up /\ End("killed")
        /\ sent' \in 0..MaxSignals /\ faults' \in 0..MaxFaults
    BY <1>2 DEF SignalEarly, At, LifetimeTypeOK
  <2>2. QED
    BY <2>1, EndKeeps
<1>3. CASE Edit
  <2>1. edition' \in Editions
    BY <1>3 DEF Edit, LifetimeTypeOK, Editions
  <2>2. LifetimeTypeOK'
    BY <1>3, <2>1 DEF Edit, LifetimeTypeOK, loading, signals, past
  <2>3. QED
    BY <1>3, <2>2, StayKeeps DEF Edit, loading
<1>4. ASSUME NEW k \in Connections, Open(k) \/ Answer(k)
      PROVE  BootInv'
  <2>1. LifetimeTypeOK'
    BY <1>4 DEF Open, Answer, LifetimeTypeOK, loading, signals, past
  <2>2. QED
    BY <1>4, <2>1, StayKeeps DEF Open, Answer, loading
<1>5. QED
  BY <1>1, <1>2, <1>3, <1>4

LEMMA BootInvStep == BootInv /\ [Next]_vars => BootInv'
<1> SUFFICES ASSUME BootInv, [Next]_vars PROVE BootInv'
  OBVIOUS
<1>1. CASE Next
  BY <1>1, MainKeeps, GoroutinesKeep, WorldKeeps DEF Next
<1>2. CASE UNCHANGED vars
  <2>1. LifetimeTypeOK'
    BY <1>2 DEF BootInv, LifetimeTypeOK, vars, loading, signals, past
  <2>2. QED
    BY <1>2, <2>1, StayKeeps DEF BootInv, vars, loading
<1>3. QED
  BY <1>1, <1>2

\* For any monitors and any number of signals, edits and failures, and whatever
\* loads run while main starts: it finds a setting reset or at its default only
\* while ConfigMu is held, and what it reads between two loads is of one edition.
THEOREM LifetimeCorrect == Spec => []LifetimeInv
<1>1. BootInv => LifetimeInv
  <2> SUFFICES ASSUME BootInv PROVE LifetimeInv
    OBVIOUS
  <2>1. \E e \in Editions : \A s \in calm : used[s] = e
    <3>1. CASE calm = {}
      BY <3>1, ThreadNames
    <3>2. CASE calm # {}
      BY <3>2 DEF BootInv, BuildInv, PlaceInv
    <3>3. QED
      BY <3>1, <3>2
  <2>2. QED
    BY <2>1 DEF BootInv, BuildInv, LifetimeInv, StartExplained
<1>2. QED
  BY <1>1, BootInvInit, BootInvStep, PTL DEF Spec
=============================================================================
