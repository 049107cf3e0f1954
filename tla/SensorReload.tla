---------------------------- MODULE SensorReload ----------------------------
(***************************************************************************)
(* The Suricata client while its configuration is replaced under it.       *)
(* Monitor_State polls JSONAir for a debug level and a reload hash, and on *)
(* a new hash fetches the configuration and loads it, with a new redis     *)
(* client, under ConfigMu.  main copies most of the configuration under    *)
(* the lock before each event, but hands Config.Highvolt.URL and .Pat to   *)
(* PAT_Auth without it when a bearer token has expired.  The exchange with *)
(* the server is that of ClientSession, here against a server that always  *)
(* answers: what fails is what the reload makes fail.                      *)
(*                                                                         *)
(* A configuration is the number of its edition, and each event is of a    *)
(* file of its own.                                                        *)
(***************************************************************************)
EXTENDS Integers, FiniteSets

CONSTANTS
    Events,      \* what Suricata has stored a file for and pushed to redis
    NoEvent,
    Server,      \* Server[e]: the server that edition e names
    Known,       \* the files every server has analysed before
    Bad,         \* the editions LoadConfig's checks refuse
    Unknown,     \* the debug levels with an option Set_Debug does not know
    MaxTries,    \* attempts of GetConfigJSON: 10 in the code
    MaxEdits,    \* bound on the editions
    MaxEvents,   \* bound on edits, signals and expiries together
    MaxFaults    \* bound on requests that fail and on stops

Editions == 1..MaxEdits
Servers == {Server[e] : e \in Editions}

ASSUME SensorAssumption ==
    /\ IsFiniteSet(Events) /\ NoEvent \notin Events /\ Known \subseteq Events
    /\ MaxEdits \in Nat \ {0} /\ MaxTries \in Nat \ {0}
    /\ MaxEvents \in Nat /\ MaxFaults \in Nat
    /\ DOMAIN Server = Editions
    /\ Bad \subseteq Editions \ {1} /\ Unknown \subseteq Nat

Fields == {"url", "pat", "rest"}   \* rest: what is only read under ConfigMu
Zero == 0        \* a field of a struct that was reset
NoHash == 0      \* the first poll is still to come (flag is false)
Denied == -1     \* the body of JSONAir's 401, which is always the same
NoLevel == 0     \* "": no debug flag is set
NoToken == 0     \* "": what PAT_Auth returns when it gets no answer

VARIABLES
    edition, signal, level, good,  \* JSONAir: configuration, reload hash,
                                   \* debug level, the token it accepts
    list, store, accepted,  \* redis, Suricata's files, what a server has
    valid,                  \* valid[s]: the token server s accepts
    happened, faults,
    up,
    Config, client,         \* Config by its fields; is Redis.Client not nil?
    mon,                    \* where Monitor_State is
    D, debug_level_old, reload_hash_old, got, air, tries,
                            \* its locals; air: Tokens.JSONAir
    at,                     \* where main is
    snap,                   \* its copy of Config, and whether that client is open
    cur,                    \* the event in hand
    url,                    \* PAT_Auth's first argument, evaluated
    hv                      \* Tokens.Highvolt: <<server, token>>

\* History, read by the properties only.
VARIABLES
    signalled,   \* the edition when JSONAir's reload hash last changed
    first,       \* the answer to the first poll
    loaded,      \* the edition Monitor_State last loaded
    done,        \* events main is done with
    mixed,       \* those during which it saw more than one configuration
    cuts         \* redis clients closed, and ends of the process

jsonair == <<edition, signal, level, good>>
world == <<list, store, accepted, valid>>
monitor == <<mon, D, debug_level_old, reload_hash_old, got, air, tries>>
main == <<at, snap, cur, url, hv>>
seen == <<signalled, first, loaded>>
past == <<done, mixed, cuts>>
process == <<up, Config, client, monitor, main>>
calm == <<happened, faults>>
vars == <<jsonair, world, calm, process, seen, past>>

NoSnap == [query |-> Zero, path |-> Zero, open |-> FALSE]
Whole(e) == [f \in Fields |-> e]
Locked == mon \in {"decode", "close", "redis"}

Happens ==
    happened < MaxEvents /\ happened' = happened + 1 /\ UNCHANGED faults
Fault == faults < MaxFaults /\ faults' = faults + 1 /\ UNCHANGED happened

-----------------------------------------------------------------------------
(* Start and end of the process                                            *)

Init ==
    /\ edition = 1 /\ signal = 1 /\ level = 1 /\ good = 1
    /\ list = Events /\ store = Events /\ accepted = Known
    /\ valid = [s \in Servers |-> 1]
    /\ happened = 0 /\ faults = 0
    /\ up = FALSE
    /\ Config = Whole(Zero) /\ client = FALSE
    /\ mon = "off" /\ D = NoLevel /\ debug_level_old = NoLevel
    /\ reload_hash_old = NoHash /\ got = 0 /\ air = 0 /\ tries = 0
    /\ at = "off" /\ snap = NoSnap /\ cur = NoEvent /\ url = Zero
    /\ hv = <<Server[1], NoToken>>
    /\ signalled = 1 /\ first = NoHash /\ loaded = 0
    /\ done = {} /\ mixed = {} /\ cuts = 0

\* LoadEnv, PAT_Auth, GetConfigJSON, LoadConfig, GetDebugLevel, Set_Debug,
\* PAT_Auth again, and the monitor's goroutine.
Start ==
    /\ ~up /\ edition \notin Bad /\ level \notin Unknown
    /\ up' = TRUE
    /\ Config' = Whole(edition)
    /\ mon' = "debug" /\ debug_level_old' = level /\ air' = good
    /\ at' = "init" /\ hv' = <<Server[edition], valid[Server[edition]]>>
    /\ UNCHANGED <<jsonair, world, calm, client, D, reload_hash_old, got,
                   tries, snap, cur, url, seen, past>>

\* What these checks refuse ends the process at once; it is started again.
StartRefused ==
    /\ ~up /\ (edition \in Bad \/ level \in Unknown)
    /\ UNCHANGED vars

\* os.Exit(1): nothing of the process is left.
Exit ==
    /\ up' = FALSE
    /\ Config' = Whole(Zero) /\ client' = FALSE
    /\ mon' = "off" /\ D' = NoLevel /\ debug_level_old' = NoLevel
    /\ reload_hash_old' = NoHash /\ got' = 0 /\ air' = 0 /\ tries' = 0
    /\ at' = "off" /\ snap' = NoSnap /\ cur' = NoEvent /\ url' = Zero
    /\ hv' = <<Server[1], NoToken>>
    /\ first' = NoHash /\ loaded' = 0 /\ cuts' = cuts + 1
    /\ UNCHANGED <<jsonair, world, signalled, done, mixed>>

\* SIGINT, SIGTERM or SIGABRT: os.Exit(0).
SigHandler == up /\ Fault /\ Exit

-----------------------------------------------------------------------------
(* JSONAir and its users, and the servers                                  *)

Edit ==
    /\ edition < MaxEdits /\ Happens
    /\ edition' = edition + 1
    /\ UNCHANGED <<signal, level, good, world, process, seen, past>>

Signal ==
    /\ Happens
    /\ signal' = signal + 1
    /\ signalled' = edition
    /\ UNCHANGED <<edition, level, good, world, process, first, loaded, past>>

SetLevel ==
    /\ Happens
    /\ level' = level + 1
    /\ UNCHANGED <<edition, signal, good, world, process, seen, past>>

ExpireJSONAir ==
    /\ Happens
    /\ good' = good + 1
    /\ UNCHANGED <<edition, signal, level, world, process, seen, past>>

\* A token, once granted, outlives the request it was fetched for.
ExpireHighvolt(s) ==
    /\ Happens
    /\ at \notin {"requery", "resubmit"}
    /\ valid' = [valid EXCEPT ![s] = @ + 1]
    /\ UNCHANGED <<jsonair, list, store, accepted, process, seen, past>>

World ==
    \/ Edit \/ Signal \/ SetLevel \/ ExpireJSONAir
    \/ \E s \in Servers : ExpireHighvolt(s)

-----------------------------------------------------------------------------
(* Monitor_State                                                           *)

Watch(place) == up /\ mon = place
Steady == UNCHANGED <<jsonair, world, up, main>>   \* the rest of the program

\* After the sleep, GET debug.  An answer without a level leaves D as it was.
PollDebug ==
    /\ Watch("debug")
    /\ D' = IF air = good THEN level ELSE D
    /\ mon' = "hash"
    /\ Steady
    /\ UNCHANGED <<calm, Config, client, debug_level_old, reload_hash_old,
                   got, air, tries, seen, past>>

\* Is this answer a signal?  The bodies are compared, whatever they say, and
\* the first is compared with itself.
Heard(h) == h # reload_hash_old /\ reload_hash_old # NoHash

\* GET reload; a changed level is set, or ends the process; a changed body is
\* remembered before the configuration is fetched.
PollHash ==
    LET h == IF air = good THEN signal ELSE Denied
    IN  /\ Watch("hash")
        /\ \/ D # debug_level_old /\ D \in Unknown /\ Exit
           \/ /\ D = debug_level_old \/ D \notin Unknown
              /\ debug_level_old' = D
              /\ reload_hash_old' = h
              /\ first' = IF first = NoHash THEN h ELSE first
              /\ mon' = IF Heard(h) THEN "fetch" ELSE "debug"
              /\ Steady
              /\ UNCHANGED <<Config, client, D, got, air, tries, signalled,
                             loaded, past>>
        /\ UNCHANGED calm

\* No answer to either poll.
PollFails == up /\ mon \in {"debug", "hash"} /\ Fault /\ Exit

\* GetConfigJSON: 200, ...
Fetch ==
    /\ Watch("fetch") /\ air = good
    /\ got' = edition /\ tries' = 0 /\ mon' = "lock"
    /\ Steady
    /\ UNCHANGED <<calm, Config, client, D, debug_level_old, reload_hash_old,
                   air, seen, past>>

\* ... another attempt, or os.Exit(1) after the last one, ...
NextTry(tok) ==
    \/ /\ tries + 1 < MaxTries
       /\ tries' = tries + 1 /\ air' = tok
       /\ Steady
       /\ UNCHANGED <<Config, client, mon, D, debug_level_old, reload_hash_old,
                      got, seen, past>>
    \/ tries + 1 = MaxTries /\ Exit

\* ... after no answer or a bad status, ...
FetchFails == Watch("fetch") /\ Fault /\ NextTry(air)

\* ... and after 401 with the token of PAT_Auth.
Unauthorized ==
    /\ Watch("fetch") /\ air # good
    /\ \/ UNCHANGED calm /\ NextTry(good)
       \/ Fault /\ (NextTry(NoToken) \/ Exit)

\* ConfigMu.Lock(), and LoadConfig begins with Config = Config_Struct{}
Lock ==
    /\ Watch("lock")
    /\ Config' = Whole(Zero) /\ client' = FALSE
    /\ mon' = "decode"
    /\ Steady
    /\ UNCHANGED <<calm, D, debug_level_old, reload_hash_old, got, air, tries,
                   seen, past>>

\* json.Unmarshal writes one field.
Decode ==
    /\ Watch("decode")
    /\ \E f \in Fields :
        Config[f] # got /\ Config' = [Config EXCEPT ![f] = got]
    /\ Steady
    /\ UNCHANGED <<calm, client, monitor, seen, past>>

\* LoadConfig's checks.
Check ==
    /\ Watch("decode") /\ Config = Whole(got)
    /\ \/ got \in Bad /\ Exit
       \/ /\ got \notin Bad
          /\ mon' = "close"
          /\ Steady
          /\ UNCHANGED <<Config, client, D, debug_level_old, reload_hash_old,
                         got, air, tries, seen, past>>
    /\ UNCHANGED calm

\* oldClient.Close(): main may hold a copy of it.
Close ==
    /\ Watch("close")
    /\ snap' = [snap EXCEPT !.open = FALSE]
    /\ mon' = "redis" /\ cuts' = cuts + 1
    /\ UNCHANGED <<jsonair, world, calm, up, Config, client, D,
                   debug_level_old, reload_hash_old, got, air, tries, at, cur,
                   url, hv, seen, done, mixed>>

\* Mutant of Redis: the hash is asked for again after the load.
Redis_Rereads ==
    /\ Watch("redis")
    /\ client' = TRUE /\ mon' = "debug" /\ got' = 0 /\ loaded' = got
    /\ reload_hash_old' = signal
    /\ Steady
    /\ UNCHANGED <<calm, Config, D, debug_level_old, air, tries, signalled,
                   first, past>>

\* Redis_Init, which exits without an answer from redis, and Unlock.
Redis ==
    /\ Watch("redis")
    /\ \/ Fault /\ Exit
       \/ /\ client' = TRUE /\ mon' = "debug" /\ got' = 0 /\ loaded' = got
          /\ Steady
          /\ UNCHANGED <<calm, Config, D, debug_level_old, reload_hash_old,
                         air, tries, signalled, first, past>>

Monitor_State ==
    \/ PollDebug \/ PollHash \/ Fetch \/ Unauthorized \/ Lock \/ Decode \/ Check
    \/ Close \/ Redis

-----------------------------------------------------------------------------
(* main                                                                    *)

Runs(place) == up /\ at = place
Quiet == UNCHANGED <<jsonair, calm, up, Config, monitor, seen>>

\* Redis_Init, without the lock.
MainRedis ==
    /\ Runs("init")
    /\ \/ /\ Config["rest"] # Zero /\ client' = TRUE /\ at' = "top"
          /\ Quiet /\ UNCHANGED <<snap, cur, url, hv, past>>
       \/ Config["rest"] = Zero /\ Exit /\ UNCHANGED calm
       \/ Fault /\ Exit
    /\ UNCHANGED world

\* Mutant of Snapshot: without RLock.
Snapshot_Unlocked ==
    /\ Runs("top")
    /\ snap' = [query |-> Config["url"], path |-> Config["rest"], open |-> client]
    /\ at' = "pop"
    /\ Quiet /\ UNCHANGED <<world, client, cur, url, hv, past>>

\* What main copies between RLock and RUnlock.
Snapshot ==
    /\ Runs("top") /\ ~Locked
    /\ snap' = [query |-> Config["url"], path |-> Config["rest"], open |-> client]
    /\ at' = "pop"
    /\ Quiet /\ UNCHANGED <<world, client, cur, url, hv, past>>

\* LPop: redis takes the event off its list ...
LPop ==
    /\ Runs("pop") /\ snap.open
    /\ \E e \in list : cur' = e /\ list' = list \ {e}
    /\ at' = "popped"
    /\ Quiet /\ UNCHANGED <<store, accepted, valid, client, snap, url, hv, past>>

\* ... or has none, or the client is closed: main sleeps a second.
NoRecords ==
    /\ Runs("pop") /\ (list = {} \/ ~snap.open)
    /\ at' = "top"
    /\ Quiet /\ UNCHANGED <<world, client, snap, cur, url, hv, past>>

\* The reply arrives, unless the client was closed in the meantime.
Popped ==
    /\ Runs("popped")
    /\ \/ snap.open /\ at' = "query" /\ UNCHANGED cur
       \/ ~snap.open /\ at' = "top" /\ cur' = NoEvent
    /\ Quiet /\ UNCHANGED <<world, client, snap, url, hv, past>>

\* The server of this edition takes the token.
Takes(e) == hv = <<Server[e], valid[Server[e]]>>

\* Query, first or second.  Of the second nothing but the body is looked at.
Query ==
    /\ Runs("query") \/ Runs("requery")
    /\ \/ /\ Takes(snap.query) /\ cur \in accepted
          /\ at' = "top" /\ done' = done \cup {cur} /\ cur' = NoEvent
          /\ UNCHANGED url
       \/ /\ \/ Takes(snap.query) /\ cur \notin accepted
             \/ ~Takes(snap.query) /\ at = "requery"
          /\ at' = "submit" /\ UNCHANGED <<cur, url, done>>
       \/ /\ ~Takes(snap.query) /\ at = "query"
          /\ url' = Config["url"]
          /\ at' = "auth" /\ UNCHANGED <<cur, done>>
    /\ Quiet /\ UNCHANGED <<world, client, snap, hv, mixed, cuts>>

\* PAT_Auth for the server Config names now: no token from no server, the end
\* when the server refuses the key.
PAT_Auth(next) ==
    LET pat == Config["pat"]
        grant(tok) == /\ hv' = tok /\ at' = next
                      /\ mixed' = IF url # snap.query \/ tok[2] = NoToken
                                  THEN mixed \cup {cur} ELSE mixed
                      /\ UNCHANGED <<jsonair, world, up, Config, client, monitor,
                                     snap, cur, url, seen, done, cuts>>
        fits == pat # Zero /\ Server[pat] = Server[url]
    IN  \/ url = Zero /\ grant(<<Server[1], NoToken>>) /\ UNCHANGED calm
        \/ /\ url # Zero /\ fits
           /\ grant(<<Server[url], valid[Server[url]]>>) /\ UNCHANGED calm
        \/ /\ url # Zero /\ ~fits
           /\ Exit /\ UNCHANGED calm
        \/ url # Zero /\ Fault /\ grant(<<Server[1], NoToken>>)

\* Mutant of Submit: any answer will do.
Submit_Unchecked ==
    /\ Runs("submit")
    /\ at' = "remove" /\ UNCHANGED url
    /\ accepted' = IF Takes(snap.query) THEN accepted \cup {cur} ELSE accepted
    /\ Quiet /\ UNCHANGED <<list, store, valid, client, snap, cur, hv, past>>

Submit ==
    /\ Runs("submit")
    /\ \/ /\ Takes(snap.query) /\ accepted' = accepted \cup {cur}
          /\ at' = "remove" /\ UNCHANGED url
       \/ /\ ~Takes(snap.query) /\ url' = Config["url"]
          /\ at' = "auth2" /\ UNCHANGED accepted
    /\ Quiet /\ UNCHANGED <<list, store, valid, client, snap, cur, hv, past>>

\* The status of the second answer is not looked at.
Resubmit ==
    /\ Runs("resubmit")
    /\ accepted' = IF Takes(snap.query) THEN accepted \cup {cur} ELSE accepted
    /\ at' = "remove"
    /\ Quiet /\ UNCHANGED <<list, store, valid, client, snap, cur, url, hv, past>>

Remove ==
    /\ Runs("remove")
    /\ store' = store \ {cur}
    /\ at' = "top" /\ done' = done \cup {cur} /\ cur' = NoEvent
    /\ Quiet /\ UNCHANGED <<list, accepted, valid, client, snap, url, hv, mixed, cuts>>

Main ==
    \/ MainRedis \/ Snapshot \/ LPop \/ NoRecords \/ Popped \/ Query
    \/ Runs("auth") /\ PAT_Auth("requery")
    \/ Runs("auth2") /\ PAT_Auth("resubmit")
    \/ Submit \/ Resubmit \/ Remove

Next ==
    \/ World \/ Start \/ StartRefused \/ SigHandler
    \/ Monitor_State \/ PollFails \/ FetchFails
    \/ Main

Spec == Init /\ [][Next]_vars

\* The goroutines run, their requests have a timeout, and the service manager
\* starts the client again.  What happens outside is not forced.
FairSpec == Spec /\ WF_vars(Start) /\ WF_vars(Monitor_State) /\ WF_vars(Main)

-----------------------------------------------------------------------------
(* Properties                                                              *)

\* Every variable keeps its type.
SensorReloadTypeOK ==
    /\ edition \in Editions /\ signal \in Nat /\ level \in Nat /\ good \in Nat
    /\ list \subseteq Events /\ store \subseteq Events /\ accepted \subseteq Events
    /\ valid \in [Servers -> Nat] /\ calm \in (0..MaxEvents) \X (0..MaxFaults)
    /\ up \in BOOLEAN /\ client \in BOOLEAN
    /\ Config \in [Fields -> {Zero} \cup Editions]
    /\ mon \in {"off", "debug", "hash", "fetch", "lock", "decode", "close", "redis"}
    /\ D \in Nat /\ debug_level_old \in Nat /\ reload_hash_old \in Nat \cup {Denied}
    /\ got \in {0} \cup Editions /\ air \in Nat /\ tries \in 0..MaxTries - 1
    /\ at \in {"off", "init", "top", "pop", "popped", "query", "auth", "requery",
              "submit", "auth2", "resubmit", "remove"}
    /\ snap \in [query : {Zero} \cup Editions, path : {Zero} \cup Editions,
                 open : BOOLEAN]
    /\ cur \in Events \cup {NoEvent} /\ url \in {Zero} \cup Editions
    /\ hv \in Servers \X Nat
    /\ signalled \in Editions /\ first \in Nat \cup {Denied}
    /\ loaded \in {0} \cup Editions
    /\ done \subseteq Events /\ mixed \subseteq Events /\ cuts \in Nat

Holding == {"pop", "popped", "query", "auth", "requery", "submit", "auth2",
            "resubmit", "remove"}

\* From its snapshot to the end of an event main works with one accepted edition,
\* whole: it asks and submits to the server, and reads the store, that were
\* configured together, however often the monitor loads in between.
SnapshotOfOneEdition ==
    at \in Holding => snap.query = snap.path /\ snap.path \in Editions \ Bad

\* A file is deleted though no server has it only if, during its event, a token
\* was renewed for another configuration than the one main submits under, or
\* got no answer.  (A token that expires at any other moment, reload signals,
\* restarts: none of them deletes a file that was not accepted.)
DeletionExplained == Events \ store \subseteq accepted \cup mixed

\* An event that main took off the list and is not done with is in its hand, or
\* was lost in the one request that was under way when the redis client was
\* closed or the process ended: each of these costs one event at most.
CutCostsOneEvent ==
    Cardinality(Events \ (list \cup done \cup {cur})) =< cuts

\* A reload signalled after the first poll, and taken for done, made the monitor
\* load the edition of that time or a later one: neither a signal that arrives
\* during a load, nor one hidden behind an expired token, is taken for the one
\* being served.
NoSensorReloadMissed ==
    up /\ mon \in {"debug", "hash"} /\ reload_hash_old = signal /\ signal # first
        => loaded >= signalled

\* Together: main and the monitor share Config, the redis client and the reload
\* hash, and neither sees half of what the other does to them.
SensorInv ==
    /\ SensorReloadTypeOK
    /\ SnapshotOfOneEdition
    /\ CutCostsOneEvent
    /\ NoSensorReloadMissed

Loaded(e) == Config = Whole(e)

\* The monitor holds JSONAir's refusal for the reload hash, and its token is not
\* good: every poll returns the same refusal, and only a load renews the token.
Deaf == reload_hash_old = Denied /\ air # good

\* The last configuration, once signalled and acceptable to the process, ...
Announced ==
    signalled = edition /\ edition \notin Bad /\ level \notin Unknown

\* ... is the one in use in the end, unless the monitor is deaf or took the
\* signal, raised before its first poll, for the one it started with.
ReloadTakesEffectUnlessDeaf ==
    <>[]Announced =>
        \/ <>[](up /\ ~Locked /\ Loaded(edition))
        \/ <>[](up /\ Deaf)
        \/ <>[](up /\ first = signal)
=============================================================================
