---------------------------- MODULE ConfigReload ----------------------------
(***************************************************************************)
(* The configuration of highvolt-server and the three goroutines that      *)
(* replace it while it is in use: Monitor_Config polls JSONAir,            *)
(* Monitor_Reload waits for a new reload hash (and debug level), and       *)
(* SigHandler reacts to SIGHUP.  Each fetches the configuration and calls  *)
(* Load_Config, which resets models.C and decodes the JSON into it while   *)
(* it holds ConfigMu; the queue and the agent read models.C without it.    *)
(*                                                                         *)
(* A configuration is the number of its edition; a field of models.C holds *)
(* the edition its value is from, or Default, or Zero.                     *)
(***************************************************************************)
EXTENDS Integers, FiniteSets

CONSTANTS
    Fields,      \* fields of models.C
    Defaulted,   \* those Load_Config gives a default
    LeftOut,     \* LeftOut[e]: the fields the JSON of edition e does not have
    Bad,         \* the editions Load_Config's checks refuse
    Unknown,     \* the debug levels with an option Set_Debug does not know
    MaxTries,    \* attempts of GetConfigJSON: 10 in the code
    MaxEdits, MaxReloads, MaxLevels, MaxExpiries, MaxHups, MaxFaults  \* bounds

Editions == 1..MaxEdits

ASSUME EditionsAssumption ==
    /\ MaxEdits \in Nat \ {0} /\ MaxTries \in Nat \ {0}
    /\ MaxReloads \in Nat /\ MaxLevels \in Nat /\ MaxExpiries \in Nat
    /\ MaxHups \in Nat /\ MaxFaults \in Nat
    /\ Bad \subseteq Editions \ {1} /\ Unknown \subseteq Nat
ASSUME FieldsAssumption ==
    /\ IsFiniteSet(Fields) /\ Defaulted \subseteq Fields
    /\ LeftOut \in [Editions -> SUBSET Fields]

Loaders == {"poll", "reload", "hup"}
NoOne == "nobody"
Zero == -1
Default == 0
NoJSON == 0      \* the "" of a struct that was reset
NoHash == 0      \* the "" that a failed request leaves
NoLevel == 0     \* "" again: no debug flag is set

VARIABLES
    edition, signal, level, good,   \* JSONAir: configuration, reload hash,
                                    \* debug level, the token it accepts
    up,                \* is the process running?
    C, JSON,           \* models.C, and its field JSON
    lock,              \* who holds ConfigMu for writing
    pc, got, token, tries,  \* of each loader: its place, the configuration it
                            \* fetched, its bearer token, its attempts
    reload_hash, old_reload_hash,
    old_debug_string, X,    \* X: the level debug.X was last set to
    hups, faults

\* History, read by the properties only.
VARIABLES
    signalled,   \* the edition when JSONAir's reload hash last changed
    first,       \* the hash Monitor_Reload found when it started
    mine         \* the edition Monitor_Reload last loaded

jsonair == <<edition, signal, level, good>>
loading == <<pc, got, token, tries>>
hashes == <<reload_hash, old_reload_hash>>
debug == <<old_debug_string, X>>
past == <<signalled, first, mine>>
vars == <<jsonair, up, C, JSON, lock, loading, hashes, debug, hups, faults, past>>

-----------------------------------------------------------------------------
\* What Load_Config makes of an edition.
Decoded(e) ==
    [f \in Fields |-> IF f \notin LeftOut[e] THEN e
                      ELSE IF f \in Defaulted THEN Default ELSE Zero]

\* main: the first fetch and load, then the goroutines.  The debug level is
\* fetched and logged.
Started ==
    /\ up' = TRUE
    /\ C' = Decoded(edition) /\ JSON' = NoJSON
    /\ pc' = [l \in Loaders |-> CASE l = "poll" -> "fetch"
                                  [] l = "reload" -> "first"
                                  [] l = "hup" -> "rest"]
    /\ token' = [l \in Loaders |-> good]

Init ==
    /\ edition = 1 /\ signal = 1 /\ level = 1 /\ good = 1
    /\ up = FALSE
    /\ C = [f \in Fields |-> Zero] /\ JSON = NoJSON
    /\ lock = NoOne
    /\ pc = [l \in Loaders |-> "rest"] /\ got = [l \in Loaders |-> 0]
    /\ token = [l \in Loaders |-> 0] /\ tries = [l \in Loaders |-> 0]
    /\ reload_hash = NoHash /\ old_reload_hash = NoHash
    /\ old_debug_string = NoLevel /\ X = NoLevel
    /\ hups = 0 /\ faults = 0
    /\ signalled = 1 /\ first = NoHash /\ mine = 0

Start ==
    /\ ~up /\ edition \notin Bad
    /\ Started
    /\ UNCHANGED <<jsonair, lock, got, tries, hashes, debug, hups, faults, past>>

\* os.Exit(1): nothing of the process is left.
Exit ==
    /\ up' = FALSE
    /\ C' = [f \in Fields |-> Zero] /\ JSON' = NoJSON
    /\ lock' = NoOne
    /\ pc' = [l \in Loaders |-> "rest"] /\ got' = [l \in Loaders |-> 0]
    /\ token' = [l \in Loaders |-> 0] /\ tries' = [l \in Loaders |-> 0]
    /\ reload_hash' = NoHash /\ old_reload_hash' = NoHash
    /\ old_debug_string' = NoLevel /\ X' = NoLevel
    /\ first' = NoHash /\ mine' = 0
    /\ UNCHANGED <<jsonair, hups, signalled>>

Fault == faults < MaxFaults /\ faults' = faults + 1

At(l, place) == up /\ pc[l] = place
Goto(l, place) == pc' = [pc EXCEPT ![l] = place]

-----------------------------------------------------------------------------
(* JSONAir and its users                                                   *)

Process == <<up, C, JSON, lock, loading, hashes, debug, faults, first, mine>>

Edit ==
    /\ edition < MaxEdits
    /\ edition' = edition + 1
    /\ UNCHANGED <<signal, level, good, Process, hups, signalled>>

Signal ==
    /\ signal =< MaxReloads
    /\ signal' = signal + 1
    /\ signalled' = edition
    /\ UNCHANGED <<edition, level, good, Process, hups>>

SetLevel ==
    /\ level =< MaxLevels
    /\ level' = level + 1
    /\ UNCHANGED <<edition, signal, good, Process, hups, signalled>>

Expire ==
    /\ good =< MaxExpiries
    /\ good' = good + 1
    /\ UNCHANGED <<edition, signal, level, Process, hups, signalled>>

JSONAir == Edit \/ Signal \/ SetLevel \/ Expire

-----------------------------------------------------------------------------
(* GetConfigJSON                                                           *)

\* Status 200: Monitor_Config compares, the others load.
Fetch(l) ==
    /\ At(l, "fetch") /\ token[l] = good
    /\ got' = [got EXCEPT ![l] = edition]
    /\ tries' = [tries EXCEPT ![l] = 0]
    /\ Goto(l, IF l = "poll" THEN "compare" ELSE "lock")
    /\ UNCHANGED <<jsonair, up, C, JSON, lock, token, hashes, debug, hups, faults, past>>

\* The next attempt, or os.Exit(1) after the last one.
NextTry(l, tok) ==
    \/ /\ tries[l] + 1 < MaxTries
       /\ tries' = [tries EXCEPT ![l] = @ + 1]
       /\ token' = [token EXCEPT ![l] = tok]
       /\ UNCHANGED <<jsonair, up, C, JSON, lock, pc, got, hashes, debug, hups, past>>
    \/ /\ tries[l] + 1 = MaxTries
       /\ Exit

\* No answer, or a status other than 200 and 401.
FetchFails(l) == At(l, "fetch") /\ Fault /\ NextTry(l, token[l])

\* 401: PAT_Auth fetches a token, ...
Unauthorized(l) ==
    /\ At(l, "fetch") /\ token[l] # good
    /\ NextTry(l, good)
    /\ UNCHANGED faults

\* ... returns "" when it gets no answer, or exits on a bad one.
AuthFails(l) ==
    /\ At(l, "fetch") /\ token[l] # good
    /\ Fault
    /\ NextTry(l, 0) \/ Exit

GetConfigJSON(l) == Fetch(l) \/ FetchFails(l) \/ Unauthorized(l) \/ AuthFails(l)

-----------------------------------------------------------------------------
(* Load_Config                                                             *)

\* Mutant of Reset: the struct is not reset.
Reset_Keeps(l) ==
    /\ At(l, "lock") /\ lock = NoOne
    /\ lock' = l
    /\ Goto(l, "defaults")
    /\ UNCHANGED <<jsonair, up, C, JSON, got, token, tries, hashes, debug, hups, faults, past>>

\* ConfigMu.Lock(); models.C = models.Config_Struct{}
Reset(l) ==
    /\ At(l, "lock") /\ lock = NoOne
    /\ lock' = l
    /\ C' = [f \in Fields |-> Zero] /\ JSON' = NoJSON
    /\ Goto(l, "defaults")
    /\ UNCHANGED <<jsonair, up, got, token, tries, hashes, debug, hups, faults, past>>

SetDefaults(l) ==
    /\ At(l, "defaults")
    /\ C' = [f \in Fields |-> IF f \in Defaulted THEN Default ELSE C[f]]
    /\ Goto(l, "decode")
    /\ UNCHANGED <<jsonair, up, JSON, lock, got, token, tries, hashes, debug, hups, faults, past>>

\* What json.Unmarshal has still to write.
Undecoded(l) == {f \in Fields \ LeftOut[got[l]] : C[f] # got[l]}

\* json.Unmarshal writes one field.
Decode(l) ==
    /\ At(l, "decode")
    /\ \E f \in Undecoded(l) : C' = [C EXCEPT ![f] = got[l]]
    /\ UNCHANGED <<jsonair, up, JSON, lock, loading, hashes, debug, hups, faults, past>>

\* The checks pass, and the deferred Unlock.
Unlock(l) ==
    /\ At(l, "decode") /\ Undecoded(l) = {} /\ got[l] \notin Bad
    /\ lock' = NoOne
    /\ got' = [got EXCEPT ![l] = 0]

\* A check fails: os.Exit(1).
Refuse(l) ==
    /\ At(l, "decode") /\ Undecoded(l) = {} /\ got[l] \in Bad
    /\ Exit
    /\ UNCHANGED faults

Load_Config(l) == Reset(l) \/ SetDefaults(l) \/ Decode(l) \/ Refuse(l)

-----------------------------------------------------------------------------
(* Monitor_Config                                                          *)

\* Mutant of Compare: the comparison is inverted.
Compare_Inverted ==
    /\ At("poll", "compare") /\ lock = NoOne
    /\ Goto("poll", IF got["poll"] = JSON THEN "lock" ELSE "fetch")
    /\ UNCHANGED <<jsonair, up, C, JSON, lock, got, token, tries, hashes, debug,
                   hups, faults, past>>

\* currentConfigJSON != models.C.JSON, under RLock.
Compare ==
    /\ At("poll", "compare") /\ lock = NoOne
    /\ Goto("poll", IF got["poll"] # JSON THEN "lock" ELSE "fetch")
    /\ UNCHANGED <<jsonair, up, C, JSON, lock, got, token, tries, hashes, debug,
                   hups, faults, past>>

PollDone ==
    /\ Unlock("poll")
    /\ Goto("poll", "fetch")
    /\ UNCHANGED <<jsonair, up, C, JSON, token, tries, hashes, debug, hups,
                   faults, past>>

Monitor_Config ==
    GetConfigJSON("poll") \/ Compare \/ Load_Config("poll") \/ PollDone

-----------------------------------------------------------------------------
(* Monitor_Reload                                                          *)

\* GetReloadHash and GetDebugLevel look at no status: the answer to a request
\* without a good token has neither field, like none at all.
Reply(value, none, r) ==
    \/ r = value /\ token["reload"] = good /\ UNCHANGED faults
    \/ r = none /\ token["reload"] # good /\ UNCHANGED faults
    \/ r = none /\ Fault

FirstHash(h) ==
    /\ At("reload", "first")
    /\ Reply(signal, NoHash, h)
    /\ reload_hash' = h /\ old_reload_hash' = h /\ first' = h
    /\ Goto("reload", "level")
    /\ UNCHANGED <<jsonair, up, C, JSON, lock, got, token, tries, debug, hups,
                   signalled, mine>>

\* The level found at the start is remembered, and not set.
FirstLevel(d) ==
    /\ At("reload", "level")
    /\ Reply(level, NoLevel, d)
    /\ old_debug_string' = d
    /\ Goto("reload", "hash")
    /\ UNCHANGED <<jsonair, up, C, JSON, lock, got, token, tries, hashes, X,
                   hups, past>>

FirstLevelFails ==
    /\ At("reload", "level")
    /\ \/ token["reload"] # good /\ UNCHANGED faults
       \/ Fault
    /\ Exit

Hash(h) ==
    /\ At("reload", "hash")
    /\ Reply(signal, NoHash, h)
    /\ reload_hash' = h
    /\ Goto("reload", IF h # old_reload_hash THEN "fetch" ELSE "debug")
    /\ UNCHANGED <<jsonair, up, C, JSON, lock, got, token, tries,
                   old_reload_hash, debug, hups, past>>

\* Mutant of ReloadDone: the hash is asked for again after the load.
ReloadDone_Rereads ==
    /\ mine' = got["reload"]
    /\ Unlock("reload")
    /\ old_reload_hash' = signal
    /\ Goto("reload", "debug")
    /\ UNCHANGED <<jsonair, up, C, JSON, token, tries, reload_hash, debug, hups,
                   faults, signalled, first>>

ReloadDone ==
    /\ mine' = got["reload"]
    /\ Unlock("reload")
    /\ old_reload_hash' = reload_hash
    /\ Goto("reload", "debug")
    /\ UNCHANGED <<jsonair, up, C, JSON, token, tries, reload_hash, debug, hups,
                   faults, signalled, first>>

\* A changed level is set; then the sleep.
Level(d) ==
    /\ At("reload", "debug")
    /\ Reply(level, NoLevel, d)
    /\ d \in Unknown => d = old_debug_string
    /\ X' = IF d # old_debug_string THEN d ELSE X
    /\ old_debug_string' = d
    /\ Goto("reload", "hash")
    /\ UNCHANGED <<jsonair, up, C, JSON, lock, got, token, tries, hashes, hups,
                   past>>

\* Set_Debug: os.Exit(1) on an option it does not know.
LevelRefused(d) ==
    /\ At("reload", "debug")
    /\ Reply(level, NoLevel, d)
    /\ d \in Unknown /\ d # old_debug_string
    /\ Exit

Monitor_Reload ==
    \/ \E h \in {signal, NoHash} : FirstHash(h) \/ Hash(h)
    \/ \E d \in {level, NoLevel} : FirstLevel(d) \/ Level(d) \/ LevelRefused(d)
    \/ FirstLevelFails
    \/ GetConfigJSON("reload") \/ Load_Config("reload") \/ ReloadDone

-----------------------------------------------------------------------------
(* SigHandler                                                              *)

Hup ==
    /\ At("hup", "rest") /\ hups < MaxHups
    /\ hups' = hups + 1
    /\ Goto("hup", "fetch")
    /\ UNCHANGED <<jsonair, up, C, JSON, lock, got, token, tries, hashes, debug,
                   faults, past>>

HupDone ==
    /\ Unlock("hup")
    /\ Goto("hup", "rest")
    /\ UNCHANGED <<jsonair, up, C, JSON, token, tries, hashes, debug, hups,
                   faults, past>>

SigHandler == GetConfigJSON("hup") \/ Load_Config("hup") \/ HupDone

Next ==
    \/ JSONAir
    \/ Start
    \/ Monitor_Config \/ Monitor_Reload
    \/ Hup \/ SigHandler

Spec == Init /\ [][Next]_vars

\* The goroutines run, their requests have a timeout, and a server that exits
\* is started again.  What happens at JSONAir is not forced.
FairSpec ==
    /\ Spec
    /\ WF_vars(Start)
    /\ WF_vars(Monitor_Config) /\ WF_vars(Monitor_Reload) /\ WF_vars(SigHandler)

-----------------------------------------------------------------------------
(* Properties                                                              *)

\* Every variable keeps its type; no loader tries more often than it may.
ReloadTypeOK ==
    /\ edition \in Editions /\ signal \in Nat /\ level \in Nat /\ good \in Nat
    /\ up \in BOOLEAN
    /\ C \in [Fields -> {Zero, Default} \cup Editions]
    /\ JSON \in {NoJSON} \cup Editions
    /\ lock \in Loaders \cup {NoOne}
    /\ pc \in [Loaders -> {"rest", "first", "level", "hash", "fetch", "compare",
                           "lock", "defaults", "decode", "debug"}]
    /\ got \in [Loaders -> {0} \cup Editions]
    /\ token \in [Loaders -> Nat]
    /\ tries \in [Loaders -> 0..MaxTries - 1]
    /\ reload_hash \in Nat /\ old_reload_hash \in Nat
    /\ old_debug_string \in Nat /\ X \in Nat
    /\ hups \in Nat /\ faults \in Nat
    /\ signalled \in Editions /\ first \in Nat /\ mine \in {0} \cup Editions

\* Whoever takes ConfigMu reads all of one edition, with the defaults in the
\* fields it leaves out: nothing of an earlier edition, nothing half decoded.
LockedReadersSeeOne ==
    up /\ lock = NoOne => \E e \in Editions \ Bad : C = Decoded(e)

\* A reload that was signalled after Monitor_Reload started, and that it holds
\* for done, made it load the edition of that time or a later one: a signal
\* that arrives during a reload is not taken for the one being served.
NoReloadMissed ==
    up /\ old_reload_hash = signal /\ signal # first => mine >= signalled

\* However the loaders race -- one may fetch an old edition and load it after
\* another has loaded a newer one -- the edition JSONAir ends up with stays
\* loaded, as long as the process accepts it.
Converges ==
    <>[](up /\ lock = NoOne => C = Decoded(edition))
=============================================================================
