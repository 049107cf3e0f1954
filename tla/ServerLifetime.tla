--------------------------- MODULE ServerLifetime ---------------------------
(***************************************************************************)
(* highvolt-server from its first instruction to its last: the steps of    *)
(* main up to the listener, the signals that arrive meanwhile and later,   *)
(* the goroutines that reload the configuration under the start, requests  *)
(* in flight, and the two ways to stop, which the same signal sets off:    *)
(* main drains its connections, SigHandler calls os.Exit.                  *)
(*                                                                         *)
(* Fetching is ConfigReload's without the tokens, and loading is its       *)
(* Load_Config with the decoding in one step.  A setting holds the edition *)
(* its value is from, or Default, or Zero; what a start step read of a     *)
(* setting is kept in used.                                                *)
(***************************************************************************)
EXTENDS Integers, Sequences

CONSTANTS
    Connections,
    Monitors,      \* which of Monitor_Config and Monitor_Reload are there
    Environments,  \* the environments the process may be started in
    MaxTries,      \* attempts of GetConfigJSON: 10 in the code
    MaxEdits, MaxSignals, MaxFaults   \* bounds

Editions == 1..MaxEdits

ASSUME LifetimeAssumption ==
    /\ MaxTries \in Nat \ {0} /\ MaxEdits \in Nat \ {0}
    /\ Monitors \subseteq {"poll", "reload"}
    /\ MaxSignals \in Nat /\ MaxFaults \in Nat

\* The environment: what it must have, and what must be a number but zero.
Texts == {"RUNAS", "JSONAIR_PAT", "JSONAIR_URL", "JSONAIR_TYPE",
          "JSONAIR_NAME", "JWT_TOKEN_SECRET", "HIGHVOLT_PAT"}
Numbers == {"CONFIG_SLEEP", "RELOAD_SLEEP", "DEBUG_SLEEP", "JWT_TOKEN_EXPIRE"}

ASSUME EnvironmentAssumption ==
    Environments \subseteq [Texts \cup Numbers -> {"unset", "text", "0", "-1", "1"}]

\* The settings that main reads once, when it starts what they are about.
Settings == {"write_backends", "max_workers", "haproxy_enabled", "http_listen"}
Defaulted == {"write_backends", "max_workers"}
Zero == -1
Default == 0
Unread == -2

Loaders == Monitors \cup {"hup"}   \* hup: SigHandler
Threads == Loaders \cup {"main"}
NoOne == "nobody"

Stops == {"term", "abrt"}   \* SIGINT is treated as SIGTERM is
Signals == Stops \cup {"hup"}
Buffer == 2

VARIABLES
    env,
    edition,       \* the configuration JSONAir has
    C, lock,       \* models.C, and who holds ConfigMu for writing
    pc, got, tries,    \* of each thread: its place, what it fetched, attempts
    pool,          \* has Init_Queue been called?
    channel,       \* signalChannel
    ctx,           \* NotifyContext's context: "none", "live" or "done"
    connection,    \* what becomes of each: one that is busy has a request
    exit,          \* how the process ended, or "running"
    sent, faults

\* History, read by the properties only.
VARIABLES
    owed,          \* no configuration was asked for since the last SIGHUP
    used,          \* what main has read of the settings, until it serves
    torn,          \* the settings main read while ConfigMu was held
    calm           \* those it has read since the last load, while it was not

loading == <<C, lock, pc, got, tries>>
signals == <<channel, ctx, sent, owed>>
past == <<used, torn, calm>>
vars == <<env, edition, loading, pool, signals, connection, exit, faults, past>>

Up == exit = "running"
At(t, place) == Up /\ pc[t] = place
Goto(t, place) == pc' = [pc EXCEPT ![t] = place]
Fault == faults < MaxFaults /\ faults' = faults + 1

Decoded(e) == [s \in Settings |-> e]

-----------------------------------------------------------------------------
(* Start and end of the process                                            *)

Init ==
    /\ env \in Environments
    /\ edition = 1
    /\ C = [s \in Settings |-> Zero] /\ lock = NoOne
    /\ pc = [t \in Threads |-> IF t = "main" THEN "notify" ELSE "off"]
    /\ got = [t \in Threads |-> 0] /\ tries = [t \in Threads |-> 0]
    /\ pool = FALSE
    /\ channel = <<>> /\ ctx = "none"
    /\ connection = [k \in Connections |-> "idle"]
    /\ exit = "running"
    /\ sent = 0 /\ faults = 0
    /\ owed = FALSE /\ used = [s \in Settings |-> Unread] /\ torn = {} /\ calm = {}

Forget == used' = [s \in Settings |-> Unread] /\ torn' = {} /\ calm' = {}

\* The process ends, with every goroutine and connection it has.
End(how) ==
    /\ exit' = how
    /\ pc' = [t \in Threads |-> "off"]
    /\ connection' = [k \in Connections |->
                      IF connection[k] = "busy" THEN "cut" ELSE connection[k]]
    /\ C' = [s \in Settings |-> Zero] /\ lock' = NoOne
    /\ got' = [t \in Threads |-> 0] /\ tries' = [t \in Threads |-> 0]
    /\ pool' = FALSE
    /\ channel' = <<>> /\ ctx' = "none"
    /\ owed' = FALSE /\ Forget
    /\ UNCHANGED <<env, edition>>

\* A check fails: os.Exit(1).
Fail == Fault /\ End("failed") /\ UNCHANGED sent

-----------------------------------------------------------------------------
(* GetConfigJSON and Load_Config, of main and of the goroutines            *)

Fetch(t) ==
    /\ At(t, "fetch")
    /\ got' = [got EXCEPT ![t] = edition]
    /\ tries' = [tries EXCEPT ![t] = 0]
    /\ Goto(t, "lock")
    /\ UNCHANGED <<env, edition, C, lock, pool, signals, connection, exit, faults, past>>

\* Any answer but 200, or none: the next attempt, os.Exit(1) after the last.
FetchFails(t) ==
    /\ At(t, "fetch")
    /\ \/ /\ Fault
          /\ tries[t] + 1 < MaxTries
          /\ tries' = [tries EXCEPT ![t] = @ + 1]
          /\ UNCHANGED <<env, edition, C, lock, pc, got, pool, signals, connection,
                         exit, past>>
       \/ tries[t] + 1 = MaxTries /\ Fail

\* Mutant of Reset: ConfigMu is taken when the struct has been reset and decoded.
Reset_Unlocked(t) ==
    /\ At(t, "lock") /\ lock = NoOne
    /\ C' = [s \in Settings |-> Zero]
    /\ Goto(t, "defaults")
    /\ calm' = {}
    /\ UNCHANGED <<env, edition, lock, got, tries, pool, signals, connection, exit,
                   faults, used, torn>>

\* ConfigMu.Lock() and models.C = models.Config_Struct{}
Reset(t) ==
    /\ At(t, "lock") /\ lock = NoOne
    /\ lock' = t
    /\ C' = [s \in Settings |-> Zero]
    /\ Goto(t, "defaults")
    /\ calm' = {}
    /\ UNCHANGED <<env, edition, got, tries, pool, signals, connection, exit, faults, used, torn>>

SetDefaults(t) ==
    /\ At(t, "defaults")
    /\ C' = [s \in Settings |-> IF s \in Defaulted THEN Default ELSE C[s]]
    /\ Goto(t, "decode")
    /\ UNCHANGED <<env, edition, lock, got, tries, pool, signals, connection, exit, faults, past>>

\* Where a thread goes on after Load_Config.
After(t) == CASE t = "main" -> "go"
              [] t = "hup" -> "wait"
              [] OTHER -> "sleep"

\* json.Unmarshal and the checks, then the deferred Unlock.
Decode(t) ==
    /\ At(t, "decode")
    /\ C' = Decoded(got[t]) /\ lock' = NoOne
    /\ got' = [got EXCEPT ![t] = 0]
    /\ Goto(t, After(t))
    /\ UNCHANGED <<env, edition, tries, pool, signals, connection, exit, faults, past>>

\* The JSON does not decode, or a check refuses it: os.Exit(1).
Refuse(t) == At(t, "decode") /\ Fail

Load(t) == Fetch(t) \/ FetchFails(t) \/ Reset(t) \/ SetDefaults(t) \/ Decode(t) \/ Refuse(t)

\* CONFIG_SLEEP is over, or the reload hash has changed.
Wake(t) ==
    /\ At(t, "sleep")
    /\ Goto(t, "fetch")
    /\ UNCHANGED <<env, edition, C, lock, got, tries, pool, signals, connection, exit, faults, past>>

-----------------------------------------------------------------------------
(* main                                                                    *)

\* The order of the start; the first fetch and load lead from "fetch" to "go".
Following ==
    [notify |-> "env", env |-> "auth", auth |-> "fetch",
     go |-> "debug", debug |-> "write_backends",
     write_backends |-> "max_workers", max_workers |-> "haproxy_enabled",
     haproxy_enabled |-> "monitors",
     monitors |-> "context", context |-> "cert", cert |-> "http_listen",
     http_listen |-> "drop", drop |-> "serving"]

Steps == DOMAIN Following

\* What Load_Env lets pass: a number must not be zero, but may be negative.
Complete(e) ==
    /\ \A s \in Texts : e[s] # "unset"
    /\ \A s \in Numbers : e[s] \in {"-1", "1"}

Load_Env ==
    /\ At("main", "env")
    /\ IF Complete(env)
       THEN /\ Goto("main", Following["env"])
            /\ UNCHANGED <<env, edition, C, lock, got, tries, pool, signals,
                           connection, exit, faults, past>>
       ELSE End("failed") /\ UNCHANGED <<sent, faults>>

\* signal.Notify; PAT_Auth, which ends the process or goes on without a token;
\* GetDebugLevel; Monitor_Queue; NotifyContext; the certificate; DropPrivileges.
Proceed ==
    \E s \in Steps \ (Settings \cup {"env"}) :
        /\ At("main", s)
        /\ pc' = [t \in Threads |->
                     CASE t = "main" -> Following[s]
                       [] s = "go" /\ t = "poll" -> "sleep"
                       [] s = "go" /\ t = "hup" -> "wait"
                       [] s = "monitors" /\ t = "reload" -> "sleep"
                       [] OTHER -> pc[t]]
        /\ ctx' = IF s = "context" THEN "live" ELSE ctx
        /\ IF Following[s] = "serving" THEN Forget ELSE UNCHANGED past
        /\ UNCHANGED <<env, edition, C, lock, got, tries, pool, channel, sent,
                       owed, connection, exit, faults>>

\* Those of these steps that may fail, and the listener.
StepFails ==
    /\ \E s \in {"auth", "debug", "write_backends", "cert", "http_listen", "drop"} :
           At("main", s)
    /\ Fail

\* What a reader without ConfigMu finds: json.Unmarshal writes field by field, so
\* that before its end a setting is as it was or decoded already.
MayRead(s) == {C[s]} \cup {got[t] : t \in {u \in Loaders : At(u, "decode")}}

\* Init_Store, Init_Queue, the agent and net.Listen: each reads its setting
\* without ConfigMu.
StartReading(s) ==
    /\ At("main", s)
    /\ \E v \in MayRead(s) : used' = [used EXCEPT ![s] = v]
    /\ IF lock = NoOne THEN calm' = calm \cup {s} /\ UNCHANGED torn
                       ELSE torn' = torn \cup {s} /\ UNCHANGED calm
    /\ pool' = (pool \/ s = "max_workers")
    /\ Goto("main", Following[s])
    /\ UNCHANGED <<env, edition, C, lock, got, tries, signals, connection, exit, faults>>

\* server.Serve returns an error: os.Exit(1).
ServeFails == At("main", "serving") /\ Fail

\* select: the context is done; Shutdown closes the listener.
Drain ==
    /\ At("main", "serving") /\ ctx = "done"
    /\ Goto("main", "draining")
    /\ UNCHANGED <<env, edition, C, lock, got, tries, pool, signals, connection,
                   exit, faults, past>>

\* Shutdown returns when no connection is busy, and main returns, ...
Shutdown ==
    /\ At("main", "draining")
    /\ \A k \in Connections : connection[k] # "busy"
    /\ End("drained") /\ UNCHANGED <<sent, faults>>

\* ... or after thirty seconds.
ShutdownTimeout == At("main", "draining") /\ Fault /\ End("timeout") /\ UNCHANGED sent

\* The logger cannot open syslog: log.Fatalf, whoever it was that logged.
LoggerFails == Up /\ pc["main"] # "notify" /\ Fail

Main ==
    \/ Proceed \/ Load_Env \/ StepFails
    \/ \E s \in Settings : StartReading(s)
    \/ Load("main")
    \/ ServeFails \/ Drain \/ Shutdown \/ ShutdownTimeout

-----------------------------------------------------------------------------
(* Signals                                                                 *)

\* What signal.Notify makes of a signal: it does not block.
Put(s) == IF Len(channel) < Buffer THEN Append(channel, s) ELSE channel

Signal(s) ==
    /\ Up /\ pc["main"] # "notify"
    /\ sent < MaxSignals /\ sent' = sent + 1
    /\ channel' = Put(s)
    /\ ctx' = IF ctx = "live" /\ s = "term" THEN "done" ELSE ctx
    /\ owed' = (owed \/ s = "hup")
    /\ UNCHANGED <<env, edition, loading, pool, connection, exit, faults, past>>

\* Before signal.Notify, a signal ends the process.
SignalEarly ==
    /\ At("main", "notify")
    /\ sent < MaxSignals /\ sent' = sent + 1
    /\ End("killed") /\ UNCHANGED faults

\* SIGHUP: the configuration is fetched and loaded.
TakeHup ==
    /\ At("hup", "wait") /\ channel # <<>> /\ Head(channel) = "hup"
    /\ channel' = Tail(channel)
    /\ owed' = FALSE
    /\ Goto("hup", "fetch")
    /\ UNCHANGED <<env, edition, C, lock, got, tries, pool, ctx, sent, connection,
                   exit, faults, past>>

\* Mutant of TakeStop: it stops the queue but not the process.
TakeStop_QueueOnly ==
    /\ At("hup", "wait") /\ channel # <<>> /\ Head(channel) \in Stops
    /\ channel' = Tail(channel)
    /\ UNCHANGED <<env, edition, loading, pool, ctx, sent, owed, connection, exit,
                   faults, past>>

\* Any other: Shutdown_Queue and os.Exit(0).  Before Init_Queue CancelQueue is
\* nil, and calling it is a panic.
TakeStop ==
    /\ At("hup", "wait") /\ channel # <<>> /\ Head(channel) \in Stops
    /\ End(IF pool THEN "stopped" ELSE "panic")
    /\ UNCHANGED <<sent, faults>>

SigHandler == TakeHup \/ TakeStop \/ Load("hup")

-----------------------------------------------------------------------------
(* The world                                                               *)

Edit ==
    /\ edition < MaxEdits
    /\ edition' = edition + 1
    /\ UNCHANGED <<env, loading, pool, signals, connection, exit, faults, past>>

\* A request on a connection the listener accepted.
Open(k) ==
    /\ At("main", "serving") /\ connection[k] = "idle"
    /\ connection' = [connection EXCEPT ![k] = "busy"]
    /\ UNCHANGED <<env, edition, loading, pool, signals, exit, faults, past>>

\* Its handler writes the answer, and the connection waits for the next request.
Answer(k) ==
    /\ Up /\ connection[k] = "busy"
    /\ connection' = [connection EXCEPT ![k] = "idle"]
    /\ UNCHANGED <<env, edition, loading, pool, signals, exit, faults, past>>

Next ==
    \/ Main \/ LoggerFails
    \/ \E l \in Monitors : Wake(l) \/ Load(l)
    \/ SigHandler
    \/ \E s \in Signals : Signal(s)
    \/ SignalEarly
    \/ Edit
    \/ \E k \in Connections : Open(k) \/ Answer(k)

Spec == Init /\ [][Next]_vars

\* Every goroutine goes on, its attempts to fetch end, a request has a timeout, and
\* Go's mutexes starve nobody.  Nothing makes anyone fail, be slow, edit or send a
\* signal: the steps that do are not among these.
GoesOn(t) == Fetch(t) \/ SetDefaults(t) \/ Decode(t)
MainGoesOn ==
    \/ Proceed \/ Load_Env \/ \E s \in Settings : StartReading(s)
    \/ GoesOn("main") \/ Reset("main")
    \/ Drain \/ Shutdown

FairSpec ==
    /\ Spec
    /\ WF_vars(MainGoesOn)
    /\ WF_vars(TakeHup) /\ WF_vars(TakeStop)
    /\ WF_vars(GoesOn("hup")) /\ SF_vars(Reset("hup"))
    /\ \A l \in Monitors : WF_vars(Wake(l)) /\ WF_vars(GoesOn(l)) /\ WF_vars(Reset(l))
    /\ \A k \in Connections : WF_vars(Answer(k))

-----------------------------------------------------------------------------
(* Properties                                                              *)

\* Every variable keeps its type.
LifetimeTypeOK ==
    /\ env \in Environments /\ edition \in Editions
    /\ C \in [Settings -> {Zero, Default} \cup Editions]
    /\ lock \in Threads \cup {NoOne}
    /\ pc \in [Threads -> Steps \cup {"off", "wait", "sleep", "fetch", "lock",
                                      "defaults", "decode", "serving", "draining"}]
    /\ got \in [Threads -> {0} \cup Editions]
    /\ tries \in [Threads -> 0..MaxTries - 1]
    /\ pool \in BOOLEAN
    /\ used \in [Settings -> {Unread, Zero, Default} \cup Editions]
    /\ channel \in Seq(Signals) /\ Len(channel) =< Buffer
    /\ ctx \in {"none", "live", "done"}
    /\ connection \in [Connections -> {"idle", "busy", "cut"}]
    /\ exit \in {"running", "failed", "killed", "panic", "stopped", "drained", "timeout"}
    /\ sent \in 0..MaxSignals /\ faults \in 0..MaxFaults
    /\ owed \in BOOLEAN /\ torn \subseteq Settings /\ calm \subseteq Settings

\* Whatever loads run while main starts: a setting it finds reset or at its default
\* is one it read while ConfigMu was held, and all that it reads between two loads
\* is of one edition, decoded to the end.
StartExplained ==
    /\ \A s \in Settings : used[s] \in {Zero, Default} => s \in torn
    /\ \E e \in Editions : \A s \in calm : used[s] = e

\* Together: the process is in a state it can be in, and main, which takes no lock,
\* is given a setting nobody configured only in the middle of a load.
LifetimeInv == LifetimeTypeOK /\ StartExplained

\* A stop signal that got into the channel, or that ended the context of a
\* server that serves, ends the process, although SigHandler may be loading a
\* configuration, and other goroutines too.
StopObeyed ==
    Up /\ ((\E i \in DOMAIN channel : channel[i] \in Stops) \/ ctx = "done") ~> ~Up

\* A SIGHUP is followed by a fetch that starts after it, even one that the full
\* channel drops.
HupObserved == owed ~> ~owed

\* Together: of the signals, the channel of two and the one goroutine that reads it
\* lose nothing but a stop that finds the channel full before main has its context.
SignalsActedUpon == StopObeyed /\ HupObserved

\* main.go: the signal's connections are drained.
DrainsBeforeStopping ==
    exit = "stopped" => \A k \in Connections : connection[k] # "cut"
=============================================================================
