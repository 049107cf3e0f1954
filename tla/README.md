# A verification project for highvolt

highvolt analyses files with a language model: clients find files, ask the
server by hash whether a file is known, and submit what is not; the server
queues submissions on disk, workers extract images and text, ask the model for a
verdict, and index it in OpenSearch or OpenObserve. This directory holds TLA+
models of that code, TLC configurations that check them on small instances, and
TLAPS proofs of what holds for every size. Paths are relative to the
repository; `server/` stands for `cmd/highvolt-server/`.

    tlc -workers 2 -config QueueSafety.cfg QueueDeliveryMC.tla
    tlapm SubmissionQueueProofs.tla

`PROJECT.json` lists runs, mutants, theorems and hazards, and maps every
definition to the lines it models.

## 1. The system

| Component | Code | State it keeps | Operations | Talks to |
|---|---|---|---|---|
| Submission queue | `server/queue/*.go`, `server/submit.go` | the files of `queue_directory`, the channel `jobs`, the atomic `queue_size` | `Submit`/`WriteQueue` (one goroutine per request), `Monitor_Queue` (one goroutine), `Worker`/`DoWork` (`max_workers` goroutines) | processors, store, HAProxy agent |
| Process lifetime | `server/main.go`, `server/signal.go`, `server/config/env.go` | the channel of signals, the context of `NotifyContext`, requests in flight | the start, step by step; SIGHUP (reload), SIGINT/SIGTERM/SIGABRT (cancel the workers, `os.Exit(0)`), `http.Server.Shutdown` on the same signal | everything |
| HAProxy agent | `server/haproxy.go` | none; reads `queue_size` and `max_queue_size` | one answer per agent-check: `drain`, `100%`, or a percentage | HAProxy |
| Queries and stores | `server/query.go`, `server/db/*.go` | the two backends' documents | `Query` by hash, `Index_Document` to every write backend in turn | clients, workers |
| Configuration | `server/config/*.go`, `server/reload.go` | `models.C`, the reload hash, the bearer token | `Monitor_Config`, `Monitor_Reload`, SIGHUP; all three fetch and `Load_Config` | JSONAir; every reader of `models.C` |
| Processors | `server/processors/*.go`, `server/helpers/*.go` | temporary files | archive, PDF, office, image and text; aggregation of verdicts | LLM client |
| LLM client | `server/llm/llm.go` | none | one call with a timeout; clean-up of the answer's JSON | the model's API |
| Authentication | `server/jwt.go`, `server/auth/` | none | personal access token to bearer token, token check; the server's own JSONAir token | HTTP handlers |
| Rate limiter | `server/ratelimit.go` | a map of token buckets by address | look up, allow, clean up | the token handler |
| Voltage, Suricata, AWS-S3, AWS lambda clients | `cmd/clients/` | a registry of files done; a redis list; an S3 event; Suricata's client also a configuration that `Monitor_State` replaces | find, query, submit, record | the server, JSONAir, redis |
| Libraries | `internal/` | none | HTTP, tokens, logging, privileges | all |

What is hard here:

* **Concurrency.** Handlers, monitor, workers and agent share a directory, a
  channel and a counter with no lock over them; three goroutines reload one
  unlocked configuration, and the Suricata client does the same to its own; a
  limiter is looked up under a lock and asked after it.
* **Failure.** Every file operation of the queue has an error path of its own,
  and they differ: two of three give the counter back, one file is deleted
  because it could not be read, one error is never looked at.
* **Restarts.** The queue directory survives the process, its counter, channel
  and workers do not, and nothing is waited for when it stops.
* **Ordering.** Submissions are named by epoch and listed in natural order, but
  a listing is a snapshot that slow writers overtake.
* **At most / at least once.** Clients check a hash and submit later, retry, and
  delete or record what they have submitted on different grounds.

What makes each component correct:

| Component | Properties |
|---|---|
| Submission queue | nothing accepted vanishes unexplained; only whole submissions are analysed; no unexplained duplicate; order across seconds; a bounded loss on a stop; the counter means what its readers think; every request answered; every file worked off |
| HAProxy agent | a drained node recovers, and was drained for a reason; weights stay in range, or the excess is explained |
| Stores and queries | what a query finds was analysed; write backends agree when nothing fails; one document per hash in OpenSearch |
| Configuration | readers see one configuration, not half of one; a change is eventually loaded, once |
| Processors | the verdict returned is the one found; a clean one misses only what is listed; limits hold and truncate nothing; every analysis ends |
| Process lifetime | the start builds on no setting that nobody configured; a stop is obeyed, and a reload that was asked for is made |
| Rate limiter | each address sees one token bucket, clean-up or not; nobody is locked out for ever |
| Contents | what a client is done with was judged as what it is |
| Clients | no file is recorded as done that the server does not have; no event is lost, or it is known which |

## 2. Modules

    SubmissionQueue ----> QueueDelivery --INSTANCE--> DurableDelivery
          |                     |                        (abstract)
          +--> HAProxyAgent ----+--> SubmissionQueueProofs
    ConfigReload ----> ReloadWhileServing    (the queue's use of models.C)
          +--> ConfigReloadProofs
    Analysis ----> AnalysisProofs            (one step of SubmissionQueue: DoWork)
    VerdictStore --> ClientSession --+--> Registry --+--> Voltage
                                     |               +--> AwsS3
                                     +--> AwsS3Lambda
                                     +--> Suricata        all four --> Fleet
    Fleet -------> FleetProofs
    RateLimiter --INSTANCE--> TokenBucket (abstract)
          +--> RateLimiterProofs
    ServerLifetime, SensorReload, ContentVerdicts    (each by itself, each with
                                                      a module of Proofs)
    *MC modules give the constants of the TLC runs.

### SubmissionQueue

The core: everything that happens to a submission between the POST and the
index, with the process ending at any point and starting again.

| State | In the code |
|---|---|
| `writer[s]` | where the handler of `s` is in `Submit` and `WriteQueue`: `idle`, `counted` (after `queue_size.Add(1)`), `open`, `written`, `undo` (an error path before `Add(-1)`), `committed` (renamed), `failed`, the answers `202`, `400`, `500`, or `cut` by the end of the process |
| `epoch[s]`, `name[s]`, `whole[s]` | the file of `s`: its epoch, its suffix (`tmp`, `data`, or no file), and whether it holds all of the JSON |
| `queue_size` | the atomic of `queue.go:48` |
| `monitor`, `matches` | the statement `Monitor_Queue` is at, and what is left of its sorted listing |
| `jobs`, `work`, `exited` | the channel, what each worker holds, the workers that took `ctx.Done()` |
| `settled` | submissions indexed, or skipped by `DoWork` as nothing to analyse |
| `phase`, `stops`, `now`, `faults` | the process; and the bounded environment |

An action is what one goroutine does between two points where another can see
its effect. `Count`, `CreateTemp`/`CreateFails`, `Write`/`CloseFails`/
`WriteFails`, `Rename`/`RenameFails`, `Undo` and `Respond` are `WriteQueue`;
`Scan`, `Read`, `Send`, `Remove` and `Decrement` with the failures of each are
`Monitor_Queue`; `Take`, `Skip`, `Index`, `IndexFails` and `Quit` are `Worker`
and `DoWork`. `Signal` and `Exit` are `SigHandler` (`CancelQueue()`, then
`os.Exit(0)` with nothing in between that waits), `Crash` is any other end,
`Start` is `main` over the directory as it was left. The failed
`CreateTemp` keeps the counter incremented, and the counter of a new process
starts at zero whatever the directory holds, as in the code.

A payload is abstracted to the two things the pipeline tells apart: does
`SanityCheck` refuse it (`Malformed`), does `DoWork` analyse it
(`Analysable`). The 500 of `WriteQueue` is the code in the body: `WriteQueue`
always returns a nil error, and the HTTP status is 200. The random part of the
file name makes names unique and orders files of one second at random, so
`Listings` allows every order within an epoch.

Variables under "History" (`ahead`, `sent`, `again`, `dropped`, `leaked`,
`inherited`, `undeleted`) are read by properties only; no guard uses them.
`dropped` is what some branch of the code gives up: an unreadable file, a failed
index, or what only the process held when it ended.

### DurableDelivery and QueueDelivery

`DurableDelivery` is what a client may rely on: a submission is refused or
becomes durable; from then on it is queued, taken off the disk (at most
`Capacity` at a time), and settled or lost; settled and lost are for good; a stop
costs only what was taken. `QueueDelivery` defines the stage of a submission
over the state of the pipeline -- first by the disk, then by the process's memory --
and states that the pipeline implements it with `Capacity` twice
`max_workers`.

### HAProxyAgent

`Highvolt_HAProxy_Agent` around the queue, one check after another, with a step for
each value it reads, since queue and configuration move in between: `Load` reads
`queue_size`, `Compare` the limit for the first time, `Divide` for the second;
`WriteLost` is an answer that never gets to HAProxy. `limit` is
`models.C.Core.Max_Queue_Size`, which the agent reads without `ConfigMu`: `Reset`,
`Defaults` and `Decode` are what every poll's `Load_Config` does to it -- zero, the
default, and the edition's value if it gives one (`Limits`). `DrainMeansFull` says what
`drain` is worth: the limit in force was reached by the submissions that wait and the
failed `CreateTemp`s, or there was none at that moment. `Weights` is the code's
arithmetic: `int(float64(n)/float64(max)*100)` truncates towards zero and may come out
one short where the exact quotient is an integer, so it is a set of at most two
values, and a quotient by zero ends at 5%. `Route` (external) is HAProxy, which sends
no new request to a server whose agent last said `drain`.

### ConfigReload and ReloadWhileServing

The three goroutines that load the configuration -- `Monitor_Config`,
`Monitor_Reload`, and `SigHandler` on SIGHUP -- and `main` before them, each a
sequence of steps: fetch (with ten attempts, a new token after a 401, an exit
after the last), lock, reset, defaults, decode, validate, unlock.

| State | In the code |
|---|---|
| `C`, `JSON` | `models.C`, by the fields that readers tell apart: zero, the default, or from which edition; and its field `JSON` |
| `lock` | who holds `ConfigMu` for writing |
| `pc[l]`, `got[l]`, `token[l]`, `tries[l]` | where loader `l` is, the edition it fetched, its bearer token, its attempts in `GetConfigJSON` |
| `reload_hash`, `old_reload_hash`, `old_debug_string`, `X` | locals of `Monitor_Reload`; the level `debug.X` was last set to |
| `edition`, `signal`, `level`, `good` (external) | JSONAir: configuration, reload hash, debug level, the token it accepts |
| `up`, `hups`, `faults` | the process, and the bounded environment |

Steps inside the lock are separate actions because `WriteQueue` and
`Monitor_Queue` read `models.C.Core.Queue_Directory` without it.
`ReloadWhileServing` adds these two readers: a submission is filed where the
directory points at that moment, and taken only where the monitor looks. No queue
directory is the one for temporary files (`DirectoryAssumption`).

### Analysis

What `DoWork` makes of one submission: `Submit_Data` and the processors as a
stack of calls, since `Submit_Archive` and `Submit_Data` call each other.

| State | In the code |
|---|---|
| `stack` | the calls under way. A call holds the local variables that matter: `next` (entries or pages done), `out` (the extracted files not looked at yet, the rest of `file_list`), `total` (`totalExtracted`, or the number of matches), `first` (`page_one_ai`), `member` (`f`), `at` (the part of the function it is in) |
| `ret` | the verdict the last call returned, by the fields later code reads or writes |
| `root`, `faults` | the submission; the bounded failures |

A file is what it is made of: entries of an archive with the rank of their names in
natural order, pages of a PDF (which have no parts of their own, like images and texts),
the PDF an office document becomes. Nothing says that the nesting ends, as nothing in
the code does: an archive may hold itself, `Inside` is the least set closed under
taking parts, and the stack may grow for ever. What kind of data
the model sees in which part is chosen at the start. `blank` marks a member that
could not be read and is submitted as the empty string all the same
(`archive.go:288-300`). An error return of a processor is `GiveUp`, whatever its
reason text. "History" variables (`sensitive`, `found`, `excused`)
are read by properties, and by the model's answer, only.

### VerdictStore, ClientSession and the clients: Fleet

`VerdictStore` is the server as a client sees it: submissions accepted (`queue`,
which `SubmissionQueue` has in detail), one worker that writes a document to each
backend (`job`, `left`), the documents (`docs[b][h]`: replaced by id in
OpenSearch, appended in OpenObserve), and `Query`, with what a failed search
becomes. A document is the hash of its file. How long it takes to become
searchable is not told apart from how long it is queued.

| State | In the code |
|---|---|
| `pc[c]`, `cur[c]`, `todo[c]` | where client `c` is, the file, object or event in hand, and those before it |
| `token[c]` | whether its bearer token is one the server takes |
| `registry[c]`, `disk[c]` | the map of a pass, and what its file would load as |
| `limbo` | submissions a client gave up on that may still arrive |
| `unseen`, `stored` (external) | Suricata's traffic, its file store and redis list |
| `faults`, `expiries` | the bounded environment |

`ClientSession` is the exchange the four programs each have a copy of: query; on
401 a new token and a second query whose status nobody looks at; submit unless
the body says 200; on 401 once more. `Registry` is what Voltage and AWS-S3 keep
between passes: `Enter` is the entry and `os.Create`, which cuts the file to
nothing, `Encode` the rewriting, two steps because the process can end between them.
`NukeDB` is `voltage -nuke`, another process, at any moment of a pass.
`Voltage` keys it by hash, `AwsS3` by path (and records what it will not submit),
`AwsS3Lambda` has none and drops its event whatever happens, `Suricata` pops an
event before anything else and deletes the file after anything but a request
without an answer. `map` names Voltage's copy of the exchange and the
part of each other program that has its own. A failure (`Fault`) is any of:
a request without an answer, carried out or not; an answer of error;
a backend that fails a write, perhaps after doing it; a file or object that cannot
be read or a registry that cannot be written; the server or a client ending.
History: `sends`, `refused`, `missed`, `filed`.

### RateLimiter and TokenBucket

`TokenBucket` is what the limiter promises to an address: a bucket of `Burst`
tokens, one more every `Per`, no request turned away while a token is left.
`RateLimiter` is the code: `getLimiter` finds or makes the limiter of the address
under the lock, `Allow` asks it later (`held`, `age`), `cleanLimiters` drops, every
`Period`, those not seen for `TTL`, `authToken` grants a token for `Lifetime`, which
`jwtMiddleware` accepts until then. Time is relative -- ticks since, never a
clock -- so that behaviours close into cycles. `rate.Limiter` (external) is one
atomic step that adds what has flowed in since. The bucket of an address that has
no limiter is full: this is the refinement mapping, and it holds only because
`TTL` is longer than the time a limiter takes to fill (`LimiterAssumption`).

### ServerLifetime

`main` from the environment to the listener, with `SigHandler` and a goroutine
that loads the configuration, on one `models.C`: what each step of the start
reads (`used`), the channel of two that drops signals while it is full, the
context of `NotifyContext`, and the two ways to stop that one signal sets off
(`Shutdown` drains, `SigHandler` calls `os.Exit`). `main` reads without the lock
(`MayRead`: before the end of `json.Unmarshal` a setting is as it was or decoded
already); `torn` and `calm` tell what it read while the lock was held from what it
read since the last load, until it serves. A connection is idle, busy with a request, or cut;
requests keep coming. `pool` is whether `Init_Queue` has made the `CancelQueue`
that a stop calls. What `Load_Env` accepts is `Environments`.

### SensorReload

The Suricata client with `Monitor_State`, which polls a debug level and a reload
hash and, on a new hash, fetches and loads `Config` with a new redis client, under
the loop of `main`. `snap` is the copy `main` takes under `ConfigMu` before each
event; `url` and the token of `PAT_Auth` are read outside it. The exchange with the
server is `ClientSession`'s, here against a server that answers, so that what
fails is what the reload makes fail.

### ContentVerdicts

A hash is a promise about bytes that nobody checks. Files and objects change
(`Modify`) between the hash, the second read, the query and the submission; a
document is stored under the hash that came with the data, whatever the data
were (`mixed`), and also when the model gave no verdict (`failed`); and nothing is
stored, and nobody told, when the server does not list the type or the index refuses
the document (`Drop`, `dropped`). `Voltage` and
`AwsS3` are here again by those four steps, with the registry's key -- hash or
path -- that decides whether a changed file is looked at again. `submitted`
counts what went out under each hash.

## 3. Runs

| Run | Shows |
|---|---|
| `queue_safety` | counter, files, order of the hand-overs and what a stop costs, with four submissions, one of them refused, over two seconds, one worker, failures and stops |
| `queue_liveness` | nothing accepted vanishes, no unexplained duplicate, the refinement with its fairness, every request answered; two workers, every kind of failure, an analysed and a skipped submission |
| `agent_check` | the agent's answers while the limit is reloaded under it: what a drain and a weight above 100% mean, and that draining ends unless the leaks reach the limit |
| `reload_serving` | who holds the lock sees one edition; no reload signal is lost; the last edition stays loaded; what is filed where it says is taken |
| `analysis` | the verdict that is returned is the one found; limits; what a clean verdict may have missed; that every analysis ends but that of an archive inside itself |
| `fleet` | what a client counts as done was accepted, or refused by the server; nothing is submitted twice without a failure; write backends agree; every file is settled in the end |
| `sensor` | each event under one configuration; a file deleted unsubmitted only in one case; one event lost at most for each redis client closed; the last configuration in use in the end |
| `rate_limiter` | each address sees one token bucket whatever the clean-up does, is forgotten when silent, and served in the end |
| `lifetime` | what the start may find in the settings it reads without the lock; no signal in the channel is lost, and a dropped SIGHUP is made up for |
| `content` | what a client is done with was judged as what it is, or is an exception named; what is left alone is judged |
| `reload_strands`, `lifetime_drain` | what a comment or the docs say and the code does not do: see the findings |

**Bounds.** `MaxFaults` and `MaxStops` bound failures and ends of the process,
`MaxTime` the clock, the sets the number of submissions and workers. Every
hazard needs few of each: three submissions fill a channel of one, a worker and
the monitor's hands at once; two seconds give two epochs; a duplicate needs one
surviving file and one stop; two stops make a restart over a directory that was
itself left by a restart. `MaxEdits`, `MaxReloads`, `MaxHups` and `MaxExpiries` bound
what the world does to the configuration: two editions give a stale load over a
newer one, two signals a signal during a reload. `MaxTries` is 2 in place of the
code's 10: what differs is only how often the same step is repeated before the
exit. In four runs a `CONSTRAINT` (`FewEvents`) also bounds how many events of the
outside world -- stops, failures, edits, signals, expired tokens -- one
behaviour has, whichever they are. The counts never fall, and none of these events
has to happen: a fair behaviour within the bound is fair in the program too, and
every such behaviour is checked, which is what makes the constraint sound for
liveness. The hazards need no more: a lost signal is a change and two signals, a
stale load a change and two loaders, a token for another server an edit, a
signal and an expiry. In `lifetime` a dropped SIGHUP takes four signals -- one that
SigHandler is loading for, two in the channel, the one that finds it full -- and no
failure at all, so a failure or an edit counts as two there; the server that stays up
for ever without failing is among the fair behaviours. In `agent_check` the limit is
two and so are the failed `CreateTemp`s: the leaks can reach it. `AnalysisMC` looks at
a nesting of four, one more than its deepest finite file has; an analysis that would
go on may stay there for ever (`Deeper`), which only `AnalysisEnds` minds.

The files of `AnalysisMC` have each kind once where it matters: an archive in an
archive, an archive in itself, a document in it with one page beyond the limit, a small image, an
unknown type, a replaced and an outside name, an archive over the limit.
`FleetMC` has a client of each kind, and a second of AWS-S3, alone and in two pairs
(chosen at the start: two clients of one file, the race between a query and a
submission, need no more); two copies of a file, which the second AWS-S3 client
knows by two paths and may lose both with its registry, a file of a type the server skips, and an object
out of scope; one failure and one expiry, anywhere. Files do not change there:
that is `content`, with two files and an object that begin alike and may change
twice. In `rate_limiter` a burst of three, refilled one every two ticks, is used
up and full again between two clean-ups; the numbers keep the order of the
code's (fill time below TTL, clean-up period below TTL) and none of its sizes.
The safety properties proved below hold without any of the bounds. Symmetry
exchanges submissions, and workers, that differ only in name; it is used for
safety runs only. Deadlock is checked unless the system may stop for good: in
`fleet` when every event is consumed and the queue is empty, in `content` when
every client is done and no edit is left, in `lifetime` when the process has ended.

**Fairness.** Weak fairness of each handler, of the monitor, of each worker, of
`Exit` after the cancellation and of `Start`. The Go scheduler runs every
goroutine that can run; `os.Exit` follows the cancellation with no wait; a server
that ends is started again by whoever runs it. The fairness of `Worker`
also says that `DoWork` returns, as `ImplementsFairDelivery` assumes. `AnalysisEnds`
shows it for the processors, whose every request and command has a timeout (`WF` of
`Submit_Data`), unless an archive is found inside itself: for such a submission, and
for a backend that accepts a connection and never answers (the OpenSearch client has
no timeout), the liveness results do not hold. In `fleet` and `content` each
client is weakly fair: Voltage is a service, AWS-S3 runs from cron, and the
lambda service and the service manager start the other two again; in `fleet` the
server's worker needs no fairness, since a client never waits for a verdict.
`agent_check` adds that HAProxy keeps polling, and that of its checks not every one
falls into a load or gets lost on the way (`SF` of `Compare` and `Divide`). The loaders of the configuration
are weakly fair, the queue's monitor is strongly fair while no load is under
way: a scan that always falls between reset and decode is a schedule no timer
produces. `SigHandler`'s `Lock` is strongly fair in `lifetime`, because a Go mutex
does not starve a waiter; `main` is fair in `MainGoesOn`, its steps without the
failing ones, so that nothing makes a server that serves fail. In `rate_limiter` the clients keep asking and time
passes. New requests, signals, edits, crashes, failures and the clock of the
queue are never forced.

**Findings.** `reload_strands`: `Load_Config` empties `models.C` before it fills it,
`WriteQueue` reads it without the lock, and a submission accepted in between is
filed in the system's temporary directory. `lifetime_drain`: one SIGTERM starts
the draining of main.go:286 and, in `SigHandler`, an `os.Exit(0)` that does not
wait for it.

Plain enough from the code, and given no run of their own; the property that
says what holds instead is named where there is one:

* Queue. The error of `Close()` is ignored (queue.go:111), so a write that fails
  late is renamed all the same (`NoHalfSubmission` has it as its exception). A
  failed `CreateTemp` leaves `queue_size` one too high for ever
  (`CounterAccounts`, `DrainMeansFull`), and as many of them as the limit drain the node
  until a restart (`DrainedNodeRecovers` has the exception). A document that cannot be
  indexed is logged and gone (dowork.go:101-106); nothing looks at it again, since the
  client's registry has the hash (`DoneMeansJudgedOrDue`, `dropped`). The agent reads
  `max_queue_size` without the lock while every poll's `Load_Config` makes it 0
  (config.go:66): a check at that moment answers `drain` for an empty queue
  (README.md:251 says it is full; `DrainMeansFull`), one that reads the 0 the second
  time 5%. The agent says `100%` while every worker is
  busy: `haproxy.go:78` reads a counter that `queue.go:172` has already
  decremented (README.md:249 says idle). Nothing rejects a submission at
  `max_queue_size` (docs/architecture.md:73).
* Analysis. Nothing limits how deep archives nest (archive.go:300; the limits on
  size and time are each archive's own): one that holds itself keeps its worker for
  good (`AnalysisEnds` has the exception). An archive with a member that could not be analysed is reported
  clean, status `success` (archive.go:342; `MissedOnlyIfExcused`). A document whose
  request to the model failed is indexed all the same, and the file not looked
  at again under its hash (dowork.go:89, query.go:36; `DoneMeansJudgedOrDue`). Two
  clients may have one content analysed twice (README.md:42; `SubmittedOnce`).
* Configuration. `Monitor_Config` compares with a string that `config.go:66` wipes,
  so every poll reloads (docs/architecture.md:51). The debug level found at the
  start is never set (`main.go:89`, `reload.go:52-61`). Backends, workers, agent and
  listener are set up once, whatever a reload changes (README.md:189). `Load_Env`
  requires RUNAS and CONFIG_SLEEP, which docs/deployment.md:27-28 calls optional,
  and reads JWT_TOKEN_SECRET and JWT_TOKEN_EXPIRE where the docs say JWT_SECRET
  and JWT_EXPIRE; env.go:192 says "must be greater than zero" of a check that a
  negative number passes.
* Start and stop. `main` reads the settings of the start without `ConfigMu` after it
  has started goroutines that reload them: in the middle of a load it finds the zero
  value, a default, or a setting of a configuration not yet validated (`LifetimeInv`
  says that this is the only time); a zero `max_workers` read so starts no worker, and
  two settings read before and after a load may be of two editions. Signals before
  `NotifyContext` are dropped when the channel of two is full, a stop for good
  (`SignalsActedUpon`); a SIGTERM before
  `Init_Queue` calls a nil `CancelQueue`; `SigHandler` is deaf to a stop for as long as
  a load retries. A start that fails at the bind loses the jobs the monitor has
  taken by then. "Server stopped cleanly" is logged after a `Shutdown` that failed, too.
* Limiter. A full bucket and its refill let nine requests through in the first
  minute where the comment says five (`LimiterInv`). Behind HAProxy all clients share
  one address, and a client that is answered 429 ends in `PAT_Auth`.
  docs/highvolt-server/authentication.md:32 has 400 for a missing token, the code 401.
* Clients. A client enters a file in its registry, or deletes it, when the server
  answered its submission with any status but a first 401 (`voltage/scan.go:107-124`,
  `suricata/main.go:280-303`; docs/clients/voltage.md:16 and 23 say "successfully
  submitted"): `DoneMeansAnswered` holds only with its `refused`. A search that
  OpenSearch answers with an error, a 500 of `Query`, and a 429 all read as "not
  found" (`opensearch.go:183-204`, `scan.go:98`), so such a file is submitted once
  more, which `SubmittedOnce` allows for each failure. AWS-S3 empties its registry's
  file before it rewrites it (`aws-s3/db.go:53`), after each object: a stop in
  between costs every entry, and a content is submitted again for each path it
  has (`Setback` in `SubmittedOnce`). `--nuke` beside a running
  pass does not "force a full re-scan" (docs/clients/voltage.md:23): the pass writes
  its whole map back with its next entry.
* Suricata. A reload during a token's renewal gets the token from another server
  than the one submitted to, and the file is deleted although the submission was
  refused (docs/clients/suricata.md:33; `DeletionExplained`). The monitor takes a
  401's body for a reload hash and, with a token that was refused on the first
  poll, never hears of a reload again (README.md:172;
  `ReloadTakesEffectUnlessDeaf`).

## 4. Proofs

Assumed: the named assumptions of the modules (finite sets of submissions and
workers, at least one worker, a `max_queue_size` that is positive in every edition;
files with parts that are files, themselves included, limits that are natural numbers; a configuration of finitely many fields, and a
queue directory that every edition has and that is not the one for temporary files) and, for one theorem, that `Close()` does
not fail; for the clients, that each is of one kind and has finitely many items,
and that one write backend at least is configured; for the limiter, that one fills
up, and a request uses the one it has looked up, sooner than the TTL (`LimiterAssumption`: the
code's ten minutes against seconds). Nothing bounds the number of submissions,
workers, failures, restarts, editions, files, levels of nesting, clients, backends,
expired tokens or requests.

`SubmissionQueueProofs` goes from the types up:

1. `TypeInv`: `TypeOK`, and the monitor holds a listing exactly when it is not
   scanning (`ListingHeld`), without which `Head(matches)` has no type.
2. `DiskInv`: a `.data` file belongs to a handler past its rename, the rest of a
   listing is on disk and lists nothing twice (except the head between `Remove`
   and `Decrement`). It says that handlers and monitor never touch the same
   file: everything below rests on it.
3. `StopLosesLittle`: what the monitor has in hand is on disk, so
   `AtRisk` is within channel and workers, each at most `MaxWorkers`.
4. `OnlyWholeSubmissions` (`WholeInv`: whatever was written is whole),
   `NothingLostSilently` (`VanishInv`: committed means on disk or handed over),
   `NoUnexplainedDuplicate` (`OnceInv`: a file that is still there after its
   hand-over is in `again`), `FileOutlivesHandOver` (an action property).
5. `ServedInOrder` (`FirstComeFirstServed`), from `OrderInv`. A listing is a snapshot,
   and a slow writer of an earlier second may be renamed after it was taken; what
   is promised concerns those who were *answered* before. So `AheadInv` has them
   answered for good, `GoneInv` that an answered submission without a file was
   served or dropped, `ListedInv` that whoever came before a file of the listing
   was served or stands before it in the listing, and `HeadInv` that the monitor's
   head counts as served once sent.
6. `CounterExplained` (`CounterInv`: `CounterAccounts` and a process that is down
   holds nothing): each step changes the counter by what it changes the
   cardinality of the sets.
7. Of the liveness of the pipeline, what is safety. `EveryListingEnds`: `Backlog`, six
   for each listed file, less for what is done of it, two for a job in the channel
   and one for a worker at work, is a natural number that every step of monitor and
   workers past a listing lowers and nobody raises; so `Monitor_Queue` comes back to
   list what came in meanwhile. `PipelineNeverStuck`: while the process is not
   stopping no worker has returned (`ExitInv`), so the channel on which the monitor
   blocks has a reader; and every directory can be listed (`SomeListing`, from the
   well-foundedness of `<`: a least set without a listing has a file of its earliest
   second, which goes before a listing of the others).

Of the modules over the queue it proves three more things. `QueueImplementsDelivery`:
the initial state maps to the initial stage and every step to a step of
`DurableDelivery` or a stutter, from `TypeInv`, `DiskInv`, `VanishInv` and `OriginInv`.
For the agent, whatever limits are loaded and whenever: a weight above 100% needs
inherited or undeletable files (`OverweightExplained`, from `CounterExplained`), and
`drain` is answered for as many submissions and failed CreateTemps that stay counted as
the limit in force, or in the middle of a load (`DrainExplained`: `CounterExplained`
again, no submission is both being written and on disk, and the limit is zero only
while `Load_Config` has reset it).

`ConfigReloadProofs` shows types and the bound on attempts
(`ReloadTypeCorrect`); that the holder of the lock reads one accepted edition
over the defaults (`LockedReadersSafe`, from mutual exclusion and from what
`models.C` is at each statement inside the lock); and that a served reload signal was
followed by a load of that edition or a later one (`ReloadsServed`). The safety part
of `Converges` is three theorems: whoever holds the lock is in `Load_Config`, where
it waits for nobody (`HolderNeverWaits`), each of its steps leaves less of `LoadLeft`,
which nobody else touches (`LoadsEnd`), and once the last edition is loaded and no
loader has an older one in hand, only a new edition changes that (`SettledStays`).
With the queue at work meanwhile both invariants stay (`ServingKeepsBoth`, its steps
being stutters of the loaders). And they say how far the finding `reload_strands`
goes: a submission is filed elsewhere than in an accepted edition's directory only
while a load holds the lock (`FiledWhereConfigured`: without a load under way
`queue_directory` is an accepted edition's, `QueueDirectoryRead`), and one filed among
the temporary files is never listed again (`StrandedForEver`, from `StrandInv`).

`AnalysisProofs` rests on `FindInv`: every call under way is `Sound` (page limit,
clean page-one verdict, archive within its limit and untruncated), all but the
innermost wait, and once something is found the innermost waits too and
`ret` says so. The lemmas on stacks (`StackReturn`, `StackContinue`,
`StackEnter`) reduce each action to the one frame it changes. From it follow
`AnalysisTypeCorrect`, `VerdictReported`, `NothingTruncated` and the action property
`StopsAtFirstFinding`. `VerdictPoints` needs to know what is at the bottom of the
stack while the innermost call returns: `ChainInv`, each call was made for the
file its caller is at, down to the submission; and `PointInv`, from the finding
on every file under way is one of those found in, and `ret` names a page of the
document and, just when it is the verdict on an archive, a member of it.

`NothingMissed` (`MissedOnlyIfExcused`) is about everything inside a file, however deep,
and `Inside` is a recursive function. It needs no induction all the same: of `Inside`
only the equation it is defined by is used, that a file's inside is itself and that of
its parts, and that some function solves this equation is shown without recursion, by the
least set that is closed under taking parts (`InsideUnfolds`). `AccountInv` says that
while nothing is found, each sensitive part is in an excused file or in one that some
call has still to look at (`ToSee`), that a call without data (`blank`) is on a file that
is excused, and that so is every page past the last one (`PassedOver`). Each action then
moves files from what a call has to see to the call it makes, to what was submitted, or
to what is excused, and loses none.

Of `AnalysisEnds`, what is safety: `EveryStepAdvances`, every step returns from the
innermost call or lowers its `Effort`, a natural number bounded by three for each part
and three more, and calls for a part of its file at most; and `NeverStuck`, some step that
needs no failure is possible until the analysis is done. Both rest on `FitInv`, that a
call is at a place of its file's processor, within its pages or entries. For
a file that is not inside itself, however deep, that is all of `AnalysisEnds` but the
fairness.

`FleetProofs` begins with the types and that a client in the exchange holds an item
(`TypeInv`), by a flat reading of `Next` (`StoreMoves`, `PassMoves`,
`EventMoves`, `SensorMoves`), with one lemma for each group. Then:

1. `StoresAgree`, from `AgreeInv`: the write backends that `Index_Document` is done
   with (`WriteInv`) know the job or missed it, by a failed write or a stop that
   cut it off (`missed`), so that the files whose write has ended agree.
2. `RecordedMeansAnswered`, from `DoneInv`: what the server holds, in queue, hands or
   stores, some client sent (`KnownInv`), so a query's "already there" is worth a
   submission; at `sent` and `known` a client has been answered about the item it
   holds (`ClientInv`), so what `Enter` adds is sound; and a stored file that is
   gone was sent (`FileInv`). That sends and refusals only `Grow` keeps the rest.
   The invariant is needed because an entry is made steps after the answer, with
   token renewals, other clients, a crash or the server's stop in between.

3. `LosesNothing` (`NothingLostWithoutFailure`), from `LossInv`: `DoneInv`; for each
   client `OwnInv`, what it has in hand is its own and not yet done with
   (`HandInv`), and what Suricata has come across is in its store until it is sent
   (`StoredInv`); and `CalmInv`, while nothing has failed no submission was refused,
   a renewed token is good, and what a lambda or Suricata no longer holds was sent
   by somebody. That deletion and sending are steps apart, with tokens expiring
   and other clients asking in between, is what the last two are for.
4. `NoNeedlessSubmission` (`SubmittedOnce`) is an account for each client and content.
   `Spent` is what it submitted, and what may still turn out to have arrived;
   `Credit` what it knows of it -- entries saved, objects finished, files deleted. The
   invariant (`OnceInv`) is that `Spent` is at most `Credit` and a `Setback` for each
   failure, and every step `Pays`: it moves both sides alike, or is a failure and
   costs a `Setback` at most. The first form of the property, one submission more
   for each failure, was not provable: a crash while AWS-S3 rewrites its registry
   costs the credit of every copy. TLC found that behaviour once the instance had
   two objects of one content, and the property now counts them (`Setback`).

`RateLimiterProofs`. `RateInv` says of the limiter a request holds that its address
was not seen longer ago (`HolderInv`), of two addresses that they share none
(`OwnLimiters`), of the clean-up that it is one period late at most (`QuietInv`),
and of a bucket that it has refilled since the last request (`RefillInv`): so what
the clean-up drops is full and in nobody's hands. `SpentInv`, tokens granted plus
tokens left are within the burst and the refill, gives the bound. `LimiterCorrect` is
`LimiterInv`; `LimiterImplementsBucket` maps every step to one of `TokenBucket`, where
dropping a limiter is a stutter by `RefillInv` and the assumption on the TTL.

`ServerLifetimeProofs`. `BootInv` is where the threads are (`PlaceInv`), that who is
past the fetch has an edition (`GotInv`), that who is between lock and unlock holds
`ConfigMu`, alone (`LockInv`), and that `models.C` is one edition, decoded to the end,
whenever nobody does, `main` having read nothing else since the last load
(`BuildInv`). From it `LifetimeCorrect`.

`SensorReloadProofs`. `SharedInv`: process and goroutines stand and fall together
(`ProcessInv`); `Config` is one accepted edition but between lock and redis
(`ConfigInv`); what was fetched for a signal is no older than the signal
(`HeardInv`); an event whose client was closed under it is as good as lost
(`DebtInv`), without which the cardinality in `CutCostsOneEvent` is not inductive;
and a renewed token is good where `main` submits, or the event is `mixed`
(`TokenInv`). From it `SensorCorrect` and `DeletionsExplained`.

`ContentVerdictsProofs`. `VerdictInv`: a job whose data are not its hash's is known as
such (`WorthInv`); a client is about nothing that its registry has (`AboutInv`);
and what went out under a hash is at most the clients that are done with it plus
the failures (`CountInv`): an entry of the registry pays for a submission, and only
a failure takes entries away. From it `VerdictsTrue` and `DoneIsJudged`.

Only model-checked: liveness, out of the prover's reach (`ImplementsFairDelivery`,
`EveryRequestAnswered`, `DrainedNodeRecovers`, `Converges`, `TakenWhereConfigured`,
`AnalysisEnds`, `EventuallySettled`, `ReloadTakesEffectUnlessDeaf`,
`AddressServed`, `SignalsActedUpon`, `LeftAloneIsJudged`). Of `ImplementsFairDelivery`,
`AnalysisEnds` and `Converges` the safety part is proved, as told above. Every invariant
and every action property of a passing run is a theorem. The types of
`SubmissionQueue`, `ConfigReload`, `Analysis` and the fleet are proved and checked in no
run; those of the other modules are the first conjunct of `LimiterInv`, `SensorInv`,
`LifetimeInv` and `ContentInv`.

## 5. What is left

Not modelled, or not all of it: device identifiers, process priority, the
layout of log lines and the installation of Voltage as a service
(`internal/device`, `internal/logger`, `voltage/scheduler_*.go`) are straight
calls of the operating system that keep no state here; which debug flag a word
sets; the requests of `internal/http_req`, of which only the outcome matters; two
Voltage processes at once, which would overwrite each other's registry and cost
only another query for each entry lost; `NukeDB` of the AWS-S3 client, which
nothing calls. Left out of the modelled parts: wording of answers and logs, `jobID`
(only logged), temporary files left by a crash (they take no part in anything),
the text of requests to the model and the clean-up of its JSON, which decide
only whether a request fails. `SubmissionQueue` takes an analysis as one step and
has no SIGHUP; `Analysis` and `ConfigReload` are those parts. `SensorReload` takes the
body of JSONAir's 401 for constant, which is JSONAir's doing.

What could come next:

1. The safety part of the other liveness properties, as `EveryListingEnds` and
   `EveryStepAdvances` are for theirs: first `EventuallySettled`, where a client's pass
   would need a measure over items, renewals and restarts.
2. `Fleet` over `DurableDelivery` in place of its counter `queue`. It is no refinement
   as it stands: `Fleet` counts the submissions of one content together, and one of its
   steps is several of the pipeline's.
