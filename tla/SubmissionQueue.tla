--------------------------- MODULE SubmissionQueue ---------------------------
(***************************************************************************)
(* The submission pipeline of highvolt-server: the HTTP handler Submit and *)
(* WriteQueue put a submission in a file of the queue directory, the       *)
(* goroutine Monitor_Queue hands the files over to the `jobs' channel, the *)
(* Worker goroutines run DoWork on them, and SigHandler (or a crash) ends  *)
(* the process, after which it may be started again over the same queue    *)
(* directory.                                                              *)
(*                                                                         *)
(* A submission is one POST of /api/v1/highvolt/submit; a client's retry   *)
(* of the same file is another submission.  Its payload is abstracted to   *)
(* what the pipeline tells apart: whether SanityCheck refuses it           *)
(* (Malformed) and whether DoWork analyses it (Analysable).                *)
(***************************************************************************)
EXTENDS Integers, Sequences, FiniteSets, Functions

CONSTANTS
    Submissions,  \* the POSTs the server receives
    Malformed,    \* the ones SanityCheck refuses
    Analysable,   \* the ones with file_data, mimetype, sha256 and a known MIME
    Workers,      \* the Worker goroutines, max_workers of them
    NoJob,        \* what an idle worker holds
    Faults,       \* the system calls that may fail, a subset of FaultKinds
    MaxFaults,    \* bound on the number of failures
    MaxStops,     \* bound on the number of times the process ends
    MaxTime       \* bound on the clock

FaultKinds == {"create", "write", "close", "rename", "glob", "read", "remove",
               "index"}

ASSUME WorkersAssumption == Workers # {} /\ IsFiniteSet(Workers)
ASSUME NoJobAssumption == NoJob \notin Submissions
ASSUME SubmissionsAssumption ==
    /\ IsFiniteSet(Submissions)
    /\ Malformed \subseteq Submissions
    /\ Analysable \subseteq Submissions
ASSUME BoundsAssumption ==
    /\ Faults \subseteq FaultKinds
    /\ MaxFaults \in Nat /\ MaxStops \in Nat /\ MaxTime \in Nat

\* make(chan Job, models.C.Core.Max_Workers): as many slots as workers.
MaxWorkers == Cardinality(Workers)

VARIABLES
    phase,       \* of the process: "up", "stopping" after CancelQueue(), "down"
    now,         \* time.Now().Unix()
    writer,      \* where the handler of each submission is, and its answer
    epoch,       \* the epoch in the name of the submission's file
    name,        \* suffix of the submission's file on disk: "none", "tmp", "data"
    whole,       \* does that file hold the whole JSON?
    queue_size,  \* the atomic counter of the process
    monitor,     \* where Monitor_Queue is
    matches,     \* the rest of its sorted directory listing, in hand first
    jobs,        \* the channel
    work,        \* the submission each worker is running DoWork on
    exited,      \* the workers that returned on ctx.Done()
    settled,     \* submissions indexed, or skipped as nothing to analyse
    faults,      \* failures so far
    stops        \* times the process ended so far

\* History, read by the properties only.
VARIABLES
    ahead,       \* ahead[t]: the submissions answered 202 before t came in
    sent,        \* how often each submission was handed to the channel
    again,       \* submissions whose file outlived its hand-over
    dropped,     \* submissions that some failure or stop dropped
    leaked,      \* increments of queue_size that nothing will undo
    inherited,   \* .data files found when this process started
    undeleted    \* decrements of queue_size whose file is still there

server == <<phase, now, queue_size>>
handler == <<writer, epoch>>
disk == <<name, whole>>
monitoring == <<monitor, matches>>
pool == <<work, exited>>
bounds == <<faults, stops>>
history == <<ahead, sent, again, dropped, leaked, inherited, undeleted>>
vars == <<server, handler, disk, monitoring, jobs, pool, settled, bounds,
          history>>

-----------------------------------------------------------------------------
InFlight == {"counted", "open", "written", "undo", "committed", "failed"}
Answers == {"202", "400", "500"}
Answered == {s \in Submissions : writer[s] \in Answers}
Accepted == {s \in Submissions : writer[s] = "202"}

Live == phase # "down"
DataFiles == {s \in Submissions : name[s] = "data"}

\* The file Monitor_Queue has read and not yet sent.
InHand == IF monitor = "send" THEN {Head(matches)} ELSE {}
InChannel == Range(jobs)
InWork == {work[w] : w \in Workers} \ {NoJob}
InMemory == InHand \cup InChannel \cup InWork

\* Held by the process alone: what a stop of the process destroys.
AtRisk == {s \in InMemory : name[s] # "data" /\ s \notin settled}

\* A system call of the given kind fails.
Fault(kind) ==
    /\ kind \in Faults
    /\ faults < MaxFaults
    /\ faults' = faults + 1
    /\ UNCHANGED stops

\* os.Remove with its error ignored: the file may stay.
Removed(f, s) == {[f EXCEPT ![s] = "none"]} \cup
                 (IF "remove" \in Faults THEN {f} ELSE {})

-----------------------------------------------------------------------------
Init ==
    /\ phase = "up" /\ now = 0 /\ queue_size = 0
    /\ writer = [s \in Submissions |-> "idle"]
    /\ epoch = [s \in Submissions |-> 0]
    /\ name = [s \in Submissions |-> "none"]
    /\ whole = [s \in Submissions |-> FALSE]
    /\ monitor = "scan" /\ matches = <<>>
    /\ jobs = <<>>
    /\ work = [w \in Workers |-> NoJob]
    /\ exited = {}
    /\ settled = {}
    /\ faults = 0 /\ stops = 0
    /\ ahead = [s \in Submissions |-> {}]
    /\ sent = [s \in Submissions |-> 0]
    /\ again = {} /\ dropped = {}
    /\ leaked = 0 /\ inherited = 0 /\ undeleted = 0

Tick ==
    /\ now < MaxTime
    /\ now' = now + 1
    /\ UNCHANGED <<phase, queue_size, handler, disk, monitoring, jobs, pool,
                   settled, bounds, history>>

-----------------------------------------------------------------------------
(* Submit and WriteQueue                                                   *)

Move(s, from, to) ==
    /\ Live
    /\ writer[s] = from
    /\ writer' = [writer EXCEPT ![s] = to]

\* SanityCheck fails: 400.
Refuse(s) ==
    /\ s \in Malformed
    /\ Move(s, "idle", "400")
    /\ UNCHANGED <<server, epoch, disk, monitoring, jobs, pool, settled,
                   bounds, history>>

\* Mutant of Count: no queue_size.Add(1).
Count_Forgets(s) ==
    /\ s \notin Malformed
    /\ Move(s, "idle", "counted")
    /\ epoch' = [epoch EXCEPT ![s] = now]
    /\ ahead' = [ahead EXCEPT ![s] = Accepted]
    /\ UNCHANGED <<server, disk, monitoring, jobs, pool, settled, bounds,
                   sent, again, dropped, leaked, inherited, undeleted>>

\* queue_size.Add(1), and the epoch for the file's name.
Count(s) ==
    /\ s \notin Malformed
    /\ Move(s, "idle", "counted")
    /\ queue_size' = queue_size + 1
    /\ epoch' = [epoch EXCEPT ![s] = now]
    /\ ahead' = [ahead EXCEPT ![s] = Accepted]
    /\ UNCHANGED <<phase, now, disk, monitoring, jobs, pool, settled, bounds,
                   sent, again, dropped, leaked, inherited, undeleted>>

CreateTemp(s) ==
    /\ Move(s, "counted", "open")
    /\ name' = [name EXCEPT ![s] = "tmp"]
    /\ UNCHANGED <<server, epoch, whole, monitoring, jobs, pool, settled,
                   bounds, history>>

\* The early return that leaves queue_size incremented.
CreateFails(s) ==
    /\ Fault("create")
    /\ Move(s, "counted", "failed")
    /\ leaked' = leaked + 1
    /\ UNCHANGED <<server, epoch, disk, monitoring, jobs, pool, settled, ahead,
                   sent, again, dropped, inherited, undeleted>>

\* Mutant of Write: the answer does not wait for the rename.
Write_Commits(s) ==
    /\ Move(s, "open", "committed")
    /\ whole' = [whole EXCEPT ![s] = TRUE]
    /\ UNCHANGED <<server, epoch, name, monitoring, jobs, pool, settled,
                   bounds, history>>

Write(s) ==
    /\ Move(s, "open", "written")
    /\ whole' = [whole EXCEPT ![s] = TRUE]
    /\ UNCHANGED <<server, epoch, name, monitoring, jobs, pool, settled,
                   bounds, history>>

\* The data never reaches the file, and only Close() knows: its error is
\* ignored.
CloseFails(s) ==
    /\ Fault("close")
    /\ Move(s, "open", "written")
    /\ UNCHANGED <<server, epoch, disk, monitoring, jobs, pool, settled, history>>

WriteFails(s) ==
    /\ Fault("write")
    /\ Move(s, "open", "undo")
    /\ name' \in Removed(name, s)
    /\ UNCHANGED <<server, epoch, whole, monitoring, jobs, pool, settled,
                   history>>

\* os.Rename(tmp, data): from here on the submission survives the process.
Rename(s) ==
    /\ Move(s, "written", "committed")
    /\ name' = [name EXCEPT ![s] = "data"]
    /\ UNCHANGED <<server, epoch, whole, monitoring, jobs, pool, settled,
                   bounds, history>>

\* Mutant of RenameFails: like CreateFails, it forgets queue_size.Add(-1).
RenameFails_Leaks(s) ==
    /\ Fault("rename")
    /\ Move(s, "written", "failed")
    /\ name' \in Removed(name, s)
    /\ UNCHANGED <<server, epoch, whole, monitoring, jobs, pool, settled,
                   history>>

RenameFails(s) ==
    /\ Fault("rename")
    /\ Move(s, "written", "undo")
    /\ name' \in Removed(name, s)
    /\ UNCHANGED <<server, epoch, whole, monitoring, jobs, pool, settled,
                   history>>

\* queue_size.Add(-1) of the two error paths that have it.
Undo(s) ==
    /\ Move(s, "undo", "failed")
    /\ queue_size' = queue_size - 1
    /\ UNCHANGED <<phase, now, epoch, disk, monitoring, jobs, pool, settled,
                   bounds, history>>

\* Mutant of Respond: an error path without an answer.
Respond_Forgets(s) ==
    /\ Move(s, "committed", "202")
    /\ UNCHANGED <<server, epoch, disk, monitoring, jobs, pool, settled,
                   bounds, history>>

\* c.String(200, status): the body's "code" is 202, or 500.
Respond(s) ==
    /\ \/ Move(s, "committed", "202")
       \/ Move(s, "failed", "500")
    /\ UNCHANGED <<server, epoch, disk, monitoring, jobs, pool, settled,
                   bounds, history>>

Arrive(s) == Refuse(s) \/ Count(s)

Continue(s) ==
    \/ CreateTemp(s) \/ CreateFails(s)
    \/ Write(s) \/ CloseFails(s) \/ WriteFails(s)
    \/ Rename(s) \/ RenameFails(s)
    \/ Undo(s) \/ Respond(s)

Handle(s) == Arrive(s) \/ Continue(s)

-----------------------------------------------------------------------------
(* Monitor_Queue                                                           *)

\* Mutant of Listings: no natsort.Sort.
Listings_Unsorted(S) ==
    {q \in [1..Cardinality(S) -> S] : \A s \in S : \E i \in DOMAIN q : q[i] = s}

\* The listings natsort may leave for the files S: every file once, older
\* epochs first; within one second the random part of the name decides.
Listings(S) ==
    {q \in [1..Cardinality(S) -> S] :
        /\ \A s \in S : \E i \in DOMAIN q : q[i] = s
        /\ \A i, j \in DOMAIN q :
              i < j => q[i] # q[j] /\ epoch[q[i]] =< epoch[q[j]]}

\* The next file of the listing, or the sleep before the next listing.
Proceed(rest) ==
    /\ matches' = rest
    /\ monitor' = IF rest = <<>> THEN "scan" ELSE "read"

\* Mutant of Scan: the pattern matches the temporary files too.
Scan_AnySuffix ==
    /\ Live /\ monitor = "scan"
    /\ \E q \in Listings({s \in Submissions : name[s] # "none"}) : Proceed(q)
    /\ UNCHANGED <<server, handler, disk, jobs, pool, settled, bounds, history>>

Scan ==
    /\ Live /\ monitor = "scan"
    /\ \E q \in Listings(DataFiles) : Proceed(q)
    /\ UNCHANGED <<server, handler, disk, jobs, pool, settled, bounds, history>>

\* filepath.Glob returns an error, or an empty listing of a directory it
\* cannot read: nothing to do until the next second.
ScanFails ==
    /\ Live /\ monitor = "scan"
    /\ Fault("glob")
    /\ UNCHANGED <<server, handler, disk, monitoring, jobs, pool, settled,
                   history>>

\* Mutant of Read: the file is removed before the hand-over.
Read_Removes ==
    /\ Live /\ monitor = "read"
    /\ monitor' = "send"
    /\ name' = [name EXCEPT ![Head(matches)] = "none"]
    /\ UNCHANGED <<server, handler, whole, matches, jobs, pool, settled, bounds,
                   history>>

Read ==
    /\ Live /\ monitor = "read"
    /\ monitor' = "send"
    /\ UNCHANGED <<server, handler, disk, matches, jobs, pool, settled, bounds,
                   history>>

\* Mutant of ReadFails: return instead of continue.
ReadFails_Returns ==
    /\ Live /\ monitor = "read"
    /\ Fault("read")
    /\ monitor' = "returned"
    /\ name' \in Removed(name, Head(matches))
    /\ undeleted' = IF name' = name THEN undeleted + 1 ELSE undeleted
    /\ dropped' = dropped \cup {Head(matches)}
    /\ UNCHANGED <<server, handler, whole, matches, jobs, pool, settled, ahead,
                   sent, again, leaked, inherited>>

\* A file that cannot be read is removed: the submission is dropped.
ReadFails ==
    /\ Live /\ monitor = "read"
    /\ Fault("read")
    /\ monitor' = "decrement"
    /\ name' \in Removed(name, Head(matches))
    /\ undeleted' = IF name' = name THEN undeleted + 1 ELSE undeleted
    /\ dropped' = dropped \cup {Head(matches)}
    /\ UNCHANGED <<server, handler, whole, matches, jobs, pool, settled, ahead,
                   sent, again, leaked, inherited>>

\* jobs <- Job{...}: blocks while the channel is full.
Send ==
    /\ Live /\ monitor = "send"
    /\ Len(jobs) < MaxWorkers
    /\ jobs' = Append(jobs, Head(matches))
    /\ sent' = [sent EXCEPT ![Head(matches)] = @ + 1]
    /\ monitor' = "remove"
    /\ UNCHANGED <<server, handler, disk, matches, pool, settled, bounds, ahead,
                   again, dropped, leaked, inherited, undeleted>>

\* Mutant of Remove: the file stays although nothing failed.
Remove_Keeps ==
    /\ Live /\ monitor = "remove"
    /\ monitor' = "decrement"
    /\ UNCHANGED <<server, handler, disk, matches, jobs, pool, settled, bounds,
                   history>>

Remove ==
    /\ Live /\ monitor = "remove"
    /\ monitor' = "decrement"
    /\ name' = [name EXCEPT ![Head(matches)] = "none"]
    /\ UNCHANGED <<server, handler, whole, matches, jobs, pool, settled, bounds,
                   history>>

\* os.Remove fails after the hand-over: logged, and counted down all the same.
RemoveFails ==
    /\ Live /\ monitor = "remove"
    /\ Fault("remove")
    /\ monitor' = "decrement"
    /\ undeleted' = undeleted + 1
    /\ again' = again \cup {Head(matches)}
    /\ UNCHANGED <<server, handler, disk, matches, jobs, pool, settled, ahead,
                   sent, dropped, leaked, inherited>>

\* Mutant of Decrement: no queue_size.Add(-1).
Decrement_Forgets ==
    /\ Live /\ monitor = "decrement"
    /\ Proceed(Tail(matches))
    /\ UNCHANGED <<server, handler, disk, jobs, pool, settled, bounds, history>>

\* queue_size.Add(-1), and on to the next file.
Decrement ==
    /\ Live /\ monitor = "decrement"
    /\ queue_size' = queue_size - 1
    /\ Proceed(Tail(matches))
    /\ UNCHANGED <<phase, now, handler, disk, jobs, pool, settled, bounds,
                   history>>

Monitor_Queue ==
    \/ Scan \/ ScanFails
    \/ Read \/ ReadFails
    \/ Send
    \/ Remove \/ RemoveFails
    \/ Decrement

-----------------------------------------------------------------------------
(* Worker and DoWork                                                       *)

Idle(w) == w \notin exited /\ work[w] = NoJob

Take(w) ==
    /\ Live /\ Idle(w)
    /\ jobs # <<>>
    /\ work' = [work EXCEPT ![w] = Head(jobs)]
    /\ jobs' = Tail(jobs)
    /\ UNCHANGED <<server, handler, disk, monitoring, exited, settled, bounds,
                   history>>

\* DoWork returned, with or without an error: the worker selects again.
Done(w) ==
    /\ Live /\ work[w] # NoJob
    /\ work' = [work EXCEPT ![w] = NoJob]
    /\ UNCHANGED exited

\* DoWork returns nil before any analysis.
Skip(w) ==
    /\ Done(w)
    /\ work[w] \notin Analysable
    /\ settled' = settled \cup {work[w]}
    /\ UNCHANGED <<server, handler, disk, monitoring, jobs, bounds, history>>

\* Submit_Data returned something, and Index_Document stored it.
Index(w) ==
    /\ Done(w)
    /\ work[w] \in Analysable
    /\ settled' = settled \cup {work[w]}
    /\ UNCHANGED <<server, handler, disk, monitoring, jobs, bounds, history>>

\* Index_Document returns an error, which Worker only logs.
IndexFails(w) ==
    /\ Fault("index")
    /\ Done(w)
    /\ work[w] \in Analysable
    /\ dropped' = dropped \cup {work[w]}
    /\ UNCHANGED <<server, handler, disk, monitoring, jobs, settled, ahead,
                   sent, again, leaked, inherited, undeleted>>

\* <-ctx.Done() is chosen, which it may be with jobs still in the channel.
Quit(w) ==
    /\ phase = "stopping" /\ Idle(w)
    /\ exited' = exited \cup {w}
    /\ UNCHANGED <<server, handler, disk, monitoring, jobs, work, settled,
                   bounds, history>>

Worker(w) == Take(w) \/ Skip(w) \/ Index(w) \/ IndexFails(w) \/ Quit(w)

-----------------------------------------------------------------------------
(* The process: SigHandler, a crash, and main() on the next start          *)

\* Shutdown_Queue() on SIGINT, SIGTERM or SIGABRT: CancelQueue().
Signal ==
    /\ phase = "up" /\ stops < MaxStops
    /\ phase' = "stopping"
    /\ stops' = stops + 1
    /\ UNCHANGED <<now, queue_size, handler, disk, monitoring, jobs, pool,
                   settled, faults, history>>

\* The process ends: the disk and the backend are all that is left of it.
End ==
    /\ phase' = "down"
    /\ queue_size' = 0
    /\ writer' = [s \in Submissions |->
                     IF writer[s] \in InFlight THEN "cut" ELSE writer[s]]
    /\ monitor' = "scan" /\ matches' = <<>>
    /\ jobs' = <<>>
    /\ work' = [w \in Workers |-> NoJob]
    /\ exited' = {}
    /\ dropped' = dropped \cup AtRisk
    /\ again' = again \cup
                (IF monitor = "remove" THEN {Head(matches)} ELSE {})
    /\ leaked' = 0 /\ inherited' = 0 /\ undeleted' = 0
    /\ UNCHANGED <<now, epoch, disk, settled, faults, ahead, sent>>

\* os.Exit(0), right after the cancellation: nothing is waited for.
Exit ==
    /\ phase = "stopping"
    /\ End
    /\ UNCHANGED stops

Crash ==
    /\ Live /\ stops < MaxStops
    /\ stops' = stops + 1
    /\ End

\* Mutant of Start: the queue directory is emptied.
Start_Cleans ==
    /\ phase = "down"
    /\ phase' = "up"
    /\ name' = [s \in Submissions |-> "none"]
    /\ UNCHANGED <<now, queue_size, handler, whole, monitoring, jobs, pool,
                   settled, bounds, history>>

\* Init_Queue: an empty channel, idle workers, a counter that starts at zero
\* whatever the queue directory holds.
Start ==
    /\ phase = "down"
    /\ phase' = "up"
    /\ inherited' = Cardinality(DataFiles)
    /\ UNCHANGED <<now, queue_size, handler, disk, monitoring, jobs, pool,
                   settled, bounds, ahead, sent, again, dropped, leaked,
                   undeleted>>

Next ==
    \/ Tick
    \/ \E s \in Submissions : Handle(s)
    \/ Monitor_Queue
    \/ \E w \in Workers : Worker(w)
    \/ Signal \/ Exit \/ Crash \/ Start

Spec == Init /\ [][Next]_vars

\* Go runs every goroutine that can run, and so DoWork returns only where the
\* calls it makes return; os.Exit follows the cancellation; an operator or a
\* service manager starts the server again.
Fairness ==
    /\ \A s \in Submissions : WF_vars(Continue(s))
    /\ WF_vars(Monitor_Queue)
    /\ \A w \in Workers : WF_vars(Worker(w))
    /\ WF_vars(Exit)
    /\ WF_vars(Start)

FairSpec == Spec /\ Fairness

-----------------------------------------------------------------------------
(* Properties                                                              *)

\* Every variable keeps its type, and the channel its capacity.
TypeOK ==
    /\ phase \in {"up", "stopping", "down"}
    /\ now \in Nat
    /\ writer \in [Submissions -> {"idle", "cut"} \cup InFlight \cup Answers]
    /\ epoch \in [Submissions -> Nat]
    /\ name \in [Submissions -> {"none", "tmp", "data"}]
    /\ whole \in [Submissions -> BOOLEAN]
    /\ queue_size \in Int
    /\ monitor \in {"scan", "read", "send", "remove", "decrement"}
    /\ matches \in Seq(Submissions)
    /\ jobs \in Seq(Submissions) /\ Len(jobs) =< MaxWorkers
    /\ work \in [Workers -> Submissions \cup {NoJob}]
    /\ exited \subseteq Workers
    /\ settled \subseteq Submissions
    /\ faults \in Nat /\ stops \in Nat
    /\ ahead \in [Submissions -> SUBSET Submissions]
    /\ sent \in [Submissions -> Nat]
    /\ again \subseteq Submissions /\ dropped \subseteq Submissions
    /\ leaked \in Nat /\ inherited \in Nat /\ undeleted \in Nat

\* queue_size, which GetQueueSize hands to the HAProxy agent, counts the
\* submissions being written and the files waiting, and is off by exactly the
\* failed CreateTemps (too high) and by the files an earlier process left and
\* the ones os.Remove could not delete (too low): no interleaving of handlers
\* and monitor makes it drift any other way.
Uncommitted ==
    {s \in Submissions : writer[s] \in {"counted", "open", "written", "undo"}}
CounterAccounts ==
    Live => queue_size = Cardinality(Uncommitted) + Cardinality(DataFiles)
                         + (IF monitor = "decrement" THEN 1 ELSE 0)
                         + leaked - inherited - undeleted

\* A stop of the process, at any moment, destroys at most one submission per
\* worker and one per channel slot: the monitor deletes a file only once the
\* channel has it, and a full channel blocks the monitor.
AtMostTwoPerWorker == Cardinality(AtRisk) =< 2 * MaxWorkers

\* A submission answered with code 202 is on disk, in the process, settled, or
\* was dropped by a failure the code logs and goes on from, or by a stop.
NothingVanishes ==
    \A s \in Accepted :
        s \in DataFiles \cup InMemory \cup settled \cup dropped

\* What the monitor hands over is never half a submission ("Atomic rename, this
\* way we don't get half submission issues"), not even after a crash in the
\* middle of WriteQueue, as long as Close() does not fail.
NoHalfSubmission ==
    \A s \in Submissions : s \in DataFiles \cup InMemory => whole[s]

\* "We store with the epoch time to keep some sort of order": a submission
\* answered before another one came in, in an earlier second, is handed to the
\* workers first, across restarts too, unless it was dropped.
FirstComeFirstServed ==
    \A t \in Submissions : sent[t] > 0 =>
        \A s \in ahead[t] :
            epoch[s] < epoch[t] => sent[s] > 0 \/ s \in dropped

\* A submission is analysed twice only if its file outlived the first
\* hand-over: os.Remove failed, or the process ended in between.
HandedOverOnce == \A s \in Submissions : sent[s] > 1 => s \in again

\* The file of a committed submission disappears only after the channel has
\* the submission, or because it could not be read.
DeletedOnlyAfterHandOver ==
    [][\A s \in Submissions :
          name[s] = "data" /\ name'[s] # "data" =>
              sent[s] > 0 \/ s \in dropped']_vars

\* Every request under way gets its answer, unless the process ends first.
EveryRequestAnswered ==
    \A s \in Submissions :
        writer[s] \in InFlight ~> writer[s] \in Answers \cup {"cut"}
=============================================================================
