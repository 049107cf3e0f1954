---------------------------- MODULE HAProxyAgent ----------------------------
(***************************************************************************)
(* A highvolt-server behind HAProxy: Highvolt_HAProxy_Agent answers every  *)
(* agent-check with a weight computed from GetQueueSize, and HAProxy keeps *)
(* the last answer and sends no new submission to a node that drains.      *)
(***************************************************************************)
EXTENDS SubmissionQueue

CONSTANT Limits   \* what editions of the configuration give max_queue_size

ASSUME LimitsAssumption == Limits \subseteq Nat \ {0}

VARIABLES
    loading,   \* where Load_Config is: "idle", "reset" or "defaults"
    limit,     \* models.C.Core.Max_Queue_Size
    agent,     \* where the agent's loop is: "accept", "loaded" or "busy"
    seen,      \* the queue size it loaded
    weight     \* the last answer HAProxy got: Drain, "share" for a percentage
               \* up to 100, "excess" for one above

\* History, read by the properties only.
VARIABLE held  \* how many were in the queue, or leaked, when it was loaded

configVars == <<loading, limit>>
agentVars == <<agent, seen, weight, held>>
nodeVars == <<vars, configVars, agentVars>>

-----------------------------------------------------------------------------
Drain == "drain"

\* What an edition that does not give max_queue_size leaves in place.
DefaultLimit == 50

\* int((float64(n) / float64(max)) * 100) for n > 0.  A product that is an
\* integer may come out just below it: 29.0/50*100 is 57.99999999999999.
Used(n, max) ==
    LET exact == (100 * n) \div max
    IN  IF (100 * n) % max = 0 THEN {exact - 1, exact} ELSE {exact}

\* The percentages the agent may answer for n jobs, n # 0.  The conversion to
\* int truncates towards zero, on both sides of zero.  An infinite quotient is
\* converted to the least or the greatest int, as the processor has it, and 100
\* minus either is below 5.
Weights(n, max) ==
    IF max = 0 THEN {5}
    ELSE IF n < 0 THEN {100 + u : u \in Used(-n, max)}
    ELSE {IF 100 - u < 5 THEN 5 ELSE 100 - u : u \in Used(n, max)}

-----------------------------------------------------------------------------
(* Load_Config, in the hands of one of its three callers at a time         *)

\* HAProxy starts a node at its full weight; the first configuration is loaded
\* before there is an agent.
NodeInit ==
    /\ Init
    /\ loading = "idle" /\ limit \in Limits \cup {DefaultLimit}
    /\ agent = "accept" /\ seen = 0 /\ weight = "share" /\ held = 0

\* models.C = models.Config_Struct{}: no lock keeps the agent out.
Reset ==
    /\ Live /\ loading = "idle"
    /\ loading' = "reset" /\ limit' = 0
    /\ UNCHANGED <<vars, agentVars>>

Defaults ==
    /\ Live /\ loading = "reset"
    /\ loading' = "defaults" /\ limit' = DefaultLimit
    /\ UNCHANGED <<vars, agentVars>>

\* json.Unmarshal: the edition's value, if it gives one.
Decode ==
    /\ Live /\ loading = "defaults"
    /\ loading' = "idle" /\ limit' \in Limits \cup {limit}
    /\ UNCHANGED <<vars, agentVars>>

-----------------------------------------------------------------------------
(* Highvolt_HAProxy_Agent                                                  *)

\* A submission reaches the node through HAProxy.
Route(s) == weight # Drain /\ Arrive(s) /\ UNCHANGED <<configVars, agentVars>>

\* What is in the queue, and what the counter will never be rid of.
Held ==
    Cardinality(Uncommitted \cup DataFiles)
    + (IF monitor = "decrement" THEN 1 ELSE 0) + leaked

\* currentJobs := queue.GetQueueSize(), once a connection is accepted.
Load ==
    /\ Live /\ agent = "accept"
    /\ agent' = "loaded"
    /\ seen' = queue_size
    /\ held' = Held
    /\ UNCHANGED <<vars, configVars, weight>>

\* The status is written to the connection.
Answer(status) ==
    /\ agent' = "accept" /\ seen' = 0 /\ held' = 0
    /\ weight' = status

\* Mutant of Compare: it drains while there is room for one more.
Compare_Early ==
    /\ Live /\ agent = "loaded"
    /\ \/ seen + 1 >= limit /\ Answer(Drain)
       \/ seen + 1 < limit /\ seen = 0 /\ Answer("share")
       \/ seen + 1 < limit /\ seen # 0
          /\ agent' = "busy" /\ UNCHANGED <<seen, weight, held>>
    /\ UNCHANGED <<vars, configVars>>

\* The comparisons, which read the limit a first time.
Compare ==
    /\ Live /\ agent = "loaded"
    /\ \/ seen >= limit /\ Answer(Drain)
       \/ seen < limit /\ seen = 0 /\ Answer("share")
       \/ seen < limit /\ seen # 0
          /\ agent' = "busy" /\ UNCHANGED <<seen, weight, held>>
    /\ UNCHANGED <<vars, configVars>>

\* The division, which reads it again.
Divide ==
    /\ Live /\ agent = "busy"
    /\ \E x \in Weights(seen, limit) :
          Answer(IF x > 100 THEN "excess" ELSE "share")
    /\ UNCHANGED <<vars, configVars>>

\* conn.Write fails, which is logged: HAProxy keeps the weight it had.
WriteLost ==
    /\ Live /\ agent # "accept"
    /\ Answer(weight)
    /\ UNCHANGED <<vars, configVars>>

\* The process ends, and the agent and the configuration with it.
Stop ==
    /\ Exit \/ Crash
    /\ Answer(weight)
    /\ loading' = "idle" /\ limit' = 0

\* The next process loads its configuration, and goes on with the rest of main.
Boot ==
    /\ Start
    /\ limit' \in Limits \cup {DefaultLimit}
    /\ UNCHANGED <<loading, agentVars>>

\* What the queue does on its own.
QueueStep ==
    /\ \/ Tick \/ Signal
       \/ \E s \in Submissions : Continue(s)
       \/ Monitor_Queue
       \/ \E w \in Workers : Worker(w)
    /\ UNCHANGED <<configVars, agentVars>>

NodeNext ==
    \/ \E s \in Submissions : Route(s)
    \/ Reset \/ Defaults \/ Decode
    \/ Load \/ Compare \/ Divide \/ WriteLost
    \/ Stop \/ Boot
    \/ QueueStep

NodeSpec == NodeInit /\ [][NodeNext]_nodeVars

\* HAProxy keeps polling (agent-inter), whatever the answers; of the checks that
\* would change the weight, not every one is cut off or comes too late.
NodeFairSpec ==
    /\ NodeSpec
    /\ \A s \in Submissions :
          WF_nodeVars(Continue(s) /\ UNCHANGED <<configVars, agentVars>>)
    /\ WF_nodeVars(Monitor_Queue /\ UNCHANGED <<configVars, agentVars>>)
    /\ \A w \in Workers :
          WF_nodeVars(Worker(w) /\ UNCHANGED <<configVars, agentVars>>)
    /\ WF_nodeVars(Load \/ Compare \/ Divide)
    /\ SF_nodeVars(Compare /\ (agent' = "busy" \/ weight' # weight))
    /\ SF_nodeVars(Divide /\ weight' # weight)
    /\ WF_nodeVars(phase = "stopping" /\ Stop)
    /\ WF_nodeVars(Boot)

-----------------------------------------------------------------------------

\* A node that drains takes submissions again once its queue is worked off,
\* unless as many failed CreateTemps as the limit are still counted: then no
\* submission comes to move the counter, and only a restart helps.  Checks that
\* all fall into a load of the configuration could drain it for ever as well.
DrainedNodeRecovers ==
    []<>(agent = "loaded" /\ loading = "idle")
    => (weight = Drain ~> weight # Drain \/ (0 < limit /\ limit =< leaked))

\* More than 100% is answered only by a process that found files of an earlier
\* one in its queue directory, or that could not delete a file.
OverweightOnlyAfterRestart ==
    [][weight' = "excess" /\ weight # "excess" => inherited + undeleted > 0]_nodeVars

\* README: "drain: Queue is full".  When drain is answered, the limit was in force
\* for as many submissions being written, waiting or in the monitor's hands, and
\* failed CreateTemps, when the counter was read, or Load_Config had wiped the
\* limit and not yet put the default in its place: an empty queue drains then.
DrainMeansFull ==
    [][agent = "loaded" /\ weight' = Drain /\ weight # Drain
          => loading = "reset" \/ (0 < limit /\ limit =< held)]_nodeVars
=============================================================================
