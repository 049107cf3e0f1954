---------------------------- MODULE ClientSession ----------------------------
(***************************************************************************)
(* What Voltage, AWS-S3, its lambda and the Suricata client have in        *)
(* common: for each file they query the server by sha256 and submit what   *)
(* it does not know, over http_req.HTTP with the bearer token PAT_Auth got *)
(* them, which they renew once when a request is answered 401.  Each       *)
(* program has its own copy of this exchange; their modules say what comes *)
(* before and after it.                                                    *)
(*                                                                         *)
(* A file is an item of its client (a path, an S3 object, an event) and is *)
(* abstracted to its hash and to whether the client takes it (MIME type,   *)
(* size).  The server always answers with a body, so the test of some      *)
(* clients for an empty one never holds.                                   *)
(***************************************************************************)
EXTENDS VerdictStore

CONSTANTS
    Voltages, Buckets, Lambdas, Sensors,   \* the running clients, by program
    Items,          \* Items[c]: what client c comes across
    Hash,           \* Hash[i]: the sha256 of item i
    OutOfScope,     \* the items no client submits
    NoItem,         \* what a client between two items holds
    MaxExpiries     \* bound on the number of tokens that expire

Clients == Voltages \cup Buckets \cup Lambdas \cup Sensors
AllItems == UNION {Items[c] : c \in Clients}

ASSUME KindsAssumption ==
    /\ Voltages \cap (Buckets \cup Lambdas \cup Sensors) = {}
    /\ Buckets \cap (Lambdas \cup Sensors) = {}
    /\ Lambdas \cap Sensors = {}
ASSUME ItemsAssumption ==
    /\ Hash \in [AllItems -> Hashes]
    /\ NoItem \notin AllItems
    /\ \A c \in Clients : IsFiniteSet(Items[c])
    /\ MaxExpiries \in Nat

VARIABLES
    pc,         \* where each client is
    cur,        \* the item it is busy with
    todo,       \* the items still before it
    token,      \* does it hold a token the server takes?
    registry,   \* its registry in memory: hashes (Voltage), paths (AWS-S3)
    disk,       \* what the registry file loads as
    limbo,      \* <<c, h>>: submissions in flight that c has given up
    expiries    \* tokens expired so far

\* History, read by the properties only.
VARIABLES
    sends,      \* sends[c][h]: submissions of h the server accepted from c
    refused     \* <<c, h>>: answered with an error that c did not look at

books == <<registry, disk>>
network == <<limbo, sends, refused>>
client == <<pc, cur, todo, token, books, network, expiries>>

Steps == {"rest", "next", "query", "queryAgain", "read", "submit",
          "submitAgain", "known", "sent", "failed", "encode"}

SessionTypeOK ==
    /\ pc \in [Clients -> Steps \cup {"off"}]
    /\ cur \in [Clients -> AllItems \cup {NoItem}]
    /\ todo \in [Clients -> SUBSET AllItems]
    /\ token \in [Clients -> BOOLEAN]
    /\ registry \in [Clients -> SUBSET (AllItems \cup Hashes)]
    /\ disk \in [Clients -> SUBSET (AllItems \cup Hashes)]
    /\ limbo \subseteq Clients \X Hashes
    /\ sends \in [Clients -> [Hashes -> Nat]]
    /\ refused \subseteq Clients \X Hashes

SessionInit ==
    /\ cur = [c \in Clients |-> NoItem]
    /\ token = [c \in Clients |-> FALSE]
    /\ registry = [c \in Clients |-> {}]
    /\ disk = [c \in Clients |-> {}]
    /\ limbo = {} /\ expiries = 0
    /\ sends = [c \in Clients |-> [h \in Hashes |-> 0]]
    /\ refused = {}

Goto(c, step) == pc' = [pc EXCEPT ![c] = step]
Own(c) == <<c, Hash[cur[c]]>>

-----------------------------------------------------------------------------
\* The process of c ends.  A pass over files or objects starts afresh, a list
\* in redis stays, and the lambda service may deliver an event again.
Ends(c) ==
    /\ Goto(c, "rest")
    /\ cur' = [cur EXCEPT ![c] = NoItem]
    /\ token' = [token EXCEPT ![c] = FALSE]
    /\ registry' = [registry EXCEPT ![c] = {}]
    /\ \/ c \in Voltages \cup Buckets /\ todo' = [todo EXCEPT ![c] = {}]
       \/ c \in Sensors \cup Lambdas /\ UNCHANGED todo
       \/ c \in Lambdas /\ todo' = [todo EXCEPT ![c] = @ \cup ({cur[c]} \ {NoItem})]
    /\ UNCHANGED disk

\* A request without an answer leaves the client with an empty token, but the
\* lambda ends; an answer other than 200, of the rate limiter for one, ends
\* every client.
PAT_Auth(c, step) ==
    \/ /\ Goto(c, step) /\ token' = [token EXCEPT ![c] = TRUE] /\ NoFault
       /\ UNCHANGED <<cur, todo, books>>
    \/ /\ c \notin Lambdas /\ Goto(c, step) /\ Fault
       /\ UNCHANGED <<cur, todo, token, books>>
    \/ Ends(c) /\ Fault

\* The server's jwtMiddleware takes a token for JWTTokenExpire minutes: not less
\* than it takes to send again what was refused.
Expire(c) ==
    /\ token[c] /\ expiries < MaxExpiries
    /\ pc[c] \notin {"queryAgain", "submitAgain"}
    /\ token' = [token EXCEPT ![c] = FALSE]
    /\ expiries' = expiries + 1
    /\ NoFault
    /\ UNCHANGED <<pc, cur, todo, books, network>>

-----------------------------------------------------------------------------
\* Only code 200 in the body stops the submission: a query that failed or was
\* refused counts as "not found".
Heed(c, code) ==
    Goto(c, IF code = 200 THEN "known"
            ELSE IF c \in Sensors THEN "read" ELSE "submit")

Ask(c) ==
    /\ token[c]
    /\ \E code \in {200, 404, 500} : Query(Hash[cur[c]], code) /\ Heed(c, code)
    /\ UNCHANGED token

NoAnswer(c) == Fault /\ Goto(c, "failed") /\ UNCHANGED token

FirstQuery(c) ==
    /\ pc[c] = "query"
    /\ \/ (Ask(c) \/ NoAnswer(c)) /\ UNCHANGED <<cur, todo, books>>
       \/ ~token[c] /\ PAT_Auth(c, "queryAgain")
    /\ UNCHANGED <<network, expiries, store>>

\* The status of the second answer is not looked at.
QueryAgain(c) ==
    /\ pc[c] = "queryAgain"
    /\ \/ Ask(c) \/ NoAnswer(c)
       \/ ~token[c] /\ Heed(c, 401) /\ NoFault /\ UNCHANGED token
    /\ UNCHANGED <<cur, todo, books, network, expiries, store>>

Accepted(p) ==
    /\ Submit(p[2])
    /\ sends' = [sends EXCEPT ![p[1]][p[2]] = @ + 1]
    /\ UNCHANGED <<job, left, docs, missed>>

\* Any answer but 401 counts as success.  A request that timed out may be on its
\* way to the server still.
Send(c) ==
    \/ /\ token[c] /\ Accepted(Own(c)) /\ Goto(c, "sent") /\ NoFault
       /\ UNCHANGED <<limbo, refused>>
    \/ /\ token[c] /\ Goto(c, "sent") /\ Fault
       /\ refused' = refused \cup {Own(c)}
       /\ UNCHANGED <<limbo, sends, store>>
    \/ /\ Goto(c, "failed") /\ Fault
       /\ limbo' \in {limbo, limbo \cup {Own(c)}}
       /\ UNCHANGED <<sends, refused, store>>

\* Mutant of FirstSubmit: 401 is an answer like any other.
FirstSubmit_NoRetry(c) ==
    /\ pc[c] = "submit"
    /\ \/ Send(c)
       \/ /\ ~token[c] /\ Goto(c, "sent") /\ NoFault
          /\ refused' = refused \cup {Own(c)}
          /\ UNCHANGED <<limbo, sends, store>>
    /\ UNCHANGED <<cur, todo, token, books, expiries>>

FirstSubmit(c) ==
    /\ pc[c] = "submit"
    /\ \/ Send(c) /\ UNCHANGED <<cur, todo, token, books>>
       \/ ~token[c] /\ PAT_Auth(c, "submitAgain") /\ UNCHANGED <<network, store>>
    /\ UNCHANGED expiries

\* Nor is the status of the second answer looked at here.
SubmitAgain(c) ==
    /\ pc[c] = "submitAgain"
    /\ \/ Send(c)
       \/ /\ ~token[c] /\ Goto(c, "sent") /\ NoFault
          /\ refused' = refused \cup {Own(c)}
          /\ UNCHANGED <<limbo, sends, store>>
    /\ UNCHANGED <<cur, todo, token, books, expiries>>

Exchange(c) ==
    FirstQuery(c) \/ QueryAgain(c) \/ FirstSubmit(c) \/ SubmitAgain(c)

-----------------------------------------------------------------------------
\* A request given up reaches the server late, or never.
Arrives(p) ==
    /\ p \in limbo
    /\ limbo' = limbo \ {p}
    /\ \/ Accepted(p)
       \/ UNCHANGED <<sends, store>>
    /\ NoFault
    /\ UNCHANGED <<pc, cur, todo, token, books, refused, expiries>>

\* The process of c ends, a request of its possibly on the way.
Crash(c) ==
    /\ pc[c] \notin {"off", "rest"} /\ Fault
    /\ Ends(c)
    /\ limbo' \in {limbo} \cup
           (IF token[c] /\ pc[c] \in {"submit", "submitAgain"}
            THEN {limbo \cup {Own(c)}} ELSE {})
    /\ UNCHANGED <<sends, refused, expiries, store>>

\* What is before c, or in its hands.
Pending(c) == todo[c] \cup ({cur[c]} \ {NoItem})

\* c turns to the next item, or is done with the one in hand.
Take(c, i) == cur' = [cur EXCEPT ![c] = i] /\ todo' = [todo EXCEPT ![c] = @ \ {i}]
PutDown(c) == cur' = [cur EXCEPT ![c] = NoItem]

\* The clients the server accepted h from.
Senders(h) == {c \in Clients : sends[c][h] > 0}
=============================================================================
