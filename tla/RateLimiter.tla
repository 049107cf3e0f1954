---------------------------- MODULE RateLimiter ----------------------------
(***************************************************************************)
(* The token endpoint of highvolt-server: rateLimitMiddleware looks up the *)
(* limiter of the client's address and then asks it, two steps; a clean-up *)
(* drops the limiters of addresses that have been quiet; authToken grants  *)
(* a token for a while, which jwtMiddleware checks.                        *)
(*                                                                         *)
(* Time is counted in ticks, and relative: how full a limiter is, how long *)
(* an address has been quiet, how long a request has held its limiter.     *)
(***************************************************************************)
EXTENDS Integers, FiniteSets

CONSTANTS
    Clients, Addresses,
    Address,       \* Address[c]: where the requests of client c come from
    Keys,          \* the clients that have the server's PAT
    Limiters,      \* the rate.Limiters there may be at one time
    NoLimiter,
    Burst, Per,    \* rate.NewLimiter(rate.Every(Per), Burst): 5, 12 seconds
    TTL, Period,   \* of the clean-up: 10 minutes, 5 minutes
    MaxHold,       \* longest time between getLimiter and Allow
    Lifetime,      \* JWTTokenExpire
    MaxSpan,       \* longest time over which requests are counted
    MaxRestarts    \* bound on the ends of the process

\* A limiter is full again before its address is forgotten, even if a request
\* was slow to ask it: 60 seconds and the time between two statements are far
\* less than 10 minutes.
ASSUME LimiterAssumption ==
    /\ Address \in [Clients -> Addresses] /\ Keys \subseteq Clients
    /\ NoLimiter \notin Limiters
    /\ Burst \in Nat /\ Per \in Nat \ {0}
    /\ TTL \in Nat /\ Period \in Nat \ {0} /\ MaxHold \in Nat
    /\ MaxHold + Burst * Per =< TTL
    /\ Lifetime \in Nat /\ MaxSpan \in Nat /\ MaxRestarts \in Nat

VARIABLES
    limiters,    \* the map: the limiter of each address
    lastSeen,    \* ticks since getLimiter last saw the address
    level,       \* level[l]: how full limiter l is, in ticks
    pc, held, age,  \* of each request: its place, its limiter, and for how long
    session,     \* ticks for which the token of a client is good
    ticker,      \* ticks since the last clean-up
    restarts

\* History, read by the properties only.
VARIABLES
    outcome,     \* of the last request of each address
    span, count  \* requests let through in the last span ticks, counted since
                 \* some moment; span is NotCounting before it and after MaxSpan

vars == <<limiters, lastSeen, level, pc, held, age, session, ticker, restarts,
          outcome, span, count>>
requests == <<pc, held, age>>
counting == <<span, count>>

Full == Burst * Per
NotCounting == -1
Least(a, b) == IF a < b THEN a ELSE b

\* main: the map is empty.
Init ==
    /\ limiters = [a \in Addresses |-> NoLimiter]
    /\ lastSeen = [a \in Addresses |-> 0]
    /\ level = [l \in Limiters |-> Full]
    /\ pc = [c \in Clients |-> "idle"]
    /\ held = [c \in Clients |-> NoLimiter]
    /\ age = [c \in Clients |-> 0]
    /\ session = [c \in Clients |-> 0]
    /\ ticker = 0 /\ restarts = 0
    /\ outcome = [a \in Addresses |-> "none"]
    /\ span = [a \in Addresses |-> NotCounting]
    /\ count = [a \in Addresses |-> 0]

\* jwtMiddleware takes a token that has not expired.
jwtMiddleware(c) == session[c] > 0

Unused == Limiters \ ({limiters[a] : a \in Addresses} \cup {held[c] : c \in Clients})

\* Mutant of getLimiter: an entry that exists is not marked as seen.
getLimiter_Unmarked(c) ==
    LET a == Address[c]
    IN  /\ pc[c] = "idle" /\ ~jwtMiddleware(c)
        /\ \/ /\ limiters[a] # NoLimiter
              /\ held' = [held EXCEPT ![c] = limiters[a]]
              /\ UNCHANGED <<limiters, level, lastSeen>>
           \/ /\ limiters[a] = NoLimiter
              /\ \E l \in Unused :
                    /\ limiters' = [limiters EXCEPT ![a] = l]
                    /\ level' = [level EXCEPT ![l] = Full]
                    /\ held' = [held EXCEPT ![c] = l]
              /\ lastSeen' = [lastSeen EXCEPT ![a] = 0]
        /\ pc' = [pc EXCEPT ![c] = "held"]
        /\ age' = [age EXCEPT ![c] = 0]
        /\ UNCHANGED <<session, ticker, restarts, outcome, counting>>

\* A client without a good token asks for one: the limiter of its address,
\* a new one if there is none, under limitersMu.
getLimiter(c) ==
    LET a == Address[c]
    IN  /\ pc[c] = "idle" /\ ~jwtMiddleware(c)
        /\ \/ /\ limiters[a] # NoLimiter
              /\ held' = [held EXCEPT ![c] = limiters[a]]
              /\ UNCHANGED <<limiters, level>>
           \/ /\ limiters[a] = NoLimiter
              /\ \E l \in Unused :
                    /\ limiters' = [limiters EXCEPT ![a] = l]
                    /\ level' = [level EXCEPT ![l] = Full]
                    /\ held' = [held EXCEPT ![c] = l]
        /\ lastSeen' = [lastSeen EXCEPT ![a] = 0]
        /\ pc' = [pc EXCEPT ![c] = "held"]
        /\ age' = [age EXCEPT ![c] = 0]
        /\ UNCHANGED <<session, ticker, restarts, outcome, counting>>

LetGo(c, place) ==
    /\ pc' = [pc EXCEPT ![c] = place]
    /\ held' = [held EXCEPT ![c] = NoLimiter]
    /\ age' = [age EXCEPT ![c] = 0]

Counted(a) ==
    count' = [count EXCEPT ![a] = IF span[a] = NotCounting THEN 0 ELSE @ + 1]

\* Mutant of Allow: a request that is turned away is charged all the same.
Allow_Charged(c) ==
    LET a == Address[c]
        l == held[c]
    IN  /\ pc[c] = "held"
        /\ level' = [level EXCEPT ![l] = IF @ < Per THEN 0 ELSE @ - Per]
        /\ IF level[l] < Per
           THEN /\ LetGo(c, "idle") /\ UNCHANGED count
                /\ outcome' = [outcome EXCEPT ![a] = "refused"]
           ELSE /\ LetGo(c, "token") /\ Counted(a)
                /\ outcome' = [outcome EXCEPT ![a] = "granted"]
        /\ UNCHANGED <<limiters, lastSeen, session, ticker, restarts, span>>

\* limiter.Allow(): on to authToken, or 429.
Allow(c) ==
    LET a == Address[c]
        l == held[c]
    IN  /\ pc[c] = "held"
        /\ \/ /\ level[l] >= Per
              /\ level' = [level EXCEPT ![l] = @ - Per]
              /\ LetGo(c, "token") /\ Counted(a)
              /\ outcome' = [outcome EXCEPT ![a] = "granted"]
           \/ /\ level[l] < Per
              /\ LetGo(c, "idle")
              /\ outcome' = [outcome EXCEPT ![a] = "refused"]
              /\ UNCHANGED <<level, count>>
        /\ UNCHANGED <<limiters, lastSeen, session, ticker, restarts, span>>

\* authCheck: a token for the right PAT, 401 for any other and for none.
authToken(c) ==
    /\ pc[c] = "token"
    /\ session' = [session EXCEPT ![c] = IF c \in Keys THEN Lifetime ELSE @]
    /\ pc' = [pc EXCEPT ![c] = "idle"]
    /\ UNCHANGED <<limiters, lastSeen, level, held, age, ticker, restarts,
                   outcome, counting>>

\* Mutant of cleanLimiters: entries not seen since the last clean-up go.
cleanLimiters_Early ==
    /\ ticker = Period
    /\ limiters' = [a \in Addresses |->
                       IF lastSeen[a] >= Period THEN NoLimiter ELSE limiters[a]]
    /\ ticker' = 0
    /\ UNCHANGED <<lastSeen, level, requests, session, restarts, outcome, counting>>

cleanLimiters ==
    /\ ticker = Period
    /\ limiters' = [a \in Addresses |->
                       IF lastSeen[a] > TTL THEN NoLimiter ELSE limiters[a]]
    /\ ticker' = 0
    /\ UNCHANGED <<lastSeen, level, requests, session, restarts, outcome, counting>>

\* A tick of the clock.  The clean-up is not late, and no request waits longer
\* than MaxHold between two statements.
Tick ==
    /\ ticker < Period
    /\ \A c \in Clients : pc[c] = "held" => age[c] < MaxHold
    /\ ticker' = ticker + 1
    /\ level' = [l \in Limiters |-> Least(level[l] + 1, Full)]
    /\ lastSeen' = [a \in Addresses |->
                       IF limiters[a] = NoLimiter THEN 0 ELSE lastSeen[a] + 1]
    /\ age' = [c \in Clients |-> IF pc[c] = "held" THEN age[c] + 1 ELSE 0]
    /\ session' = [c \in Clients |-> IF session[c] > 0 THEN session[c] - 1 ELSE 0]
    /\ span' = [a \in Addresses |->
                   IF span[a] \in 0..MaxSpan - 1 THEN span[a] + 1 ELSE NotCounting]
    /\ count' = [a \in Addresses |->
                    IF span[a] \in 0..MaxSpan - 1 THEN count[a] ELSE 0]
    /\ UNCHANGED <<limiters, pc, held, restarts, outcome>>

\* The process ends and starts again: the map is gone, tokens are still good.
Restart ==
    /\ restarts < MaxRestarts
    /\ restarts' = restarts + 1
    /\ limiters' = [a \in Addresses |-> NoLimiter]
    /\ pc' = [c \in Clients |-> "idle"]
    /\ held' = [c \in Clients |-> NoLimiter]
    /\ age' = [c \in Clients |-> 0]
    /\ ticker' = 0
    /\ outcome' = [a \in Addresses |-> "none"]
    /\ span' = [a \in Addresses |-> NotCounting]
    /\ count' = [a \in Addresses |-> 0]
    /\ UNCHANGED <<lastSeen, level, session>>

\* History: counting may begin at any moment.
Watch(a) ==
    /\ span[a] = NotCounting
    /\ span' = [span EXCEPT ![a] = 0]
    /\ count' = [count EXCEPT ![a] = 0]
    /\ UNCHANGED <<limiters, lastSeen, level, requests, session, ticker, restarts,
                   outcome>>

Next ==
    \/ \E c \in Clients : getLimiter(c) \/ Allow(c) \/ authToken(c)
    \/ cleanLimiters \/ Tick \/ Restart
    \/ \E a \in Addresses : Watch(a)

Spec == Init /\ [][Next]_vars

\* Clients without a token ask for one, goroutines run, and time passes.
FairSpec ==
    /\ Spec
    /\ \A c \in Clients : WF_vars(getLimiter(c)) /\ WF_vars(Allow(c) \/ authToken(c))
    /\ WF_vars(cleanLimiters) /\ WF_vars(Tick)

-----------------------------------------------------------------------------
(* Properties                                                              *)

\* Every variable keeps its type; in particular no limiter goes below zero.
RateTypeOK ==
    /\ limiters \in [Addresses -> Limiters \cup {NoLimiter}]
    /\ lastSeen \in [Addresses -> Nat]
    /\ level \in [Limiters -> 0..Full]
    /\ pc \in [Clients -> {"idle", "held", "token"}]
    /\ held \in [Clients -> Limiters \cup {NoLimiter}]
    /\ age \in [Clients -> 0..MaxHold]
    /\ session \in [Clients -> 0..Lifetime]
    /\ ticker \in 0..Period /\ restarts \in 0..MaxRestarts
    /\ outcome \in [Addresses -> {"none", "granted", "refused"}]
    /\ span \in [Addresses -> {NotCounting} \cup 0..MaxSpan]
    /\ count \in [Addresses -> Nat]

\* A request asks the limiter its address has now: the clean-up, which runs
\* between getLimiter and Allow as well, never drops one that is still in use.
HeldIsCurrent ==
    \A c \in Clients : pc[c] = "held" => held[c] = limiters[Address[c]]

\* An address that falls silent is forgotten: no entry outlives its last request
\* by more than the TTL and one period of the clean-up.
EntriesExpire ==
    \A a \in Addresses : limiters[a] # NoLimiter => lastSeen[a] =< TTL + Period

\* In any stretch of time an address gets no more than the burst and what flows
\* in meanwhile, whichever limiters it had in that time.
RateBounded ==
    \A a \in Addresses :
        span[a] # NotCounting => count[a] * Per =< Full + span[a]

\* Together: handlers and the clean-up, which touch the map in any order, keep
\* one limiter for each address that asks, no longer than it is needed, and no
\* address gets more than one limiter gives.
LimiterInv ==
    /\ RateTypeOK
    /\ HeldIsCurrent
    /\ EntriesExpire
    /\ RateBounded

\* An address without an entry has a full bucket; with it, each address sees one
\* bucket for as long as the server runs, and never the clean-up.
Bucket ==
    [a \in Addresses |->
        IF limiters[a] = NoLimiter THEN Full ELSE level[limiters[a]]]

Abstract == INSTANCE TokenBucket WITH bucket <- Bucket

ImplementsTokenBucket == Abstract!Spec

\* However many clients share an address and are turned away, the address is not
\* turned away for ever: asking too often costs no token.
AddressServed ==
    \A a \in {Address[c] : c \in Clients} :
        []<>(outcome[a] = "granted")
=============================================================================
