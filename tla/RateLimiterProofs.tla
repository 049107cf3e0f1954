-------------------------- MODULE RateLimiterProofs --------------------------
(***************************************************************************)
(* Machine-checked proofs about RateLimiter, for any clients behind any    *)
(* addresses, any burst and rate, and any times that LimiterAssumption     *)
(* allows: LimiterInv is an invariant, and the limiters that come and go   *)
(* implement one TokenBucket for each address.                             *)
(***************************************************************************)
EXTENDS RateLimiter, TLAPS

-----------------------------------------------------------------------------
(* The inductive invariant                                                 *)

\* While a request has its limiter, its address was seen no earlier than when
\* the request took it.
HolderInv ==
    \A c \in Clients :
        pc[c] = "held" => held[c] \in Limiters /\ lastSeen[Address[c]] =< age[c]

\* No two addresses share a limiter.
OwnLimiters ==
    \A a, b \in Addresses :
        limiters[a] # NoLimiter /\ limiters[a] = limiters[b] => a = b

\* The clean-up is at most one period late for an entry.
QuietInv ==
    \A a \in Addresses : limiters[a] # NoLimiter => lastSeen[a] =< TTL + ticker

\* A limiter has refilled ever since the last request can have asked it.
RefillInv ==
    \A a \in Addresses :
        limiters[a] # NoLimiter =>
            Bucket[a] = Full \/ lastSeen[a] - MaxHold =< Bucket[a]

\* What an address got in a stretch of time is gone from its bucket, but for what
\* has flowed in.
SpentInv ==
    \A a \in Addresses :
        span[a] # NotCounting => count[a] * Per + Bucket[a] =< Full + span[a]

RateInv ==
    /\ RateTypeOK /\ HeldIsCurrent
    /\ HolderInv /\ OwnLimiters /\ QuietInv /\ RefillInv /\ SpentInv

LEMMA FullType == Full \in Nat /\ MaxHold + Full =< TTL
BY LimiterAssumption DEF Full

LEMMA BucketType == ASSUME RateTypeOK PROVE Bucket \in [Addresses -> 0..Full]
<1>1. ASSUME NEW a \in Addresses
      PROVE  Bucket[a] \in 0..Full
  BY <1>1, FullType DEF Bucket, RateTypeOK
<1>2. QED
  BY <1>1 DEF Bucket

LEMMA RateInvInit == Init => RateInv
<1> SUFFICES ASSUME Init PROVE RateInv
  OBVIOUS
<1>1. RateTypeOK
  BY FullType, LimiterAssumption DEF Init, RateTypeOK, NotCounting
<1>2. QED
  BY <1>1 DEF Init, RateInv, HeldIsCurrent, HolderInv, OwnLimiters, QuietInv,
     RefillInv, SpentInv

-----------------------------------------------------------------------------
(* What a step does to the bucket of each address                          *)

\* Looking up a limiter empties no bucket and fills none: a new limiter is as
\* full as no limiter.
LEMMA GetLimiterBucket ==
    ASSUME RateInv, NEW c \in Clients, getLimiter(c)
    PROVE  Bucket' = Bucket
<1> USE DEF RateInv, RateTypeOK
<1> DEFINE a == Address[c]
<1>0. a \in Addresses
  BY LimiterAssumption
<1>1. CASE limiters[a] # NoLimiter
  BY <1>0, <1>1 DEF getLimiter, Bucket
<1>2. CASE limiters[a] = NoLimiter
  <2>1. PICK l \in Unused : limiters' = [limiters EXCEPT ![a] = l]
                            /\ level' = [level EXCEPT ![l] = Full]
    BY <1>2 DEF getLimiter
  <2>2. l \in Limiters /\ l # NoLimiter /\ \A b \in Addresses : limiters[b] # l
    BY <2>1, LimiterAssumption DEF Unused
  <2>3. ASSUME NEW b \in Addresses
        PROVE  Bucket'[b] = Bucket[b]
    <3>1. CASE b = a
      BY <1>0, <1>2, <2>1, <2>2, <3>1 DEF Bucket
    <3>2. CASE b # a
      BY <1>0, <2>1, <2>2, <3>2 DEF Bucket
    <3>3. QED
      BY <3>1, <3>2
  <2>4. QED
    BY <2>3 DEF Bucket
<1>3. QED
  BY <1>1, <1>2

\* Allow asks the bucket of the client's address, and no other.
LEMMA AllowBucket ==
    ASSUME RateInv, NEW c \in Clients, Allow(c), NEW a, a = Address[c]
    PROVE  /\ a \in Addresses /\ limiters[a] = held[c] /\ limiters[a] \in Limiters
           /\ \/ /\ level[held[c]] >= Per /\ Bucket[a] >= Per
                 /\ Bucket' = [Bucket EXCEPT ![a] = @ - Per]
              \/ /\ level[held[c]] < Per /\ Bucket[a] < Per
                 /\ Bucket' = Bucket
<1> USE DEF RateInv, RateTypeOK, HeldIsCurrent, HolderInv
<1>1. a \in Addresses /\ limiters[a] = held[c] /\ limiters[a] \in Limiters
  BY LimiterAssumption DEF Allow
<1>2. limiters[a] # NoLimiter /\ Bucket[a] = level[held[c]]
  BY <1>1, LimiterAssumption DEF Bucket
<1>3. CASE level[held[c]] >= Per
  <2>1. level' = [level EXCEPT ![held[c]] = @ - Per] /\ UNCHANGED limiters
    BY <1>1, <1>3, LimiterAssumption DEF Allow
  <2>2. ASSUME NEW b \in Addresses
        PROVE  Bucket'[b] = IF b = a THEN Bucket[a] - Per ELSE Bucket[b]
    <3>1. CASE b = a
      BY <1>1, <1>2, <2>1, <3>1 DEF Bucket
    <3>2. CASE b # a /\ limiters[b] # NoLimiter
      <4>1. limiters[b] # held[c]
        BY <1>1, <1>2, <3>2 DEF OwnLimiters
      <4>2. QED
        BY <1>1, <2>1, <3>2, <4>1 DEF Bucket
    <3>3. CASE b # a /\ limiters[b] = NoLimiter
      BY <2>1, <3>3 DEF Bucket
    <3>4. QED
      BY <3>1, <3>2, <3>3
  <2>3. Bucket' = [Bucket EXCEPT ![a] = @ - Per]
    BY <1>1, <2>2 DEF Bucket
  <2>4. QED
    BY <1>1, <1>2, <1>3, <2>3
<1>4. CASE level[held[c]] < Per
  <2>1. UNCHANGED <<level, limiters>>
    BY <1>1, <1>4, LimiterAssumption DEF Allow
  <2>2. QED
    BY <1>1, <1>2, <1>4, <2>1 DEF Bucket
<1>5. QED
  BY <1>1, <1>3, <1>4, LimiterAssumption

\* The limiters that are dropped were full.
LEMMA CleanBucket ==
    ASSUME RateInv, cleanLimiters
    PROVE  Bucket' = Bucket
<1> USE DEF RateInv, RateTypeOK
<1>1. ASSUME NEW a \in Addresses
      PROVE  Bucket'[a] = Bucket[a]
  <2>1. limiters'[a] = IF lastSeen[a] > TTL THEN NoLimiter ELSE limiters[a]
    BY DEF cleanLimiters
  <2>2. CASE lastSeen[a] > TTL /\ limiters[a] # NoLimiter
    <3>1. Bucket[a] \in 0..Full
      BY BucketType
    <3>2. Bucket[a] = Full
      BY <2>2, <3>1, FullType, LimiterAssumption DEF RefillInv
    <3>3. QED
      BY <2>1, <2>2, <3>2 DEF Bucket
  <2>3. CASE ~(lastSeen[a] > TTL /\ limiters[a] # NoLimiter)
    BY <2>1, <2>3 DEF Bucket, cleanLimiters
  <2>4. QED
    BY <2>2, <2>3
<1>2. QED
  BY <1>1 DEF Bucket

LEMMA TickBucket ==
    ASSUME RateInv, Tick
    PROVE  Bucket' = [a \in Addresses |-> Least(Bucket[a] + 1, Full)]
<1> USE DEF RateInv, RateTypeOK
<1>1. ASSUME NEW a \in Addresses
      PROVE  Bucket'[a] = Least(Bucket[a] + 1, Full)
  <2>1. UNCHANGED limiters /\ level' = [l \in Limiters |-> Least(level[l] + 1, Full)]
    BY DEF Tick
  <2>2. CASE limiters[a] = NoLimiter
    BY <2>1, <2>2, FullType DEF Bucket, Least
  <2>3. CASE limiters[a] # NoLimiter
    BY <2>1, <2>3 DEF Bucket
  <2>4. QED
    BY <2>2, <2>3
<1>2. QED
  BY <1>1 DEF Bucket

LEMMA RestartBucket ==
    ASSUME Restart
    PROVE  Bucket' = [a \in Addresses |-> Full]
BY DEF Restart, Bucket

-----------------------------------------------------------------------------
(* The invariant, one action at a time                                     *)

LEMMA GetLimiterKeeps ==
    ASSUME RateInv, NEW c \in Clients, getLimiter(c)
    PROVE  RateInv'
<1> USE DEF RateInv
<1> DEFINE a == Address[c]
<1>1. a \in Addresses /\ Bucket' = Bucket
  BY GetLimiterBucket, LimiterAssumption
<1>2. UNCHANGED <<session, ticker, restarts, outcome, span, count>>
      /\ lastSeen' = [lastSeen EXCEPT ![a] = 0] /\ age' = [age EXCEPT ![c] = 0]
      /\ pc' = [pc EXCEPT ![c] = "held"]
  BY DEF getLimiter, counting
<1>3. PICK l \in Limiters :
          /\ held' = [held EXCEPT ![c] = l]
          /\ limiters' = [limiters EXCEPT ![a] = l]
          /\ \A b \in Addresses : limiters[b] = l => b = a
          /\ level' = level \/ level' = [level EXCEPT ![l] = Full]
          /\ limiters[a] = l \/ limiters[a] = NoLimiter
  <2>1. CASE limiters[a] # NoLimiter
    BY <1>1, <2>1 DEF getLimiter, OwnLimiters, RateTypeOK
  <2>2. CASE limiters[a] = NoLimiter
    BY <1>1, <2>2 DEF getLimiter, Unused, RateTypeOK
  <2>3. QED
    BY <2>1, <2>2
<1>4. RateTypeOK'
  BY <1>1, <1>2, <1>3, FullType, LimiterAssumption DEF RateTypeOK
<1>5. ASSUME NEW d \in Clients, pc'[d] = "held"
      PROVE  /\ held'[d] = limiters'[Address[d]]
             /\ held'[d] \in Limiters /\ lastSeen'[Address[d]] =< age'[d]
  <2>1. Address[d] \in Addresses
    BY LimiterAssumption
  <2>2. CASE d = c
    BY <1>1, <1>2, <1>3, <2>2 DEF RateTypeOK
  <2>3. CASE d # c
    <3>1. pc[d] = "held" /\ held'[d] = held[d] /\ age'[d] = age[d]
      BY <1>2, <1>3, <1>5, <2>3 DEF RateTypeOK
    <3>2. held[d] = limiters[Address[d]] /\ held[d] \in Limiters
          /\ lastSeen[Address[d]] =< age[d]
      BY <3>1 DEF HeldIsCurrent, HolderInv
    <3>3. CASE Address[d] = a
      BY <1>1, <1>2, <1>3, <3>1, <3>2, <3>3, LimiterAssumption DEF RateTypeOK
    <3>4. CASE Address[d] # a
      BY <1>1, <1>2, <1>3, <2>1, <3>1, <3>2, <3>4 DEF RateTypeOK
    <3>5. QED
      BY <3>3, <3>4
  <2>4. QED
    BY <2>2, <2>3
<1>6. HeldIsCurrent' /\ HolderInv'
  BY <1>5 DEF HeldIsCurrent, HolderInv
<1>7. OwnLimiters'
  BY <1>1, <1>3 DEF OwnLimiters, RateTypeOK
<1>8. QuietInv'
  BY <1>1, <1>2, <1>3, LimiterAssumption DEF QuietInv, RateTypeOK
<1>9. RefillInv'
  <2> SUFFICES ASSUME NEW b \in Addresses, limiters'[b] # NoLimiter
               PROVE  Bucket[b] = Full \/ lastSeen'[b] - MaxHold =< Bucket[b]
    BY <1>1 DEF RefillInv
  <2>1. Bucket[b] \in 0..Full
    BY BucketType
  <2>2. QED
    BY <1>1, <1>2, <1>3, <2>1, FullType, LimiterAssumption DEF RefillInv, RateTypeOK
<1>10. SpentInv'
  BY <1>1, <1>2 DEF SpentInv, Full
<1>11. QED
  BY <1>4, <1>6, <1>7, <1>8, <1>9, <1>10

LEMMA AllowKeeps ==
    ASSUME RateInv, NEW c \in Clients, Allow(c)
    PROVE  RateInv'
<1> USE DEF RateInv
<1> DEFINE a == Address[c]
<1>1. /\ a \in Addresses /\ limiters[a] = held[c] /\ held[c] \in Limiters
      /\ \/ /\ level[held[c]] >= Per /\ Bucket[a] >= Per
            /\ Bucket' = [Bucket EXCEPT ![a] = @ - Per]
         \/ level[held[c]] < Per /\ Bucket[a] < Per /\ Bucket' = Bucket
  BY AllowBucket
<1>2. /\ UNCHANGED <<limiters, lastSeen, session, ticker, restarts, span>>
      /\ held' = [held EXCEPT ![c] = NoLimiter]
      /\ age' = [age EXCEPT ![c] = 0]
      /\ pc' \in [Clients -> {"idle", "held", "token"}] /\ pc'[c] # "held"
      /\ \A d \in Clients : d # c => pc'[d] = pc[d]
      /\ outcome' \in [Addresses -> {"none", "granted", "refused"}]
  BY <1>1 DEF Allow, LetGo, RateTypeOK
<1>3. level' \in [Limiters -> 0..Full]
  BY <1>1, FullType, LimiterAssumption DEF Allow, RateTypeOK
<1>4. count' \in [Addresses -> Nat]
  BY <1>1 DEF Allow, Counted, RateTypeOK
<1>5. RateTypeOK'
  BY <1>2, <1>3, <1>4, LimiterAssumption DEF RateTypeOK
<1>6. HeldIsCurrent' /\ HolderInv'
  BY <1>2 DEF HeldIsCurrent, HolderInv, RateTypeOK
<1>7. OwnLimiters' /\ QuietInv'
  BY <1>2 DEF OwnLimiters, QuietInv
<1>8. RefillInv'
  <2> SUFFICES ASSUME NEW b \in Addresses, limiters[b] # NoLimiter
               PROVE  Bucket'[b] = Full \/ lastSeen[b] - MaxHold =< Bucket'[b]
    BY <1>2 DEF RefillInv
  <2>1. CASE b = a
    <3>1. lastSeen[a] =< age[c] /\ age[c] =< MaxHold
      BY DEF HolderInv, Allow, RateTypeOK
    <3>2. Bucket'[a] >= 0 /\ Bucket'[a] \in Int
      BY <1>1, BucketType, LimiterAssumption
    <3>3. QED
      BY <1>1, <2>1, <3>1, <3>2, LimiterAssumption DEF RateTypeOK
  <2>2. CASE b # a
    BY <1>1, <2>2, BucketType DEF RefillInv
  <2>3. QED
    BY <2>1, <2>2
<1>9. SpentInv'
  <2> SUFFICES ASSUME NEW b \in Addresses, span[b] # NotCounting
               PROVE  count'[b] * Per + Bucket'[b] =< Full + span[b]
    BY <1>2 DEF SpentInv, Full
  <2>1. count[b] * Per + Bucket[b] =< Full + span[b] /\ Bucket[b] \in Int
    BY BucketType DEF SpentInv
  <2>2. CASE level[held[c]] >= Per
    <3>1. count' = [count EXCEPT ![a] = IF span[a] = NotCounting THEN 0 ELSE @ + 1]
          /\ Bucket' = [Bucket EXCEPT ![a] = @ - Per]
      BY <1>1, <2>2, LimiterAssumption DEF Allow, Counted, RateTypeOK
    <3>2. CASE b = a
      <4>1. count'[b] = count[b] + 1 /\ Bucket'[b] = Bucket[b] - Per
        BY <1>1, <3>1, <3>2, BucketType DEF RateTypeOK
      <4>2. (count[b] + 1) * Per = count[b] * Per + Per
        BY LimiterAssumption DEF RateTypeOK
      <4>3. count[b] * Per \in Int /\ span[b] \in Int /\ Per \in Int
        BY LimiterAssumption DEF RateTypeOK, NotCounting
      <4>4. QED
        BY <2>1, <4>1, <4>2, <4>3, FullType
    <3>3. CASE b # a
      BY <2>1, <3>1, <3>3, BucketType DEF RateTypeOK
    <3>4. QED
      BY <3>2, <3>3
  <2>3. CASE level[held[c]] < Per
    <3>1. UNCHANGED count /\ Bucket' = Bucket
      BY <1>1, <2>3, LimiterAssumption DEF Allow, RateTypeOK
    <3>2. QED
      BY <2>1, <3>1
  <2>4. QED
    BY <1>1, <2>2, <2>3, LimiterAssumption DEF RateTypeOK
<1>10. QED
  BY <1>5, <1>6, <1>7, <1>8, <1>9

LEMMA CleanKeeps ==
    ASSUME RateInv, cleanLimiters
    PROVE  RateInv'
<1> USE DEF RateInv
<1>1. Bucket' = Bucket
  BY CleanBucket
<1>2. UNCHANGED <<lastSeen, level, requests, session, restarts, outcome, counting>>
      /\ ticker = Period /\ ticker' = 0
      /\ limiters' = [a \in Addresses |->
                         IF lastSeen[a] > TTL THEN NoLimiter ELSE limiters[a]]
  BY DEF cleanLimiters
<1>3. RateTypeOK'
  BY <1>2, LimiterAssumption DEF RateTypeOK, requests, counting
<1>4. ASSUME NEW c \in Clients, pc[c] = "held"
      PROVE  limiters'[Address[c]] = limiters[Address[c]]
  <2>1. lastSeen[Address[c]] =< age[c] /\ age[c] =< MaxHold /\ Address[c] \in Addresses
    BY <1>4, LimiterAssumption DEF HolderInv, RateTypeOK
  <2>2. ~(lastSeen[Address[c]] > TTL)
    BY <2>1, FullType, LimiterAssumption DEF RateTypeOK
  <2>3. QED
    BY <1>2, <2>1, <2>2
<1>5. HeldIsCurrent' /\ HolderInv'
  BY <1>2, <1>4 DEF HeldIsCurrent, HolderInv, requests
<1>6. OwnLimiters'
  BY <1>2 DEF OwnLimiters
<1>7. QuietInv'
  BY <1>2, LimiterAssumption DEF QuietInv, RateTypeOK
<1>8. RefillInv' /\ SpentInv'
  BY <1>1, <1>2 DEF RefillInv, SpentInv, counting, Full
<1>9. QED
  BY <1>3, <1>5, <1>6, <1>7, <1>8

LEMMA TickKeeps ==
    ASSUME RateInv, Tick
    PROVE  RateInv'
<1> USE DEF RateInv
<1>1. Bucket' = [a \in Addresses |-> Least(Bucket[a] + 1, Full)]
      /\ Bucket \in [Addresses -> 0..Full]
  BY TickBucket, BucketType
<1>2. RateTypeOK'
  BY FullType, LimiterAssumption DEF Tick, RateTypeOK, Least, NotCounting
<1>3. ASSUME NEW c \in Clients, pc[c] = "held"
      PROVE  lastSeen'[Address[c]] =< age'[c]
  <2>1. Address[c] \in Addresses /\ lastSeen[Address[c]] =< age[c]
    BY <1>3, LimiterAssumption DEF HolderInv
  <2>2. QED
    BY <1>3, <2>1 DEF Tick, RateTypeOK
<1>4. HeldIsCurrent' /\ HolderInv' /\ OwnLimiters'
  BY <1>3 DEF HeldIsCurrent, HolderInv, OwnLimiters, Tick
<1>5. QuietInv'
  BY LimiterAssumption DEF QuietInv, Tick, RateTypeOK
<1>6. RefillInv'
  <2> SUFFICES ASSUME NEW a \in Addresses, limiters[a] # NoLimiter
               PROVE  Bucket'[a] = Full \/ lastSeen'[a] - MaxHold =< Bucket'[a]
    BY DEF RefillInv, Tick
  <2>1. Bucket[a] = Full \/ lastSeen[a] - MaxHold =< Bucket[a]
    BY DEF RefillInv
  <2>2. lastSeen'[a] = lastSeen[a] + 1
    BY DEF Tick
  <2>3. QED
    BY <1>1, <2>1, <2>2, FullType, LimiterAssumption DEF Least, RateTypeOK
<1>7. SpentInv'
  <2> SUFFICES ASSUME NEW a \in Addresses, span'[a] # NotCounting
               PROVE  count'[a] * Per + Bucket'[a] =< Full + span'[a]
    BY DEF SpentInv, Full
  <2>1. span[a] \in 0..MaxSpan - 1 /\ span'[a] = span[a] + 1 /\ count'[a] = count[a]
    BY DEF Tick
  <2>2. count[a] * Per + Bucket[a] =< Full + span[a]
    BY <2>1 DEF SpentInv, NotCounting
  <2>3. count[a] * Per \in Int
    BY LimiterAssumption DEF RateTypeOK
  <2>4. QED
    BY <1>1, <2>1, <2>2, <2>3, FullType, LimiterAssumption DEF Least
<1>8. QED
  BY <1>2, <1>4, <1>5, <1>6, <1>7

\* The end of the process, the grant of a token, and the moment a stretch begins.
LEMMA OthersKeep ==
    ASSUME RateInv,
           Restart \/ (\E c \in Clients : authToken(c)) \/ (\E a \in Addresses : Watch(a))
    PROVE  RateInv'
<1> USE DEF RateInv
<1>1. CASE Restart
  <2>1. RateTypeOK'
    BY <1>1, LimiterAssumption DEF Restart, RateTypeOK, NotCounting
  <2>2. QED
    BY <1>1, <2>1 DEF Restart, HeldIsCurrent, HolderInv, OwnLimiters, QuietInv,
       RefillInv, SpentInv
<1>2. ASSUME NEW c \in Clients, authToken(c)
      PROVE  RateInv'
  <2>1. RateTypeOK'
    BY <1>2, LimiterAssumption DEF authToken, RateTypeOK, counting
  <2>2. Bucket' = Bucket
    BY <1>2 DEF authToken, Bucket
  <2>3. HeldIsCurrent' /\ HolderInv'
    BY <1>2 DEF authToken, HeldIsCurrent, HolderInv, RateTypeOK
  <2>4. QED
    BY <1>2, <2>1, <2>2, <2>3 DEF authToken, OwnLimiters, QuietInv, RefillInv,
       SpentInv, counting, Full
<1>3. ASSUME NEW a \in Addresses, Watch(a)
      PROVE  RateInv'
  <2>1. RateTypeOK'
    BY <1>3, LimiterAssumption DEF Watch, RateTypeOK, requests
  <2>2. Bucket' = Bucket
    BY <1>3 DEF Watch, Bucket
  <2>3. SpentInv'
    <3> SUFFICES ASSUME NEW b \in Addresses, span'[b] # NotCounting
                 PROVE  count'[b] * Per + Bucket[b] =< Full + span'[b]
      BY <2>2 DEF SpentInv, Full
    <3>1. CASE b = a
      <4>1. count'[b] = 0 /\ span'[b] = 0 /\ Bucket[b] \in 0..Full
        BY <1>3, <3>1, BucketType DEF Watch, RateTypeOK
      <4>2. QED
        BY <4>1, FullType, LimiterAssumption
    <3>2. CASE b # a
      BY <1>3, <3>2 DEF Watch, RateTypeOK, SpentInv
    <3>3. QED
      BY <3>1, <3>2
  <2>4. QED
    BY <1>3, <2>1, <2>2, <2>3 DEF Watch, HeldIsCurrent, HolderInv, OwnLimiters,
       QuietInv, RefillInv, requests
<1>4. QED
  BY <1>1, <1>2, <1>3

LEMMA RateInvStep == RateInv /\ [Next]_vars => RateInv'
<1> SUFFICES ASSUME RateInv, [Next]_vars PROVE RateInv'
  OBVIOUS
<1>1. CASE Next
  BY <1>1, GetLimiterKeeps, AllowKeeps, CleanKeeps, TickKeeps, OthersKeep DEF Next
<1>2. CASE UNCHANGED vars
  BY <1>2 DEF vars, requests, counting, RateInv, RateTypeOK, HeldIsCurrent, HolderInv,
     OwnLimiters, QuietInv, RefillInv, SpentInv, Bucket, Full
<1>3. QED
  BY <1>1, <1>2

\* Whatever requests, clean-ups and restarts interleave: a request asks the limiter
\* its address has at that moment, entries go in time, and no address gets more in
\* any stretch of time than the burst and what flows in meanwhile.
THEOREM LimiterCorrect == Spec => []LimiterInv
<1>1. RateInv => LimiterInv
  <2> SUFFICES ASSUME RateInv PROVE LimiterInv
    OBVIOUS
  <2> USE DEF RateInv
  <2>1. EntriesExpire
    BY LimiterAssumption DEF QuietInv, EntriesExpire, RateTypeOK
  <2>2. RateBounded
    <3> SUFFICES ASSUME NEW a \in Addresses, span[a] # NotCounting
                 PROVE  count[a] * Per =< Full + span[a]
      BY DEF RateBounded
    <3>1. Bucket[a] \in 0..Full /\ count[a] * Per + Bucket[a] =< Full + span[a]
      BY BucketType DEF SpentInv
    <3>2. count[a] * Per \in Int /\ span[a] \in Int
      BY LimiterAssumption DEF RateTypeOK, NotCounting
    <3>3. QED
      BY <3>1, <3>2, FullType
  <2>3. QED
    BY <2>1, <2>2 DEF LimiterInv
<1>2. QED
  BY <1>1, RateInvInit, RateInvStep, PTL DEF Spec

-----------------------------------------------------------------------------
(* The refinement                                                          *)

LEMMA InitMaps == Init => Abstract!Init
BY DEF Init, Abstract!Init, Bucket, Full, Abstract!Full

LEMMA StepMaps ==
    RateInv /\ [Next]_vars => [Abstract!Next]_<<Bucket, outcome>>
<1> SUFFICES ASSUME RateInv, [Next]_vars
             PROVE  [Abstract!Next]_<<Bucket, outcome>>
  OBVIOUS
<1>1. ASSUME NEW c \in Clients, getLimiter(c)
      PROVE  UNCHANGED <<Bucket, outcome>>
  BY <1>1, GetLimiterBucket DEF getLimiter
<1>2. ASSUME NEW c \in Clients, Allow(c)
      PROVE  \E a \in Addresses : Abstract!Grant(a) \/ Abstract!Refuse(a)
  <2> DEFINE a == Address[c]
  <2>1. a \in Addresses /\ limiters[a] \in Limiters /\ limiters[a] = held[c]
    BY <1>2, AllowBucket
  <2>2. CASE level[held[c]] >= Per
    <3>1. Bucket[a] >= Per /\ Bucket' = [Bucket EXCEPT ![a] = @ - Per]
      BY <1>2, <2>1, <2>2, AllowBucket, LimiterAssumption DEF RateInv, RateTypeOK
    <3>2. outcome' = [outcome EXCEPT ![a] = "granted"]
      BY <1>2, <2>1, <2>2, LimiterAssumption DEF Allow, RateInv, RateTypeOK
    <3>3. QED
      BY <2>1, <3>1, <3>2 DEF Abstract!Grant
  <2>3. CASE level[held[c]] < Per
    <3>1. Bucket[a] < Per /\ Bucket' = Bucket
      BY <1>2, <2>1, <2>3, AllowBucket, LimiterAssumption DEF RateInv, RateTypeOK
    <3>2. outcome' = [outcome EXCEPT ![a] = "refused"]
      BY <1>2, <2>1, <2>3, LimiterAssumption DEF Allow, RateInv, RateTypeOK
    <3>3. QED
      BY <2>1, <3>1, <3>2 DEF Abstract!Refuse
  <2>4. QED
    BY <2>1, <2>2, <2>3, LimiterAssumption DEF RateInv, RateTypeOK
<1>3. ASSUME NEW c \in Clients, authToken(c)
      PROVE  UNCHANGED <<Bucket, outcome>>
  BY <1>3 DEF authToken, Bucket
<1>4. CASE cleanLimiters
  BY <1>4, CleanBucket DEF cleanLimiters
<1>5. CASE Tick
  BY <1>5, TickBucket DEF Tick, Abstract!Next, Abstract!Tick, Abstract!Least, Least,
     Full, Abstract!Full
<1>6. CASE Restart
  BY <1>6, RestartBucket DEF Restart, Abstract!Next, Abstract!Restart, Abstract!Init,
     Full, Abstract!Full
<1>7. ASSUME NEW a \in Addresses, Watch(a)
      PROVE  UNCHANGED <<Bucket, outcome>>
  BY <1>7 DEF Watch, Bucket
<1>8. CASE UNCHANGED vars
  BY <1>8 DEF vars, Bucket
<1>9. QED
  BY <1>1, <1>2, <1>3, <1>4, <1>5, <1>6, <1>7, <1>8 DEF Next, Abstract!Next

\* Seen from an address, limiters that are made when it asks and dropped when it is
\* quiet are one bucket that is there for as long as the server runs.
THEOREM LimiterImplementsBucket == Spec => ImplementsTokenBucket
BY InitMaps, StepMaps, RateInvInit, RateInvStep, PTL
   DEF Spec, ImplementsTokenBucket, Abstract!Spec
=============================================================================
