---------------------------- MODULE TokenBucket ----------------------------
(***************************************************************************)
(* What rate limiting promises to each address: a bucket of Burst tokens,  *)
(* one more every Per ticks as long as it is not full, one token for each  *)
(* request that is let through, and no request turned away while a token   *)
(* is left.  The buckets of a server that starts are full.                 *)
(*                                                                         *)
(* A bucket counts ticks: Per of them are a token.                         *)
(***************************************************************************)
EXTENDS Integers

CONSTANTS Addresses, Burst, Per

VARIABLES
    bucket,    \* of each address
    outcome    \* of its last request

Full == Burst * Per
Least(a, b) == IF a < b THEN a ELSE b

Init ==
    /\ bucket = [a \in Addresses |-> Full]
    /\ outcome = [a \in Addresses |-> "none"]

Grant(a) ==
    /\ bucket[a] >= Per
    /\ bucket' = [bucket EXCEPT ![a] = @ - Per]
    /\ outcome' = [outcome EXCEPT ![a] = "granted"]

Refuse(a) ==
    /\ bucket[a] < Per
    /\ outcome' = [outcome EXCEPT ![a] = "refused"]
    /\ UNCHANGED bucket

Tick ==
    /\ bucket' = [a \in Addresses |-> Least(bucket[a] + 1, Full)]
    /\ UNCHANGED outcome

Restart == Init'

Next ==
    \/ \E a \in Addresses : Grant(a) \/ Refuse(a)
    \/ Tick \/ Restart

Spec == Init /\ [][Next]_<<bucket, outcome>>
=============================================================================
