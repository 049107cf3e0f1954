------------------------- MODULE ConfigReloadProofs -------------------------
(***************************************************************************)
(* Machine-checked proofs about ConfigReload, and about the queue that is  *)
(* served meanwhile, for any number of editions, reloads, failures and     *)
(* attempts, and any fields, defaults and directories.                     *)
(***************************************************************************)
EXTENDS ReloadWhileServing, FiniteSetTheorems, TLAPS

Loading == {"defaults", "decode"}

\* What is in a field before json.Unmarshal comes to it.
Base(f) == IF f \in Defaulted THEN Default ELSE Zero

\* What the loader l has made of C so far.
Progress(l) ==
    /\ pc[l] = "defaults" => C = [f \in Fields |-> Zero]
    /\ pc[l] = "decode" =>
          \A f \in Fields :
              C[f] = Base(f) \/ (f \notin LeftOut[got[l]] /\ C[f] = got[l])

\* Who holds the lock is loading, and what a loader has fetched is an edition.
LockInv ==
    /\ lock # NoOne => up /\ pc[lock] \in Loading /\ Progress(lock)
    /\ \A l \in Loaders :
          /\ pc[l] \in Loading => lock = l
          /\ pc[l] \in Loading \cup {"compare", "lock"} => got[l] \in Editions
    /\ ~up => \A l \in Loaders : pc[l] = "rest"

LoadInv == ReloadTypeOK /\ LockInv /\ LockedReadersSeeOne

\* The steps of a loader outside Load_Config, and everybody else's, leave
\* models.C and its lock alone.
Frame ==
    /\ UNCHANGED <<up, C, lock>>
    /\ \A l \in Loaders :
          /\ pc'[l] \in Loading <=> pc[l] \in Loading
          /\ pc[l] \in Loading => pc'[l] = pc[l] /\ got'[l] = got[l]
          /\ pc'[l] \in {"compare", "lock"} => got'[l] \in Editions

LEMMA FrameKeeps ==
    ASSUME LoadInv, ReloadTypeOK', Frame, up
    PROVE  LoadInv'
<1>1. LockInv'
  <2>1. CASE lock = NoOne
    BY <2>1 DEF LoadInv, LockInv, Frame, Loading
  <2>2. CASE lock # NoOne
    <3>1. lock \in Loaders /\ pc'[lock] = pc[lock] /\ got'[lock] = got[lock]
      BY <2>2 DEF LoadInv, LockInv, Frame, ReloadTypeOK, Loading
    <3>2. Progress(lock) /\ Progress(lock)'
      BY <2>2, <3>1 DEF LoadInv, LockInv, Frame, Progress, Base
    <3>3. QED
      BY <2>2, <3>1, <3>2 DEF LoadInv, LockInv, Frame, Loading
  <2>3. QED
    BY <2>1, <2>2
<1>2. LockedReadersSeeOne'
  BY DEF LoadInv, LockedReadersSeeOne, Frame, Decoded
<1>3. QED
  BY <1>1, <1>2 DEF LoadInv

LEMMA ExitKeeps ==
    ASSUME LoadInv, ReloadTypeOK', Exit
    PROVE  LoadInv'
BY DEF LoadInv, LockInv, LockedReadersSeeOne, Exit, Loading, Loaders, NoOne

-----------------------------------------------------------------------------
(* Types                                                                   *)

LEMMA TypeExit ==
    ASSUME ReloadTypeOK, Exit, faults' \in Nat
    PROVE  ReloadTypeOK'
<1>1. 0 \in 0..MaxTries - 1
  BY EditionsAssumption
<1>2. QED
  BY <1>1 DEF ReloadTypeOK, Exit, Zero, Default, NoJSON, NoOne, NoHash, NoLevel,
              jsonair

LEMMA TypeGet ==
    ASSUME ReloadTypeOK, NEW l \in Loaders, GetConfigJSON(l)
    PROVE  ReloadTypeOK'
<1> USE EditionsAssumption
    DEF At, Goto, jsonair, hashes, debug, past, loading, Fault
<1>1. CASE Fetch(l)
  BY <1>1 DEF Fetch, ReloadTypeOK, Editions
<1>2. ASSUME NEW tok \in Nat, NextTry(l, tok), faults' \in Nat
      PROVE  ReloadTypeOK'
  <2>1. CASE Exit
    BY <1>2, <2>1, TypeExit
  <2>2. CASE ~Exit
    BY <1>2, <2>2 DEF NextTry, ReloadTypeOK, Editions
  <2>3. QED
    BY <2>1, <2>2
<1>3. CASE FetchFails(l)
  BY <1>2, <1>3 DEF FetchFails, ReloadTypeOK
<1>4. CASE Unauthorized(l)
  BY <1>2, <1>4 DEF Unauthorized, ReloadTypeOK
<1>5. CASE AuthFails(l)
  BY <1>2, <1>5, TypeExit DEF AuthFails, ReloadTypeOK
<1>6. QED
  BY <1>1, <1>3, <1>4, <1>5 DEF GetConfigJSON

LEMMA TypeLoad ==
    ASSUME ReloadTypeOK, NEW l \in Loaders, Load_Config(l)
    PROVE  ReloadTypeOK'
<1> USE EditionsAssumption
    DEF At, Goto, jsonair, loading, hashes, debug, past, Zero, Default, NoJSON, NoOne
<1>1. CASE Reset(l)
  BY <1>1 DEF Reset, ReloadTypeOK
<1>2. CASE SetDefaults(l)
  BY <1>2 DEF SetDefaults, ReloadTypeOK
<1>3. CASE Decode(l)
  <2>1. PICK f \in Undecoded(l) : C' = [C EXCEPT ![f] = got[l]]
    BY <1>3 DEF Decode
  <2>2. got[l] \in {0} \cup Editions /\ f \in Fields
    BY <2>1 DEF Undecoded, ReloadTypeOK
  <2>3. C' \in [Fields -> {Zero, Default} \cup Editions]
    BY <2>1, <2>2 DEF ReloadTypeOK
  <2>4. QED
    BY <1>3, <2>3 DEF Decode, ReloadTypeOK
<1>4. CASE Refuse(l)
  BY <1>4, TypeExit DEF Refuse, ReloadTypeOK
<1>5. QED
  BY <1>1, <1>2, <1>3, <1>4 DEF Load_Config

LEMMA DecodedType ==
    ASSUME NEW e \in Editions
    PROVE  Decoded(e) \in [Fields -> {Zero, Default} \cup Editions]
BY DEF Decoded, Zero, Default

LEMMA TypeStep == ReloadTypeOK /\ [Next]_vars => ReloadTypeOK'
<1> SUFFICES ASSUME ReloadTypeOK, [Next]_vars
             PROVE  ReloadTypeOK'
  OBVIOUS
<1> USE EditionsAssumption
    DEF At, Goto, jsonair, loading, hashes, debug, past, NoJSON, NoOne, NoHash,
        NoLevel, Fault
<1>1. CASE JSONAir
  <2>1. UNCHANGED Process
    BY <1>1 DEF JSONAir, Edit, Signal, SetLevel, Expire, Process
  <2>2. /\ edition' \in Editions /\ signal' \in Nat /\ level' \in Nat
        /\ good' \in Nat /\ hups' \in Nat /\ signalled' \in Editions
    BY <1>1 DEF JSONAir, Edit, Signal, SetLevel, Expire, ReloadTypeOK, Editions
  <2>3. QED
    BY <2>1, <2>2 DEF Process, ReloadTypeOK
<1>2. CASE Start
  <2>1. C' \in [Fields -> {Zero, Default} \cup Editions]
    BY <1>2, DecodedType DEF Start, Started, ReloadTypeOK
  <2>2. pc' \in [Loaders -> {"rest", "first", "fetch"}]
    BY <1>2 DEF Start, Started, Loaders
  <2>3. QED
    BY <1>2, <2>1, <2>2 DEF Start, Started, ReloadTypeOK
<1>3. ASSUME NEW l \in Loaders, Unlock(l), UNCHANGED <<jsonair, up, C, JSON,
                token, tries, reload_hash, debug, hups, faults, signalled, first>>,
             old_reload_hash' \in Nat, mine' \in {0} \cup Editions,
             pc' \in [Loaders -> {"rest", "first", "level", "hash", "fetch",
                         "compare", "lock", "defaults", "decode", "debug"}]
      PROVE  ReloadTypeOK'
  BY <1>3 DEF Unlock, ReloadTypeOK
<1>4. CASE Monitor_Config
  <2>1. CASE Compare
    BY <2>1 DEF Compare, ReloadTypeOK
  <2>2. CASE PollDone
    BY <1>3, <2>2 DEF PollDone, ReloadTypeOK, Loaders
  <2>3. QED
    BY <1>4, <2>1, <2>2, TypeGet, TypeLoad DEF Monitor_Config, Loaders
<1>5. CASE Monitor_Reload
  <2>1. ASSUME NEW h \in {signal, NoHash}, FirstHash(h) \/ Hash(h)
        PROVE  ReloadTypeOK'
    BY <2>1 DEF FirstHash, Hash, Reply, ReloadTypeOK
  <2>2. ASSUME NEW d \in {level, NoLevel}, FirstLevel(d) \/ Level(d)
        PROVE  ReloadTypeOK'
    BY <2>2 DEF FirstLevel, Level, Reply, ReloadTypeOK
  <2>3. ASSUME NEW d \in {level, NoLevel}, LevelRefused(d)
        PROVE  ReloadTypeOK'
    <3>1. faults' \in Nat
      BY <2>3 DEF LevelRefused, Reply, ReloadTypeOK
    <3>2. QED
      BY <2>3, <3>1, TypeExit DEF LevelRefused
  <2>4. CASE FirstLevelFails
    BY <2>4, TypeExit DEF FirstLevelFails, ReloadTypeOK
  <2>5. CASE ReloadDone
    BY <1>3, <2>5 DEF ReloadDone, ReloadTypeOK, Loaders
  <2>6. QED
    BY <1>5, <2>1, <2>2, <2>3, <2>4, <2>5, TypeGet, TypeLoad
       DEF Monitor_Reload, Loaders
<1>6. CASE Hup \/ SigHandler
  <2>1. CASE Hup
    <3>1. hups' \in Nat
      BY <2>1 DEF Hup, ReloadTypeOK
    <3>2. QED
      BY <2>1, <3>1 DEF Hup, ReloadTypeOK
  <2>2. CASE HupDone
    BY <1>3, <2>2 DEF HupDone, ReloadTypeOK, Loaders
  <2>3. QED
    BY <1>6, <2>1, <2>2, TypeGet, TypeLoad DEF SigHandler, Loaders
<1>7. CASE UNCHANGED vars
  BY <1>7 DEF vars, ReloadTypeOK
<1>8. QED
  BY <1>1, <1>2, <1>4, <1>5, <1>6, <1>7 DEF Next

-----------------------------------------------------------------------------
(* Readers with the lock see one edition                                   *)

LEMMA LoadInvInit == Init => LoadInv
<1>1. 0 \in 0..MaxTries - 1 /\ 1 \in Editions
  BY EditionsAssumption DEF Editions
<1>2. Init => ReloadTypeOK
  <2> SUFFICES ASSUME Init
               PROVE  ReloadTypeOK
    OBVIOUS
  <2>1. /\ C \in [Fields -> {Zero, Default} \cup Editions]
        /\ pc \in [Loaders -> {"rest"}] /\ got \in [Loaders -> {0}]
        /\ token \in [Loaders -> {0}] /\ tries \in [Loaders -> {0}]
    BY DEF Init
  <2>2. QED
    BY <1>1, <2>1 DEF Init, ReloadTypeOK, NoOne, NoJSON, NoHash, NoLevel
<1>3. QED
  BY <1>2 DEF Init, LoadInv, LockInv, LockedReadersSeeOne, Loading, NoOne

LEMMA GetFrame ==
    ASSUME LoadInv, NEW l \in Loaders, GetConfigJSON(l)
    PROVE  Frame \/ Exit
<1> USE DEF LoadInv, LockInv, ReloadTypeOK, Loading, Frame, At, Goto
<1>1. CASE Fetch(l)
  BY <1>1 DEF Fetch
<1>2. ASSUME NEW tok, NextTry(l, tok)
      PROVE  Frame \/ Exit
  BY <1>2 DEF NextTry
<1>3. QED
  BY <1>1, <1>2 DEF GetConfigJSON, FetchFails, Unauthorized, AuthFails

\* What the steps of Load_Config leave to be shown for the loader under way.
LEMMA LoadKeeps ==
    ASSUME LoadInv, ReloadTypeOK', NEW l \in Loaders, Load_Config(l)
    PROVE  LoadInv'
<1> USE DEF LoadInv, LockInv, LockedReadersSeeOne, At, Goto, Loading, NoOne
<1>1. CASE Reset(l)
  <2>1. Progress(l)'
    BY <1>1 DEF Reset, Progress, ReloadTypeOK
  <2>2. QED
    BY <1>1, <2>1 DEF Reset, ReloadTypeOK, Loaders
<1>2. CASE SetDefaults(l)
  <2>1. lock = l /\ Progress(l)
    BY <1>2 DEF SetDefaults, Loaders
  <2>2. Progress(l)'
    BY <1>2, <2>1 DEF SetDefaults, Progress, Base, ReloadTypeOK
  <2>3. QED
    BY <1>2, <2>1, <2>2 DEF SetDefaults, ReloadTypeOK, Loaders
<1>3. CASE Decode(l)
  <2>1. lock = l /\ Progress(l)
    BY <1>3 DEF Decode, Loaders
  <2>2. PICK f \in Undecoded(l) : C' = [C EXCEPT ![f] = got[l]]
    BY <1>3 DEF Decode
  <2>3. Progress(l)'
    BY <1>3, <2>1, <2>2 DEF Decode, Undecoded, Progress, Base, ReloadTypeOK, loading
  <2>4. QED
    BY <1>3, <2>1, <2>3 DEF Decode, ReloadTypeOK, Loaders, loading
<1>4. CASE Refuse(l)
  BY <1>4, ExitKeeps DEF Refuse
<1>5. QED
  BY <1>1, <1>2, <1>3, <1>4 DEF Load_Config

\* Decoding is done when every field the edition has holds it.
LEMMA UnlockKeeps ==
    ASSUME LoadInv, ReloadTypeOK', NEW l \in Loaders, Unlock(l),
           UNCHANGED <<up, C>>,
           \E next \in {"fetch", "debug", "rest"} : Goto(l, next)
    PROVE  LoadInv'
<1> USE DEF LoadInv, LockInv, At, Goto, Loading, NoOne
<1>1. lock = l /\ Progress(l) /\ pc[l] = "decode" /\ got[l] \in Editions \ Bad
  BY DEF Unlock, Loaders
<1>2. C = Decoded(got[l])
  <2>1. ASSUME NEW f \in Fields
        PROVE  C[f] = Decoded(got[l])[f]
    BY <1>1 DEF Unlock, Undecoded, Progress, Base, Decoded
  <2>2. QED
    BY <2>1 DEF ReloadTypeOK, Decoded
<1>3. LockedReadersSeeOne'
  BY <1>1, <1>2 DEF LockedReadersSeeOne, Decoded
<1>4. LockInv'
  BY <1>1 DEF Unlock, ReloadTypeOK, Loaders
<1>5. QED
  BY <1>3, <1>4

LEMMA LoadInvStep == LoadInv /\ [Next]_vars => LoadInv'
<1> SUFFICES ASSUME LoadInv, [Next]_vars
             PROVE  LoadInv'
  OBVIOUS
<1>1. ReloadTypeOK'
  BY TypeStep DEF LoadInv
<1> DEFINE Simple == Frame /\ up
<1>2. ASSUME Simple \/ Exit
      PROVE  LoadInv'
  BY <1>1, <1>2, FrameKeeps, ExitKeeps
<1>3. CASE JSONAir \/ UNCHANGED vars
  <2>1. UNCHANGED <<up, C, lock, pc, got>>
    BY <1>3 DEF JSONAir, Edit, Signal, SetLevel, Expire, Process, vars, loading
  <2>2. UNCHANGED <<LockInv, LockedReadersSeeOne>>
    BY <2>1 DEF LockInv, LockedReadersSeeOne, Progress, Decoded, Base
  <2>3. QED
    BY <1>1, <2>2 DEF LoadInv
<1>4. CASE Start
  <2>1. LockInv'
    BY <1>4 DEF Start, Started, LoadInv, LockInv, ReloadTypeOK, Loaders, Loading, NoOne
  <2>2. LockedReadersSeeOne'
    BY <1>4 DEF Start, Started, LoadInv, ReloadTypeOK, LockedReadersSeeOne, Decoded, jsonair
  <2>3. QED
    BY <1>1, <2>1, <2>2 DEF LoadInv
<1>5. ASSUME NEW l \in Loaders, GetConfigJSON(l) \/ Load_Config(l)
      PROVE  LoadInv'
  <2>1. CASE GetConfigJSON(l)
    <3>1. up
      BY <2>1 DEF GetConfigJSON, Fetch, FetchFails, Unauthorized, AuthFails, At
    <3>2. QED
      BY <1>2, <2>1, <3>1, GetFrame
  <2>2. QED
    BY <1>1, <1>5, <2>1, LoadKeeps
<1>6. CASE Compare
  <2>1. Simple
    BY <1>6 DEF Compare, Frame, At, Goto, LoadInv, LockInv, ReloadTypeOK, Loading, Loaders
  <2>2. QED
    BY <1>2, <2>1
<1>7. ASSUME NEW h, FirstHash(h) \/ Hash(h)
      PROVE  LoadInv'
  <2>1. Simple
    BY <1>7 DEF FirstHash, Hash, Frame, At, Goto, LoadInv, LockInv, ReloadTypeOK,
       Loading, Loaders
  <2>2. QED
    BY <1>2, <2>1
<1>8. ASSUME NEW d, FirstLevel(d) \/ Level(d) \/ LevelRefused(d)
      PROVE  LoadInv'
  <2>1. Simple \/ Exit
    BY <1>8 DEF FirstLevel, Level, LevelRefused, Frame, At, Goto, LoadInv, LockInv,
       ReloadTypeOK, Loading, Loaders
  <2>2. QED
    BY <1>2, <2>1
<1>9. CASE FirstLevelFails
  BY <1>2, <1>9 DEF FirstLevelFails
<1>10. CASE PollDone \/ ReloadDone \/ HupDone
  BY <1>1, <1>10, UnlockKeeps DEF PollDone, ReloadDone, HupDone, Loaders
<1>11. CASE Hup
  <2>1. Simple
    BY <1>11 DEF Hup, Frame, At, Goto, LoadInv, LockInv, ReloadTypeOK, Loading, Loaders
  <2>2. QED
    BY <1>2, <2>1
<1>12. QED
  BY <1>3, <1>4, <1>5, <1>6, <1>7, <1>8, <1>9, <1>10, <1>11
     DEF Next, Monitor_Config, Monitor_Reload, SigHandler, Loaders

\* Whatever editions there are and however the loaders interleave, whoever
\* takes ConfigMu reads one accepted edition, whole.
THEOREM LockedReadersSafe == Spec => []LockedReadersSeeOne
<1>1. Init => LoadInv
  BY LoadInvInit
<1>2. LoadInv /\ [Next]_vars => LoadInv'
  BY LoadInvStep
<1>3. LoadInv => LockedReadersSeeOne
  BY DEF LoadInv
<1>4. QED
  BY <1>1, <1>2, <1>3, PTL DEF Spec

-----------------------------------------------------------------------------
(* No reload is missed                                                     *)

Serving == {"lock", "defaults", "decode"}

\* A hash is never ahead of JSONAir's, and what Monitor_Reload fetched while it
\* serves the latest hash is at least as new as that hash.
MissInv ==
    /\ signalled =< edition /\ signal >= 1
    /\ reload_hash =< signal /\ old_reload_hash =< signal
    /\ pc["reload"] \in Serving /\ reload_hash = signal
          => got["reload"] >= signalled
    /\ ~up => old_reload_hash = NoHash
    /\ NoReloadMissed

LEMMA MissInvGet ==
    ASSUME ReloadTypeOK, MissInv, NEW l \in Loaders, GetConfigJSON(l)
    PROVE  MissInv' \/ Exit
<1> USE DEF MissInv, NoReloadMissed, Serving, At, Goto, ReloadTypeOK, jsonair, past,
            hashes, Editions, Loaders
<1>1. CASE Fetch(l)
  BY <1>1 DEF Fetch
<1>2. ASSUME NEW tok, NextTry(l, tok)
      PROVE  MissInv' \/ Exit
  BY <1>2 DEF NextTry
<1>3. QED
  BY <1>1, <1>2 DEF GetConfigJSON, FetchFails, Unauthorized, AuthFails

LEMMA MissInvExit ==
    ASSUME ReloadTypeOK, MissInv, Exit
    PROVE  MissInv'
BY DEF MissInv, NoReloadMissed, Serving, Exit, ReloadTypeOK, jsonair, NoHash, Editions,
       Loaders

LEMMA MissInvLoad ==
    ASSUME ReloadTypeOK, MissInv, NEW l \in Loaders, Load_Config(l)
    PROVE  MissInv'
<1> USE DEF MissInv, NoReloadMissed, Serving, At, Goto, ReloadTypeOK, jsonair, past,
            hashes, loading, Loaders
<1>1. CASE Reset(l)
  BY <1>1 DEF Reset
<1>2. CASE SetDefaults(l)
  BY <1>2 DEF SetDefaults
<1>3. CASE Decode(l)
  BY <1>3 DEF Decode
<1>4. CASE Refuse(l)
  BY <1>4, MissInvExit DEF Refuse
<1>5. QED
  BY <1>1, <1>2, <1>3, <1>4 DEF Load_Config

LEMMA MissInvStep == ReloadTypeOK /\ MissInv /\ [Next]_vars => MissInv'
<1> SUFFICES ASSUME ReloadTypeOK, MissInv, [Next]_vars
             PROVE  MissInv'
  OBVIOUS
<1> USE DEF MissInv, NoReloadMissed, Serving, At, Goto, ReloadTypeOK, jsonair, past,
            hashes, loading, Loaders, Editions, NoHash
<1>1. CASE JSONAir
  BY <1>1 DEF JSONAir, Edit, Signal, SetLevel, Expire, Process
<1>2. CASE Start
  BY <1>2 DEF Start, Started
<1>3. ASSUME NEW l \in Loaders, GetConfigJSON(l) \/ Load_Config(l)
      PROVE  MissInv'
  BY <1>3, MissInvGet, MissInvLoad, MissInvExit
<1>4. CASE Compare \/ Hup \/ PollDone \/ HupDone
  BY <1>4 DEF Compare, Hup, PollDone, HupDone, Unlock
<1>5. ASSUME NEW h \in {signal, NoHash}, FirstHash(h) \/ Hash(h)
      PROVE  MissInv'
  BY <1>5 DEF FirstHash, Hash
<1>6. ASSUME NEW d, FirstLevel(d) \/ Level(d)
      PROVE  MissInv'
  BY <1>6 DEF FirstLevel, Level
<1>7. ASSUME NEW d, LevelRefused(d) \/ FirstLevelFails
      PROVE  MissInv'
  BY <1>7, MissInvExit DEF LevelRefused, FirstLevelFails
<1>8. CASE ReloadDone
  BY <1>8 DEF ReloadDone, Unlock
<1>9. CASE UNCHANGED vars
  BY <1>9 DEF vars
<1>10. QED
  BY <1>1, <1>2, <1>3, <1>4, <1>5, <1>6, <1>7, <1>8, <1>9
     DEF Next, Monitor_Config, Monitor_Reload, SigHandler

\* However many reloads are signalled, edits made and requests lost: a reload
\* that Monitor_Reload holds for done made it load what was signalled.
THEOREM ReloadsServed == Spec => []NoReloadMissed
<1>1. Init => ReloadTypeOK /\ MissInv
  BY LoadInvInit
     DEF LoadInv, Init, MissInv, NoReloadMissed, Serving, NoHash, Loaders
<1>2. ReloadTypeOK /\ MissInv /\ [Next]_vars => (ReloadTypeOK /\ MissInv)'
  BY TypeStep, MissInvStep
<1>3. MissInv => NoReloadMissed
  BY DEF MissInv
<1>4. QED
  BY <1>1, <1>2, <1>3, PTL DEF Spec

\* Every variable keeps its type, and no loader tries more than MaxTries times.
THEOREM ReloadTypeCorrect == Spec => []ReloadTypeOK
<1>1. Init => ReloadTypeOK
  BY LoadInvInit DEF LoadInv
<1>2. QED
  BY <1>1, TypeStep, PTL DEF Spec

-----------------------------------------------------------------------------
(* Nobody waits for ConfigMu for ever, and no race undoes what is settled  *)

\* The steps that the holder of ConfigMu has left to do at most: the defaults, each
\* field of the JSON, and the Unlock or the exit.
LoadLeft == IF pc[lock] = "defaults" THEN Cardinality(Fields) + 2
            ELSE Cardinality(Undecoded(lock)) + 1

\* The holder comes nearer to its Unlock, or the step is not its own.
Nears ==
    \/ C' = C /\ pc'[lock] = pc[lock]
    \/ LoadLeft \in Nat /\ LoadLeft' \in Nat /\ LoadLeft' < LoadLeft

UndecodedFinite ==
    \A l \in Loaders : IsFiniteSet(Undecoded(l)) /\ Cardinality(Undecoded(l)) \in Nat
                       /\ Cardinality(Undecoded(l)) =< Cardinality(Fields)

LEMMA UndecodedType == UndecodedFinite
<1>1. ASSUME NEW l \in Loaders PROVE Undecoded(l) \in SUBSET Fields
  BY DEF Undecoded
<1>2. QED
  BY <1>1, FieldsAssumption, FS_Subset, FS_CardinalityType DEF UndecodedFinite

LEMMA NearsLoad ==
    ASSUME LoadInv, NEW l \in Loaders, lock # NoOne, Load_Config(l)
    PROVE  lock' = NoOne \/ (lock' = lock /\ Nears)
<1>1. CASE Reset(l)
  BY <1>1 DEF Reset
<1>2. CASE SetDefaults(l)
  <2>1. lock = l /\ pc[l] = "defaults" /\ pc'[l] = "decode" /\ lock' = lock
    BY <1>2 DEF SetDefaults, At, Goto, LoadInv, LockInv, Loading, ReloadTypeOK
  <2>2. Cardinality(Fields) \in Nat
    BY FieldsAssumption, FS_CardinalityType
  <2>3. Undecoded(l)' \in SUBSET Fields
    BY DEF Undecoded
  <2>4. Cardinality(Undecoded(l)') \in Nat /\ Cardinality(Undecoded(l)') =< Cardinality(Fields)
    BY <2>3, FieldsAssumption, FS_Subset, FS_CardinalityType
  <2>5. LoadLeft = Cardinality(Fields) + 2 /\ LoadLeft' = Cardinality(Undecoded(l)') + 1
    BY <2>1 DEF LoadLeft, Undecoded
  <2>6. QED
    BY <2>1, <2>2, <2>4, <2>5 DEF Nears
<1>3. CASE Decode(l)
  <2>1. lock = l /\ pc[l] = "decode" /\ UNCHANGED <<lock, pc, got>>
    BY <1>3 DEF Decode, At, LoadInv, LockInv, Loading, loading
  <2>2. PICK f \in Undecoded(l) : C' = [C EXCEPT ![f] = got[l]]
    BY <1>3 DEF Decode
  <2>3. Undecoded(l)' = Undecoded(l) \ {f}
    BY <2>1, <2>2 DEF Undecoded, LoadInv, ReloadTypeOK
  <2>4. IsFiniteSet(Undecoded(l)) /\ Cardinality(Undecoded(l)) \in Nat
    BY UndecodedType DEF UndecodedFinite
  <2>5. Cardinality(Undecoded(l)') \in Nat
        /\ Cardinality(Undecoded(l)') = Cardinality(Undecoded(l)) - 1
    BY <2>3, <2>4, FS_RemoveElement, FS_CardinalityType
  <2>6. LoadLeft = Cardinality(Undecoded(l)) + 1 /\ LoadLeft' = Cardinality(Undecoded(l)') + 1
    BY <2>1 DEF LoadLeft, Undecoded
  <2>7. QED
    BY <2>1, <2>4, <2>5, <2>6 DEF Nears
<1>4. CASE Refuse(l)
  BY <1>4 DEF Refuse, Exit
<1>5. QED
  BY <1>1, <1>2, <1>3, <1>4 DEF Load_Config

\* Every step of whoever holds ConfigMu brings it nearer to letting go of it, and no
\* step of anybody else takes that back: a load is a bounded number of steps.
THEOREM LoadsEnd ==
    Spec => [][lock # NoOne => lock' = NoOne \/ (lock' = lock /\ Nears)]_vars
<1> DEFINE Ends == lock # NoOne => lock' = NoOne \/ (lock' = lock /\ Nears)
<1>1. ASSUME LoadInv, Next
      PROVE  Ends
  <2> SUFFICES ASSUME lock # NoOne PROVE lock' = NoOne \/ (lock' = lock /\ Nears)
    OBVIOUS
  <2>1. lock \in Loaders /\ pc[lock] \in Loading
    BY <1>1 DEF LoadInv, LockInv, ReloadTypeOK
  <2>2. CASE Frame \/ Exit
    BY <2>1, <2>2 DEF Frame, Exit, Nears
  <2>3. CASE JSONAir \/ Start
    BY <1>1, <2>1, <2>3 DEF JSONAir, Edit, Signal, SetLevel, Expire, Process, Start, loading,
                      Nears, LoadInv, LockInv
  <2>4. ASSUME NEW l \in Loaders, GetConfigJSON(l) \/ Load_Config(l)
        PROVE  lock' = NoOne \/ (lock' = lock /\ Nears)
    BY <1>1, <2>2, <2>4, GetFrame, NearsLoad
  <2>5. CASE PollDone \/ ReloadDone \/ HupDone
    BY <2>5 DEF PollDone, ReloadDone, HupDone, Unlock
  <2>6. CASE Compare \/ Hup \/ FirstLevelFails
    <3>1. Frame \/ Exit
      BY <1>1, <2>6 DEF Compare, Hup, FirstLevelFails, Frame, At, Goto, LoadInv, LockInv,
         ReloadTypeOK, Loading, Loaders
    <3>2. QED
      BY <2>2, <3>1
  <2>7. ASSUME NEW x, FirstHash(x) \/ Hash(x) \/ FirstLevel(x) \/ Level(x) \/ LevelRefused(x)
        PROVE  lock' = NoOne \/ (lock' = lock /\ Nears)
    <3>1. Frame \/ Exit
      BY <1>1, <2>7 DEF FirstHash, Hash, FirstLevel, Level, LevelRefused, Frame, At, Goto,
         LoadInv, LockInv, ReloadTypeOK, Loading, Loaders
    <3>2. QED
      BY <2>2, <3>1
  <2>8. QED
    BY <1>1, <2>3, <2>4, <2>5, <2>6, <2>7
       DEF Next, Monitor_Config, Monitor_Reload, SigHandler, Loaders
<1>2. LoadInv /\ [Next]_vars => [Ends]_vars
  BY <1>1
<1> HIDE DEF Ends
<1>3. QED
  BY <1>2, LoadInvInit, LoadInvStep, PTL DEF Spec, Ends

\* Whoever waits for ConfigMu waits for a goroutine inside Load_Config, where nothing
\* makes it wait in turn: it sets the defaults, decodes a field, or is done and unlocks or
\* exits.
THEOREM HolderNeverWaits ==
    Spec => [](lock # NoOne => At(lock, "defaults") \/ At(lock, "decode"))
<1>1. LoadInv => (lock # NoOne => At(lock, "defaults") \/ At(lock, "decode"))
  BY DEF LoadInv, LockInv, Loading, At
<1>2. QED
  BY <1>1, LoadInvInit, LoadInvStep, PTL DEF Spec

\* No loader has an older edition than JSONAir's in hand, and models.C is of that edition.
Settled ==
    /\ \A l \in Loaders : got[l] \in {0, edition}
    /\ up /\ lock = NoOne => C = Decoded(edition)

LEMMA SettledFrame ==
    ASSUME LoadInv, Settled, edition' = edition, Frame,
           got' = got \/ \E l \in Loaders : got' = [got EXCEPT ![l] = edition]
    PROVE  Settled'
BY DEF Settled, Frame, Decoded, LoadInv, ReloadTypeOK

LEMMA SettledExit ==
    ASSUME Settled, edition' = edition, Exit
    PROVE  Settled'
BY DEF Settled, Exit

LEMMA SettledUnlock ==
    ASSUME LoadInv, Settled, NEW l \in Loaders, Unlock(l), UNCHANGED <<up, C, edition>>
    PROVE  Settled'
<1>1. lock = l /\ Progress(l) /\ pc[l] = "decode" /\ got[l] \in Editions
  BY DEF Unlock, At, LoadInv, LockInv, Loading, NoOne, Loaders
<1>2. got[l] = edition
  BY <1>1, EditionsAssumption DEF Settled, Editions
<1>3. ASSUME NEW f \in Fields
      PROVE  C[f] = Decoded(edition)[f]
  BY <1>1, <1>2 DEF Unlock, Undecoded, Progress, Base, Decoded
<1>4. C = Decoded(edition)
  BY <1>3 DEF LoadInv, ReloadTypeOK, Decoded
<1>5. got' = [got EXCEPT ![l] = 0]
  BY DEF Unlock
<1>6. QED
  BY <1>4, <1>5 DEF Settled, LoadInv, ReloadTypeOK, Decoded

\* Once no loader has an older edition in hand and models.C is of the last one, no race
\* of the loaders, failure or restart puts another there: only a new edition does.
THEOREM SettledStays == Spec => [][Settled /\ edition' = edition => Settled']_vars
<1> DEFINE Stays == Settled /\ edition' = edition => Settled'
<1>1. ASSUME LoadInv, Next
      PROVE  Stays
  <2> SUFFICES ASSUME Settled, edition' = edition PROVE Settled'
    OBVIOUS
  <2>1. CASE JSONAir
    BY <2>1 DEF JSONAir, Edit, Signal, SetLevel, Expire, Process, loading, Settled, Decoded
  <2>2. CASE Start
    BY <2>2 DEF Start, Started, Settled, Decoded
  <2>3. ASSUME NEW l \in Loaders, GetConfigJSON(l)
        PROVE  Settled'
    <3>1. got' = got \/ got' = [got EXCEPT ![l] = edition] \/ Exit
      BY <2>3 DEF GetConfigJSON, Fetch, FetchFails, Unauthorized, AuthFails, NextTry
    <3>2. QED
      BY <1>1, <2>3, <3>1, GetFrame, SettledFrame, SettledExit
  <2>4. ASSUME NEW l \in Loaders, Load_Config(l)
        PROVE  Settled'
    <3>1. CASE Refuse(l)
      BY <3>1, SettledExit DEF Refuse
    <3>2. CASE Reset(l) \/ SetDefaults(l) \/ Decode(l)
      <4>1. lock' # NoOne /\ got' = got
        BY <1>1, <3>2 DEF Reset, SetDefaults, Decode, At, LoadInv, LockInv, Loading, loading,
           NoOne, Loaders
      <4>2. QED
        BY <4>1 DEF Settled
    <3>3. QED
      BY <2>4, <3>1, <3>2 DEF Load_Config
  <2>5. CASE PollDone \/ ReloadDone \/ HupDone
    BY <1>1, <2>5, SettledUnlock DEF PollDone, ReloadDone, HupDone, Loaders, jsonair
  <2>6. CASE Compare \/ Hup
    <3>1. Frame /\ got' = got
      BY <1>1, <2>6 DEF Compare, Hup, Frame, At, Goto, LoadInv, LockInv,
         ReloadTypeOK, Loading, Loaders
    <3>2. QED
      BY <1>1, <3>1, SettledFrame
  <2>7. ASSUME NEW x, FirstHash(x) \/ Hash(x) \/ FirstLevel(x) \/ Level(x) \/ LevelRefused(x)
                      \/ FirstLevelFails
        PROVE  Settled'
    <3>1. (Frame /\ got' = got) \/ Exit
      BY <1>1, <2>7 DEF FirstHash, Hash, FirstLevel, Level, LevelRefused, FirstLevelFails,
         Frame, At, Goto, LoadInv, LockInv, ReloadTypeOK, Loading, Loaders
    <3>2. QED
      BY <1>1, <3>1, SettledFrame, SettledExit
  <2>8. QED
    BY <1>1, <2>1, <2>2, <2>3, <2>4, <2>5, <2>6, <2>7
       DEF Next, Monitor_Config, Monitor_Reload, SigHandler, Loaders
<1>2. LoadInv /\ [Next]_vars => [Stays]_vars
  BY <1>1
<1> HIDE DEF Stays
<1>3. QED
  BY <1>2, LoadInvInit, LoadInvStep, PTL DEF Spec, Stays

-----------------------------------------------------------------------------
(* The queue while the configuration is replaced under it                  *)

\* The queue's steps are stutters of the configuration's.
LEMMA ServingSteps == (ServingInit => Init) /\ ([ServingNext]_serving => [Next]_vars)
  BY DEF ServingInit, ServingNext, serving, WriteQueue, Monitor_Queue

LEMMA ServingLoads == ServingSpec => [](ReloadTypeOK /\ LoadInv /\ MissInv)
<1>1. Init => ReloadTypeOK /\ LoadInv /\ MissInv
  BY LoadInvInit DEF LoadInv, Init, MissInv, NoReloadMissed, Serving, NoHash, Loaders
<1>2. ReloadTypeOK /\ LoadInv /\ MissInv /\ [Next]_vars
          => (ReloadTypeOK /\ LoadInv /\ MissInv)'
  BY TypeStep, LoadInvStep, MissInvStep
<1>3. QED
  BY <1>1, <1>2, ServingSteps, PTL DEF ServingSpec

\* What a goroutine without the lock reads of queue_directory: nothing, or an edition's,
\* and an accepted edition's while no load is under way.
LEMMA QueueDirectoryRead ==
    ASSUME LoadInv, up
    PROVE  /\ C["queue_directory"] \in {Zero} \cup Editions
           /\ lock = NoOne => C["queue_directory"] \in Editions \ Bad
<1> DEFINE d == "queue_directory"
<1>1. d \in Fields \ Defaulted /\ \A e \in Editions : d \notin LeftOut[e]
  BY DirectoryAssumption
<1> HIDE DEF d
<1>2. CASE lock = NoOne
  <2>1. PICK e \in Editions \ Bad : C = Decoded(e)
    BY <1>2 DEF LoadInv, LockedReadersSeeOne
  <2>2. C[d] = e
    BY <1>1, <2>1 DEF Decoded
  <2>3. QED
    BY <2>1, <2>2 DEF d
<1>3. CASE lock # NoOne
  <2>1. pc[lock] \in Loading /\ Progress(lock) /\ got[lock] \in Editions
    BY <1>3 DEF LoadInv, LockInv, ReloadTypeOK
  <2>2. CASE pc[lock] = "defaults"
    BY <1>1, <1>3, <2>1, <2>2 DEF Progress, d
  <2>3. CASE pc[lock] = "decode"
    <3>1. C[d] = Base(d) \/ C[d] = got[lock]
      BY <1>1, <2>1, <2>3 DEF Progress
    <3>2. Base(d) = Zero
      BY <1>1 DEF Base
    <3>3. QED
      BY <1>3, <2>1, <3>1, <3>2 DEF d
  <2>4. QED
    BY <2>1, <2>2, <2>3 DEF Loading
<1>4. QED
  BY <1>2, <1>3

\* A submission is filed in some edition's directory or in that for temporary files,
\* and those of the latter are never listed.
StrandInv ==
    /\ place \in [Submissions -> {Nowhere, TempDir} \cup {Directory[e] : e \in Editions}]
    /\ \A s \in taken : s \in Submissions /\ place[s] \notin {Nowhere, TempDir}

LEMMA StrandStep == LoadInv /\ StrandInv /\ [ServingNext]_serving => StrandInv'
<1> SUFFICES ASSUME LoadInv, StrandInv, [ServingNext]_serving PROVE StrandInv'
  OBVIOUS
<1>1. ASSUME NEW v \in {Zero} \cup Editions
      PROVE  /\ FilesIn(v) \in {TempDir} \cup {Directory[e] : e \in Editions}
             /\ LooksIn(v) \notin {Nowhere, TempDir}
  BY DirectoryAssumption DEF FilesIn, LooksIn, Nowhere, Root
<1>2. ASSUME NEW s \in Submissions, WriteQueue(s)
      PROVE  StrandInv'
  <2>1. C["queue_directory"] \in {Zero} \cup Editions
    BY <1>2, QueueDirectoryRead DEF WriteQueue
  <2> DEFINE d == FilesIn(C["queue_directory"])
  <2>2. d \in {TempDir} \cup {Directory[e] : e \in Editions}
    BY <1>1, <2>1
  <2>3. place' = [place EXCEPT ![s] = d] /\ taken' = taken /\ place[s] = Nowhere
    BY <1>2 DEF WriteQueue
  <2> HIDE DEF d
  <2>4. QED
    BY <2>2, <2>3 DEF StrandInv
<1>3. CASE Monitor_Queue
  <2>1. C["queue_directory"] \in {Zero} \cup Editions
    BY <1>3, QueueDirectoryRead DEF Monitor_Queue
  <2>2. LooksIn(C["queue_directory"]) \notin {Nowhere, TempDir}
    BY <1>1, <2>1
  <2>3. QED
    BY <1>3, <2>2 DEF Monitor_Queue, StrandInv
<1>4. CASE UNCHANGED files
  BY <1>4 DEF files, StrandInv
<1>5. QED
  BY <1>2, <1>3, <1>4 DEF ServingNext, serving

\* The queue at work takes nothing from what is proved of the loaders: whoever takes
\* ConfigMu reads one accepted edition, and no reload is missed.
THEOREM ServingKeepsBoth == ServingSpec => [](LockedReadersSeeOne /\ NoReloadMissed)
<1>1. LoadInv /\ MissInv => LockedReadersSeeOne /\ NoReloadMissed
  BY DEF LoadInv, MissInv
<1>2. QED
  BY <1>1, ServingLoads, PTL

\* WriteQueue reads models.C without the lock; that files a submission elsewhere than in
\* the directory of an accepted edition only if a load is under way at that moment.
THEOREM FiledWhereConfigured ==
    ServingSpec =>
        [][\A s \in Submissions : place'[s] # place[s] /\ lock = NoOne
               => \E e \in Editions \ Bad : place'[s] = Directory[e]]_serving
<1> DEFINE Filed == \A s \in Submissions : place'[s] # place[s] /\ lock = NoOne
                        => \E e \in Editions \ Bad : place'[s] = Directory[e]
<1>1. ASSUME LoadInv, ServingNext
      PROVE  Filed
  <2> SUFFICES ASSUME NEW s \in Submissions, place'[s] # place[s], lock = NoOne
               PROVE  \E e \in Editions \ Bad : place'[s] = Directory[e]
    OBVIOUS
  <2>1. PICK r \in Submissions : WriteQueue(r)
    BY <1>1 DEF ServingNext, Monitor_Queue, files
  <2>2. place'[s] = FilesIn(C["queue_directory"])
    BY <2>1 DEF WriteQueue
  <2>3. C["queue_directory"] \in Editions \ Bad
    BY <1>1, <2>1, QueueDirectoryRead DEF WriteQueue
  <2>4. C["queue_directory"] # Zero
    BY <2>3, EditionsAssumption DEF Editions, Zero
  <2>5. QED
    BY <2>2, <2>3, <2>4 DEF FilesIn
<1>2. LoadInv /\ [ServingNext]_serving => [Filed]_serving
  BY <1>1
<1> HIDE DEF Filed
<1>3. QED
  BY <1>2, ServingLoads, PTL DEF ServingSpec, Filed

\* A submission that a load caused to be filed among the temporary files is lost to the
\* server: whatever editions follow, Monitor_Queue never lists it.
THEOREM StrandedForEver ==
    ServingSpec => [](\A s \in Submissions : place[s] = TempDir => s \notin taken)
<1>1. ServingInit => StrandInv
  BY DEF ServingInit, StrandInv
<1>2. StrandInv => \A s \in Submissions : place[s] = TempDir => s \notin taken
  BY DEF StrandInv
<1>3. QED
  BY <1>1, <1>2, StrandStep, ServingLoads, PTL DEF ServingSpec
=============================================================================
