------------------------------ MODULE Registry ------------------------------
(***************************************************************************)
(* The registry file of the clients that make passes over all there is:    *)
(* read at the start of a pass, written out anew after each entry.  A file *)
(* that is missing, empty or cut short loads as no entries.                *)
(***************************************************************************)
EXTENDS ClientSession

\* Mutant of LoadRegistry: a pass starts without the entries of the last.
LoadRegistry_Empty(c) == registry' = [registry EXCEPT ![c] = {}]

LoadRegistry(c) == registry' = [registry EXCEPT ![c] = disk[c]]

\* A pass starts with a new token over everything there is; a configuration
\* service or a token service that fails ends the process.
Begins(c) ==
    /\ pc[c] = "rest"
    /\ \/ /\ Goto(c, "next")
          /\ \/ token' = [token EXCEPT ![c] = TRUE] /\ NoFault
             \/ UNCHANGED token /\ Fault
          /\ LoadRegistry(c)
          /\ todo' = [todo EXCEPT ![c] = Items[c]]
          /\ UNCHANGED cur
       \/ Fault /\ UNCHANGED <<pc, cur, todo, token, registry>>
    /\ UNCHANGED <<disk, network, expiries, store>>

\* The pass is over: its registry and its token go.
Finishes(c) ==
    /\ pc[c] = "next" /\ todo[c] = {}
    /\ Ends(c) /\ NoFault
    /\ UNCHANGED <<network, expiries, store>>

\* registry[key] = true, and os.Create cuts the file to nothing or fails.
Enter(c, key) ==
    /\ registry' = [registry EXCEPT ![c] = @ \cup {key}]
    /\ PutDown(c)
    /\ \/ Goto(c, "encode") /\ disk' = [disk EXCEPT ![c] = {}] /\ NoFault
       \/ Goto(c, "next") /\ UNCHANGED disk /\ Fault
    /\ UNCHANGED <<todo, token, network, expiries, store>>

\* Mutant of Encode: the file is closed before anything is written.
Encode_Nothing(c) ==
    /\ pc[c] = "encode" /\ Goto(c, "next")
    /\ UNCHANGED disk /\ NoFault
    /\ UNCHANGED <<cur, todo, token, registry, network, expiries, store>>

\* The encoder writes the whole registry, or fails and leaves part of it.
Encode(c) ==
    /\ pc[c] = "encode" /\ Goto(c, "next")
    /\ \/ disk' = [disk EXCEPT ![c] = registry[c]] /\ NoFault
       \/ UNCHANGED disk /\ Fault
    /\ UNCHANGED <<cur, todo, token, registry, network, expiries, store>>

\* A scan that failed leaves no entry: the next pass tries again.
GivesUp(c) ==
    /\ pc[c] = "failed" /\ Goto(c, "next") /\ PutDown(c) /\ NoFault
    /\ UNCHANGED <<todo, token, books, network, expiries, store>>
=============================================================================
