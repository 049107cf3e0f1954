------------------------- MODULE ReloadWhileServing -------------------------
(***************************************************************************)
(* The submission queue while the configuration is replaced under it.      *)
(* WriteQueue and Monitor_Queue each read models.C.Core.Queue_Directory    *)
(* without ConfigMu, WriteQueue to create a file and Monitor_Queue to list *)
(* files.  What else they do is SubmissionQueue's; here a submission is    *)
(* filed in one step and a listing takes all it finds.                     *)
(***************************************************************************)
EXTENDS ConfigReload

CONSTANTS
    Submissions,
    Directory,    \* Directory[e]: queue_directory in edition e
    TempDir       \* os.TempDir()

Nowhere == "nowhere"
Root == "/"

\* The queue is not in the directory for temporary files, which is not the root.
ASSUME DirectoryAssumption ==
    /\ "queue_directory" \in Fields \ Defaulted
    /\ \A e \in Editions : "queue_directory" \notin LeftOut[e]
    /\ \A e \in Editions : Directory[e] \notin {TempDir, Nowhere}
    /\ TempDir \notin {Root, Nowhere}

VARIABLES
    place,    \* the directory a submission was filed in
    taken     \* submissions Monitor_Queue has listed

files == <<place, taken>>
serving == <<vars, files>>

\* os.CreateTemp: an empty directory is the directory for temporary files.
FilesIn(v) == IF v = Zero THEN TempDir ELSE Directory[v]

\* The pattern Queue_Directory + "/*.data".
LooksIn(v) == IF v = Zero THEN Root ELSE Directory[v]

ServingInit == Init /\ place = [s \in Submissions |-> Nowhere] /\ taken = {}

WriteQueue(s) ==
    /\ up /\ place[s] = Nowhere
    /\ place' = [place EXCEPT ![s] = FilesIn(C["queue_directory"])]
    /\ UNCHANGED <<vars, taken>>

\* Mutant of Monitor_Queue: it reads the directory once, before its loop.
Monitor_Queue_Once ==
    /\ up
    /\ taken' = taken \cup {s \in Submissions : place[s] = Directory[1]}
    /\ UNCHANGED <<vars, place>>

Monitor_Queue ==
    /\ up
    /\ taken' = taken \cup
           {s \in Submissions : place[s] = LooksIn(C["queue_directory"])}
    /\ UNCHANGED <<vars, place>>

ServingNext ==
    \/ \E s \in Submissions : WriteQueue(s)
    \/ Monitor_Queue
    \/ Next /\ UNCHANGED files

ServingSpec == ServingInit /\ [][ServingNext]_serving

\* Monitor_Queue lists the directory every second, a load takes far less: it is
\* fair while no load is under way, too.
ServingFairSpec ==
    /\ ServingSpec
    /\ WF_serving(Start /\ UNCHANGED files)
    /\ WF_serving(Monitor_Config /\ UNCHANGED files)
    /\ WF_serving(Monitor_Reload /\ UNCHANGED files)
    /\ WF_serving(SigHandler /\ UNCHANGED files)
    /\ SF_serving(lock = NoOne /\ Monitor_Queue)

-----------------------------------------------------------------------------
\* A submission filed in the directory that the configuration ends up with is
\* taken, in whatever edition it was filed and however the loaders race.
TakenWhereConfigured ==
    \A s \in Submissions :
        <>[](place[s] = Directory[edition]) /\ <>[](edition \notin Bad)
            => <>(s \in taken)

\* docs: what Submit queues, "a worker goroutine dequeues".
EverySubmissionTaken ==
    \A s \in Submissions : place[s] # Nowhere ~> s \in taken
=============================================================================
