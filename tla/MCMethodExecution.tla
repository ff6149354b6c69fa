-------------------------- MODULE MCMethodExecution --------------------------
(* Two threads, two mutexes, one method that is serialized and one that is   *)
(* not, called from each other. The mutexes have one level, so that they can *)
(* be released in any order; it is below that of the serialized method, which*)
(* they are refused in, and above that of the plain one, which becomes       *)
(* serialized, and then acquires them, or returns with them, at level 0.     *)
EXTENDS MethodExecution, TLC

CONSTANTS t1, t2, x1, x2, ser, plain

TwoThreads == {t1, t2}
TwoMutexes == {x1, x2}
TwoMethods == {ser, plain}
OneMethod  == {ser}

Levels == (x1 :> 2) @@ (x2 :> 2) @@ (ser :> 3) @@ (plain :> 0)

\* What OriginalSyncLevel a lock without an owner has is never read again, nor what
\* length the list had when an entry took no mutex.
View == <<interpreter, pc, wants, status, level, acquired, units, owner, depth, methodVars,
          history,
          [l \in Locks |-> IF owner[l] = Nobody THEN 0 ELSE original[l]],
          [t \in Threads |-> [i \in DOMAIN frames[t] |->
              [frames[t][i] EXCEPT !.held = IF frames[t][i].took THEN @ ELSE 0]]]>>

\* After an entry has failed half way, only its consequences are followed: no mutex is
\* acquired twice and no object created any more.
FollowFailure == damaged # {} => /\ \A x \in Mutexes : depth[x] <= 1
                                 /\ \A m \in Methods : ~object[m]

\* Threads are alike, and so are mutexes of one level; no liveness is checked.
Symmetry == Permutations(TwoThreads) \cup Permutations(TwoMutexes)
=============================================================================
