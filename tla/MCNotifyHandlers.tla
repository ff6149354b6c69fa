-------------------------- MODULE MCNotifyHandlers --------------------------
(* Two threads that notify, install and remove: two handlers and two         *)
(* objects, each in one list or in both.                                     *)
EXTENDS NotifyHandlers, TLC

CONSTANTS t1, t2, h1, h2, o1, o2

TwoThreads   == {t1, t2}
TwoHandlers  == {h1, h2}
TwoObjects   == {o1, o2}

\* Threads are alike, handlers and objects too; no run checks liveness.
Symmetry == Permutations(TwoThreads) \cup Permutations(TwoHandlers)
            \cup Permutations(TwoObjects)
=============================================================================
