----------------------------- MODULE MCAmlMutex -----------------------------
(* Three threads and a mutex acquired twice: a signal finds a thread that    *)
(* waits forever behind one whose wait ends, and both a deadline zero that   *)
(* has passed and one that never comes.                                      *)
EXTENDS AmlMutex

CONSTANTS t1, t2, t3, m1

TwoThreads   == {t1, t2}
ThreeThreads == {t1, t2, t3}
OneMutex     == {m1}

NoDeadline == {"none"}
=============================================================================
