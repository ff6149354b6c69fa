----------------------------- MODULE ObjectPool -----------------------------
(***************************************************************************)
(* What ACPICA asks of its object caches (AcpiOsAcquireObject and          *)
(* AcpiOsReleaseObject): an object that is handed out belongs to the       *)
(* caller alone and is all zero; it goes back when its owner releases it.  *)
(***************************************************************************)
CONSTANTS Threads,   (* the threads that acquire and release objects         *)
          NoThread,  (* stands for "no owner"                                *)
          Objects    (* the objects there is memory for                      *)

VARIABLES owner,     (* who holds each object                                *)
          used       (* the held objects that are no longer all zero         *)

poolVars == <<owner, used>>

Init == /\ owner = [o \in Objects |-> NoThread]
        /\ used = {}

Acquire(t, o) == /\ owner[o] = NoThread
                 /\ owner' = [owner EXCEPT ![o] = t]
                 /\ UNCHANGED used

Write(t, o) == /\ owner[o] = t
               /\ used' = used \cup {o}
               /\ UNCHANGED owner

Release(t, o) == /\ owner[o] = t
                 /\ owner' = [owner EXCEPT ![o] = NoThread]
                 /\ used' = used \ {o}

Next == \E t \in Threads, o \in Objects : Acquire(t, o) \/ Write(t, o) \/ Release(t, o)

Spec == Init /\ [][Next]_poolVars
=============================================================================
