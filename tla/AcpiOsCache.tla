---------------------------- MODULE AcpiOsCache ----------------------------
(***************************************************************************)
(* The object cache of the Darwin OS layer (osdarwin.c, "Cache management  *)
(* functions"): a LIFO list of free objects under one spin lock, a bound   *)
(* on its depth, and the kernel heap behind it.                            *)
(*                                                                         *)
(* A section under the cache's lock is one step; what the code does after  *)
(* it unlocks (clearing, IOMalloc, IOFree) is a step of its own. The       *)
(* request and hit counters are left out. AcpiOsDeleteCache runs in        *)
(* AcpiTerminate, on the boot thread, with no other thread inside a cache  *)
(* operation; objects may still be out.                                    *)
(***************************************************************************)
EXTENDS Naturals, Sequences

CONSTANTS Threads,   (* the threads that use the cache                       *)
          NoThread,  (* stands for "no thread"                               *)
          Objects,   (* the object-sized pieces of memory there are          *)
          NoObject,  (* stands for a NULL object                             *)
          MaxDepth   (* max_depth                                            *)

ASSUME CacheAssumption == /\ NoThread \notin Threads
                          /\ NoObject \notin Objects
                          /\ MaxDepth \in Nat

VARIABLES live,      (* the cache exists: its magic is ACPI_CACHE_MAGIC      *)
          list,      (* list_head and its successors, the head last          *)
          depth,     (* current_depth                                        *)
          heap,      (* memory owned by the kernel allocator                 *)
          misfreed,  (* memory given back with the wrong size                *)
          held,      (* the objects each thread has acquired                 *)
          dirty,     (* memory that is not all zero                          *)
          pc,        (* what each thread does outside the lock               *)
          obj        (* the object it does it to                             *)

vars == <<live, list, depth, heap, misfreed, held, dirty, pc, obj>>

Listed == {list[i] : i \in DOMAIN list}

\* IOMalloc returns memory with any content.
Init == /\ live = FALSE
        /\ list = <<>>
        /\ depth = 0
        /\ heap = Objects
        /\ misfreed = {}
        /\ held = [t \in Threads |-> {}]
        /\ dirty = Objects
        /\ pc = [t \in Threads |-> "idle"]
        /\ obj = [t \in Threads |-> NoObject]

AllIdle == \A t \in Threads : pc[t] = "idle"

-----------------------------------------------------------------------------
AcpiOsCreateCache ==
    /\ ~live
    /\ AllIdle
    /\ live' = TRUE
    /\ list' = <<>>
    /\ depth' = 0
    /\ UNCHANGED <<heap, misfreed, held, dirty, pc, obj>>

\* Every cached object, the lock and the cache itself are freed.
AcpiOsDeleteCache ==
    /\ live
    /\ AllIdle
    /\ live' = FALSE
    /\ heap' = heap \cup Listed
    /\ list' = <<>>
    /\ depth' = 0
    /\ UNCHANGED <<misfreed, held, dirty, pc, obj>>

\* Mutant: the list is emptied and current_depth is not reset.
PurgeKeepsDepth ==
    /\ live
    /\ heap' = heap \cup Listed
    /\ list' = <<>>
    /\ UNCHANGED <<live, depth, misfreed, held, dirty, pc, obj>>

\* The objects are freed, and the list emptied, under the lock.
AcpiOsPurgeCache ==
    /\ live
    /\ heap' = heap \cup Listed
    /\ list' = <<>>
    /\ depth' = 0
    /\ UNCHANGED <<live, misfreed, held, dirty, pc, obj>>

\* AcpiOsAcquireObject, under the lock: the head of the list, if there is one.
AcquireFromList(t) ==
    /\ live
    /\ pc[t] = "idle"
    /\ list # <<>>
    /\ obj' = [obj EXCEPT ![t] = list[Len(list)]]
    /\ list' = SubSeq(list, 1, Len(list) - 1)
    /\ depth' = depth - 1
    /\ pc' = [pc EXCEPT ![t] = "clear"]
    /\ UNCHANGED <<live, heap, misfreed, held, dirty>>

AcquireMiss(t) ==
    /\ live
    /\ pc[t] = "idle"
    /\ list = <<>>
    /\ pc' = [pc EXCEPT ![t] = "alloc"]
    /\ UNCHANGED <<live, list, depth, heap, misfreed, held, dirty, obj>>

\* Mutant: only memory that comes from the allocator is cleared.
ClearObjectForgets(t) ==
    /\ pc[t] = "clear"
    /\ held' = [held EXCEPT ![t] = @ \cup {obj[t]}]
    /\ pc' = [pc EXCEPT ![t] = "idle"]
    /\ obj' = [obj EXCEPT ![t] = NoObject]
    /\ UNCHANGED <<live, list, depth, heap, misfreed, dirty>>

\* After the lock: memset, and the object is the caller's.
ClearObject(t) ==
    /\ pc[t] = "clear"
    /\ dirty' = dirty \ {obj[t]}
    /\ held' = [held EXCEPT ![t] = @ \cup {obj[t]}]
    /\ pc' = [pc EXCEPT ![t] = "idle"]
    /\ obj' = [obj EXCEPT ![t] = NoObject]
    /\ UNCHANGED <<live, list, depth, heap, misfreed>>

\* After the lock: a new object, cleared.
AllocateObject(t, o) ==
    /\ pc[t] = "alloc"
    /\ o \in heap
    /\ heap' = heap \ {o}
    /\ dirty' = dirty \ {o}
    /\ held' = [held EXCEPT ![t] = @ \cup {o}]
    /\ pc' = [pc EXCEPT ![t] = "idle"]
    /\ UNCHANGED <<live, list, depth, misfreed, obj>>

\* IOMalloc fails and the caller gets NULL.
AllocateFails(t) ==
    /\ pc[t] = "alloc"
    /\ pc' = [pc EXCEPT ![t] = "idle"]
    /\ UNCHANGED <<live, list, depth, heap, misfreed, held, dirty, obj>>

\* The owner writes to its object.
WriteObject(t, o) ==
    /\ pc[t] = "idle"
    /\ o \in held[t]
    /\ dirty' = dirty \cup {o}
    /\ UNCHANGED <<live, list, depth, heap, misfreed, held, pc, obj>>

\* Mutant: the cache takes one object more than max_depth.
ReleaseToListOver(t, o) ==
    /\ live
    /\ pc[t] = "idle"
    /\ o \in held[t]
    /\ depth <= MaxDepth
    /\ held' = [held EXCEPT ![t] = @ \ {o}]
    /\ list' = Append(list, o)
    /\ depth' = depth + 1
    /\ UNCHANGED <<live, heap, misfreed, dirty, pc, obj>>

\* AcpiOsReleaseObject, under the lock: the object becomes the head of the list.
ReleaseToList(t, o) ==
    /\ live
    /\ pc[t] = "idle"
    /\ o \in held[t]
    /\ depth < MaxDepth
    /\ held' = [held EXCEPT ![t] = @ \ {o}]
    /\ list' = Append(list, o)
    /\ depth' = depth + 1
    /\ UNCHANGED <<live, heap, misfreed, dirty, pc, obj>>

\* Mutant: a full cache keeps the object on its list and frees it as well.
ReleaseFullKeeps(t, o) ==
    /\ live
    /\ pc[t] = "idle"
    /\ o \in held[t]
    /\ depth >= MaxDepth
    /\ held' = [held EXCEPT ![t] = @ \ {o}]
    /\ pc' = [pc EXCEPT ![t] = "free"]
    /\ obj' = [obj EXCEPT ![t] = o]
    /\ list' = Append(list, o)
    /\ UNCHANGED <<live, depth, heap, misfreed, dirty>>

\* AcpiOsReleaseObject of a full cache: the object is freed after the lock.
ReleaseFull(t, o) ==
    /\ live
    /\ pc[t] = "idle"
    /\ o \in held[t]
    /\ depth >= MaxDepth
    /\ held' = [held EXCEPT ![t] = @ \ {o}]
    /\ pc' = [pc EXCEPT ![t] = "free"]
    /\ obj' = [obj EXCEPT ![t] = o]
    /\ UNCHANGED <<live, list, depth, heap, misfreed, dirty>>

FreeObject(t) ==
    /\ pc[t] = "free"
    /\ heap' = heap \cup {obj[t]}
    /\ pc' = [pc EXCEPT ![t] = "idle"]
    /\ obj' = [obj EXCEPT ![t] = NoObject]
    /\ UNCHANGED <<live, list, depth, misfreed, held, dirty>>

\* The cache is gone (its pointer is NULL): the object is freed with the size of
\* the header alone.
ReleaseInvalid(t, o) ==
    /\ ~live
    /\ pc[t] = "idle"
    /\ o \in held[t]
    /\ held' = [held EXCEPT ![t] = @ \ {o}]
    /\ misfreed' = misfreed \cup {o}
    /\ UNCHANGED <<live, list, depth, heap, dirty, pc, obj>>

-----------------------------------------------------------------------------
AcpiOsAcquireObject(t) == \/ AcquireFromList(t) \/ AcquireMiss(t)
                          \/ ClearObject(t) \/ AllocateFails(t)
                          \/ \E o \in Objects : AllocateObject(t, o)

AcpiOsReleaseObject(t) == \/ FreeObject(t)
                          \/ \E o \in Objects : \/ ReleaseToList(t, o)
                                                \/ ReleaseFull(t, o)
                                                \/ ReleaseInvalid(t, o)

Next == \/ AcpiOsCreateCache \/ AcpiOsDeleteCache \/ AcpiOsPurgeCache
        \/ \E t \in Threads : \/ AcpiOsAcquireObject(t) \/ AcpiOsReleaseObject(t)
                              \/ \E o \in Objects : WriteObject(t, o)

Spec == Init /\ [][Next]_vars

-----------------------------------------------------------------------------
(* Properties                                                              *)

\* The variables keep their types.
TypeOK == /\ live \in BOOLEAN
          /\ list \in Seq(Objects)
          /\ depth \in 0..MaxDepth
          /\ heap \in SUBSET Objects
          /\ misfreed \in SUBSET Objects
          /\ held \in [Threads -> SUBSET Objects]
          /\ dirty \in SUBSET Objects
          /\ pc \in [Threads -> {"idle", "clear", "alloc", "free"}]
          /\ obj \in [Threads -> Objects \cup {NoObject}]

Moving == {obj[t] : t \in Threads} \ {NoObject}

\* Every piece of memory is in exactly one place at any time: the allocator, the
\* list (once), one thread's hands, or on its way between them. Nothing leaks,
\* nothing is freed twice and no list or thread refers to freed memory.
OnePlace ==
    /\ Objects = heap \cup misfreed \cup Listed \cup Moving
                   \cup UNION {held[t] : t \in Threads}
    /\ \A i, j \in DOMAIN list : list[i] = list[j] => i = j
    /\ \A t, u \in Threads : t # u => held[t] \cap held[u] = {}
    /\ \A t, u \in Threads : obj[t] = obj[u] => t = u \/ obj[t] = NoObject
    /\ \A t \in Threads : held[t] \cap (heap \cup misfreed \cup Listed \cup Moving) = {}
    /\ (heap \cup misfreed) \cap (Listed \cup Moving) = {}
    /\ heap \cap misfreed = {}
    /\ Listed \cap Moving = {}

\* What AcpiOsValidateCache checks: current_depth is the length of the list, which
\* is never longer than max_depth, and a deleted cache holds nothing.
DepthExact == /\ depth = Len(list)
              /\ depth <= MaxDepth
              /\ ~live => list = <<>>

\* The cache is an implementation of ObjectPool: the owner of an object is the
\* thread that holds it, whatever happens on the lists behind it.
Owner == [o \in Objects |->
            IF \E t \in Threads : o \in held[t]
            THEN CHOOSE t \in Threads : o \in held[t]
            ELSE NoThread]

Used == {o \in dirty : Owner[o] # NoThread}

Pool == INSTANCE ObjectPool WITH owner <- Owner, used <- Used

\* An acquired object belongs to its caller alone and is all zero (the memset of
\* AcpiOsAcquireObject is after the unlock).
ImplementsPool == Pool!Spec
=============================================================================
