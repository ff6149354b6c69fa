--------------------------- MODULE MethodExecution ---------------------------
(***************************************************************************)
(* Control methods and sync levels. A thread in the interpreter runs a     *)
(* stack of methods; a serialized method has a mutex and a sync level of   *)
(* its own, AML mutexes have a level each, and a thread may only acquire   *)
(* upwards from its current level. Mutexes outlive the method that         *)
(* acquires them: the list of a thread is released when its outermost      *)
(* method ends. A method counts the threads inside it; the last one to     *)
(* leave deletes the objects the method created, outside the interpreter.  *)
(*                                                                         *)
(* A semaphore is its units; in what order its waiters are served is in    *)
(* AmlMutex. A thread has one evaluation at a time, and the named object   *)
(* that a method creates stands for all of them. Left out: the evaluation  *)
(* of a serialized method without memory for its thread state, whose       *)
(* termination follows a null pointer, and the return for want of a value  *)
(* in slack mode (AcpiGbl_EnableInterpreterSlack, which nobody sets), that *)
(* leaves the callers as they are.                                         *)
(***************************************************************************)
EXTENDS SequencesExt, Integers

CONSTANTS Threads,
          Mutexes,      (* AML mutexes                                       *)
          Methods,      (* control methods                                   *)
          Serialized,   (* the methods declared Serialized                   *)
          SyncLevel,    (* of the mutexes and methods, 0 if not serialized   *)
          Nobody,
          MethodLimit,  (* threads in a method: ACPI_UINT8_MAX               *)
          MaxNesting,   (* bound on the methods a thread is in               *)
          MaxDepth,     (* bound on the nested acquisitions of a mutex       *)
          MaxFailures   (* bound on the entries that fail half way           *)

ASSUME MethodAssumption ==
    /\ IsFiniteSet(Threads)
    /\ Nobody \notin Threads \cup Mutexes \cup Methods
    /\ Mutexes \cap Methods = {}
    /\ Serialized \subseteq Methods
    /\ SyncLevel \in [Mutexes \cup Methods -> 0..15]
    /\ \A m \in Methods \ Serialized : SyncLevel[m] = 0
    /\ {MethodLimit, MaxNesting, MaxDepth} \subseteq Nat \ {0}
    /\ MaxFailures \in Nat

Locks == Mutexes \cup Methods

VARIABLES interpreter,  (* the thread in the interpreter                     *)
          pc,           (* by thread, what it is doing                       *)
          wants,        (* by thread, the lock it waits for                  *)
          status,       (* by thread, of its walk: what aborts its methods    *)
          frames,       (* by thread, the methods it is in, the last on top  *)
          level,        (* by thread, CurrentSyncLevel                       *)
          acquired,     (* by thread, AcquiredMutexList, the head first      *)
          units,        (* by lock, the units of its semaphore               *)
          owner,        (* by lock, ThreadId                                 *)
          depth,        (* by lock, AcquisitionDepth                         *)
          original,     (* by lock, OriginalSyncLevel                        *)
          kind,         (* by method, InfoFlags: is it serialized            *)
          count,        (* by method, ThreadCount                            *)
          object,       (* by method, whether its named object exists        *)
          skewed,       (* history: threads that released or kept a mutex    *)
                        (* across the bounds of a serialized method          *)
          damaged       (* history: methods whose entry failed half way      *)

threadVars == <<pc, wants, status, frames>>
lockVars   == <<units, owner, depth, original>>
methodVars == <<kind, count, object>>
history    == <<skewed, damaged>>
vars == <<interpreter, threadVars, level, acquired, lockVars, methodVars, history>>

Pc == {"outside", "inside", "asleep",
       "wait",       (* out of the interpreter, in a semaphore's queue       *)
       "woken",      (* it has the unit, not yet the interpreter             *)
       "report",     (* out of the interpreter: "Aborting method"            *)
       "delete",     (* out of the interpreter, to delete the objects        *)
       "deleted"}

Status == {"ok", "error", "exists"}   (* AE_OK, AE_ALREADY_EXISTS, or another *)

Frame == [method : Methods,
          took   : BOOLEAN,   (* it took the method's mutex                  *)
          held   : Nat,       (* the length of the mutex list on entry       *)
          made   : BOOLEAN]   (* it created the named object                 *)

Init == /\ interpreter = Nobody
        /\ pc = [t \in Threads |-> "outside"]
        /\ wants = [t \in Threads |-> Nobody]
        /\ status = [t \in Threads |-> "ok"]
        /\ frames = [t \in Threads |-> <<>>]
        /\ level = [t \in Threads |-> 0]
        /\ acquired = [t \in Threads |-> <<>>]
        /\ units = [l \in Locks |-> 1]
        /\ owner = [l \in Locks |-> Nobody]
        /\ depth = [l \in Locks |-> 0]
        /\ original = [l \in Locks |-> 0]
        /\ kind = [m \in Methods |-> IF m \in Serialized THEN "serialized" ELSE "plain"]
        /\ count = [m \in Methods |-> 0]
        /\ object = [m \in Methods |-> FALSE]
        /\ skewed = {}
        /\ damaged = {}

Inside(t)      == pc[t] = "inside" /\ interpreter = t
Top(t)         == frames[t][Len(frames[t])]
Nested(t)      == frames[t] # <<>>
HasMutex(m)    == kind[m] \in {"serialized", "ignored"}
Come(t)        == interpreter = Nobody /\ interpreter' = t
Stay(t)        == interpreter = t /\ UNCHANGED interpreter
Leave(t, where) == /\ interpreter' = Nobody
                   /\ pc' = [pc EXCEPT ![t] = where]
Run(t)         == pc' = [pc EXCEPT ![t] = "inside"]

-----------------------------------------------------------------------------
(* AcpiExEnterInterpreter, AcpiExExitInterpreter, AcpiExSystemDoSleep,     *)
(* AcpiExSystemWaitMutex, and the failure of an AML operator               *)

Sleep(t) ==
    /\ Inside(t)
    /\ Leave(t, "asleep")
    /\ UNCHANGED <<wants, status, frames, level, acquired, lockVars, methodVars, history>>

WakeUp(t) ==
    /\ pc[t] = "asleep"
    /\ Come(t) /\ Run(t)
    /\ UNCHANGED <<wants, status, frames, level, acquired, lockVars, methodVars, history>>

\* Mutant: a semaphore that has no unit gives one.
AlwaysAvailable(l) == TRUE

Available(l) == units[l] > 0

\* No unit is free: the thread leaves the interpreter and waits.
WaitOutside(t, l) ==
    /\ ~Available(l)
    /\ Leave(t, "wait")
    /\ wants' = [wants EXCEPT ![t] = l]
    /\ UNCHANGED <<status, frames, level, acquired, lockVars, methodVars, history>>

Woken(t) ==
    /\ pc[t] = "wait"
    /\ Available(wants[t])
    /\ units' = [units EXCEPT ![wants[t]] = @ - 1]
    /\ pc' = [pc EXCEPT ![t] = "woken"]
    /\ UNCHANGED <<interpreter, wants, status, frames, level, acquired, owner, depth,
                   original, methodVars, history>>

\* The wait of an Acquire with a timeout ends, and the thread comes back without it.
TimedOut(t) ==
    /\ pc[t] = "wait"
    /\ wants[t] \in Mutexes
    /\ Come(t) /\ Run(t)
    /\ wants' = [wants EXCEPT ![t] = Nobody]
    /\ UNCHANGED <<status, frames, level, acquired, lockVars, methodVars, history>>

\* An operator fails: every method of the thread is going to be aborted.
Fails(t, why) ==
    /\ Leave(t, "report")
    /\ status' = [status EXCEPT ![t] = why]
    /\ UNCHANGED <<wants, frames, level, acquired, lockVars, history>>

-----------------------------------------------------------------------------
(* AcpiExAcquireMutex and AcpiExReleaseMutex                               *)

\* Mutant: the level is not looked at.
AnyLevel(t, l) == FALSE

TooHigh(t, l) == level[t] > SyncLevel[l]

AcquireRefused(t, x) ==
    /\ Inside(t)
    /\ TooHigh(t, x)
    /\ Fails(t, "error")
    /\ UNCHANGED methodVars

AcquireAgain(t, x) ==
    /\ Inside(t)
    /\ ~TooHigh(t, x)
    /\ owner[x] = t
    /\ depth[x] < MaxDepth
    /\ depth' = [depth EXCEPT ![x] = @ + 1]
    /\ UNCHANGED <<interpreter, threadVars, level, acquired, units, owner, original,
                   methodVars, history>>

\* The thread has the unit: it becomes the owner, and the mutex the list's head.
Link(t, x) ==
    /\ owner' = [owner EXCEPT ![x] = t]
    /\ depth' = [depth EXCEPT ![x] = 1]
    /\ original' = [original EXCEPT ![x] = level[t]]
    /\ level' = [level EXCEPT ![t] = SyncLevel[x]]
    /\ acquired' = [acquired EXCEPT ![t] = <<x>> \o @]
    /\ UNCHANGED <<status, frames, methodVars, history>>

AcquireAtOnce(t, x) ==
    /\ Inside(t)
    /\ ~TooHigh(t, x)
    /\ owner[x] # t
    /\ Available(x)
    /\ units' = [units EXCEPT ![x] = @ - 1]
    /\ Link(t, x)
    /\ UNCHANGED <<interpreter, pc, wants>>

AcquireWaits(t, x) ==
    /\ Inside(t)
    /\ ~TooHigh(t, x)
    /\ owner[x] # t
    /\ WaitOutside(t, x)

AcquireDone(t, x) ==
    /\ pc[t] = "woken" /\ wants[t] = x
    /\ Come(t) /\ Run(t)
    /\ wants' = [wants EXCEPT ![t] = Nobody]
    /\ Link(t, x)
    /\ UNCHANGED units

\* It is not this thread's, or not of the thread's level.
ReleaseRefused(t, x) ==
    /\ Inside(t)
    /\ ~Contains(acquired[t], x) \/ SyncLevel[x] # level[t]
    /\ Fails(t, "error")
    /\ UNCHANGED methodVars

ReleaseOnce(t, x) ==
    /\ Inside(t)
    /\ Contains(acquired[t], x) /\ SyncLevel[x] = level[t]
    /\ depth[x] > 1
    /\ depth' = [depth EXCEPT ![x] = @ - 1]
    /\ UNCHANGED <<interpreter, threadVars, level, acquired, units, owner, original,
                   methodVars, history>>

\* Mutant: the mutex is unlinked, and its original level with it.
MigrateForgets(t, i) == UNCHANGED original

\* The mutex before it in the list inherits its original level.
Migrate(t, i) ==
    original' = IF i = 1 THEN original
                ELSE [original EXCEPT ![acquired[t][i - 1]] = original[acquired[t][i]]]

\* The mutex was acquired before the method entry that took a method's mutex last.
Outer(t, i) ==
    \E j \in DOMAIN frames[t] :
        frames[t][j].took /\ Len(acquired[t]) - i < frames[t][j].held

\* The level returns to the original one of the list's head, whichever is released.
Release(t, x) ==
    \E i \in DOMAIN acquired[t] :
        /\ Inside(t)
        /\ acquired[t][i] = x
        /\ SyncLevel[x] = level[t]
        /\ depth[x] = 1
        /\ level' = [level EXCEPT ![t] = original[acquired[t][1]]]
        /\ Migrate(t, i)
        /\ acquired' = [acquired EXCEPT ![t] = RemoveAt(@, i)]
        /\ units' = [units EXCEPT ![x] = @ + 1]
        /\ owner' = [owner EXCEPT ![x] = Nobody]
        /\ depth' = [depth EXCEPT ![x] = 0]
        /\ skewed' = IF Outer(t, i) THEN skewed \cup {t} ELSE skewed
        /\ UNCHANGED <<interpreter, threadVars, methodVars, damaged>>

-----------------------------------------------------------------------------
(* AcpiDsBeginMethodExecution, from AcpiPsExecuteMethod (an evaluation) or *)
(* from AcpiDsCallControlMethod (a call from another method)               *)

\* The thread enters the interpreter to evaluate m, or a method it runs calls m.
Starts(t, m) ==
    \/ pc[t] = "outside" /\ interpreter = Nobody
    \/ Inside(t) /\ Nested(t) /\ Len(frames[t]) < MaxNesting

\* Mutant: the limit is not looked at.
NeverFull(m) == FALSE

\* "Prevent wraparound of thread count"
Full(m) == count[m] = MethodLimit

OrderViolated(t, m) == Nested(t) /\ kind[m] = "serialized" /\ TooHigh(t, m)

Admitted(t, m) == /\ Starts(t, m)
                  /\ ~Full(m)
                  /\ ~OrderViolated(t, m)

\* The entry fails: a nested one aborts the methods below it.
EntryFails(t) ==
    /\ Leave(t, IF Nested(t) THEN "report" ELSE "outside")
    /\ status' = [status EXCEPT ![t] = IF Nested(t) THEN "error" ELSE "ok"]
    /\ wants' = [wants EXCEPT ![t] = Nobody]
    /\ UNCHANGED <<frames, acquired>>

\* The limit, the order, or no memory: for the mutex of a method that is serialized,
\* or for the owner id of one that is not.
MethodRefused(t, m) ==
    /\ Starts(t, m)
    /\ Full(m) \/ OrderViolated(t, m) \/ count[m] = 0
    /\ EntryFails(t)
    /\ UNCHANGED <<level, lockVars, methodVars, history>>

\* The method's frame is pushed.
Push(t, m, took) ==
    /\ interpreter' = t
    /\ Run(t)
    /\ wants' = [wants EXCEPT ![t] = Nobody]
    /\ frames' = [frames EXCEPT ![t] = Append(@,
           [method |-> m, took |-> took, held |-> Len(acquired[t]), made |-> FALSE])]
    /\ count' = [count EXCEPT ![m] = @ + 1]
    /\ skewed' = IF m \in damaged THEN skewed \cup {t} ELSE skewed
    /\ UNCHANGED <<status, acquired, kind, object, damaged>>

\* A thread's outermost method starts at its own level, one that ignores sync levels
\* stays at its caller's.
EntryLevel(t, m) ==
    [level EXCEPT ![t] = IF Nested(t) /\ kind[m] # "serialized" THEN @ ELSE SyncLevel[m]]

\* No walk state: the method is terminated without one, which leaves its mutex
\* as it is, or, in an evaluation, it is not terminated at all.
NoWalkState(t, m) ==
    /\ m \notin damaged /\ Cardinality(damaged) < MaxFailures
    /\ count' = IF Nested(t) THEN count ELSE [count EXCEPT ![m] = @ + 1]
    /\ EntryFails(t)
    /\ damaged' = damaged \cup {m}
    /\ skewed' = skewed \cup {t}
    /\ UNCHANGED <<kind, object>>

BeginPlain(t, m) ==
    /\ Admitted(t, m)
    /\ ~HasMutex(m)
    /\ \/ Push(t, m, FALSE) /\ level' = EntryLevel(t, m)
       \/ NoWalkState(t, m) /\ UNCHANGED level
    /\ UNCHANGED lockVars

\* Mutant: a recursive entry is not counted by the mutex.
EntryNotCounted(m) == UNCHANGED depth

\* "Always increase acquisition depth"
CountEntry(m) == depth' = [depth EXCEPT ![m] = @ + 1]

\* A thread in the method calls it again.
BeginAgain(t, m) ==
    /\ Admitted(t, m)
    /\ HasMutex(m) /\ Nested(t) /\ owner[m] = t
    /\ CountEntry(m)
    /\ Push(t, m, FALSE) \/ NoWalkState(t, m)
    /\ UNCHANGED <<level, units, owner, original>>

NeedsUnit(t, m) == HasMutex(m) /\ (~Nested(t) \/ owner[m] # t)

\* The thread has the unit of the method's mutex: it takes the mutex.
Take(t, m) ==
    /\ owner' = [owner EXCEPT ![m] = t]
    /\ CountEntry(m)
    /\ original' = [original EXCEPT ![m] = IF Nested(t) THEN level[t] ELSE SyncLevel[m]]

\* No owner id: the unit is given back, but neither the owner nor the depth.
NoOwnerId(t, m) ==
    /\ count[m] = 0
    /\ m \notin damaged /\ Cardinality(damaged) < MaxFailures
    /\ EntryFails(t)
    /\ damaged' = damaged \cup {m}
    /\ skewed' = skewed \cup {t}
    /\ UNCHANGED methodVars

\* left: what the semaphore has once the thread has taken its unit.
Obtain(t, m, left) ==
    /\ Take(t, m)
    /\ \/ /\ Push(t, m, TRUE)
          /\ level' = EntryLevel(t, m)
          /\ units' = [units EXCEPT ![m] = left]
       \/ /\ NoWalkState(t, m)
          /\ level' = IF Nested(t) THEN EntryLevel(t, m) ELSE level
          /\ units' = [units EXCEPT ![m] = left]
       \/ /\ NoOwnerId(t, m)
          /\ level' = IF Nested(t) THEN EntryLevel(t, m) ELSE level
          /\ units' = [units EXCEPT ![m] = left + 1]

BeginAtOnce(t, m) ==
    /\ Admitted(t, m)
    /\ NeedsUnit(t, m)
    /\ Available(m)
    /\ Obtain(t, m, units[m] - 1)

BeginWaits(t, m) ==
    /\ Admitted(t, m)
    /\ NeedsUnit(t, m)
    /\ WaitOutside(t, m)

BeginDone(t, m) ==
    /\ pc[t] = "woken" /\ wants[t] = m
    /\ interpreter = Nobody
    /\ Obtain(t, m, units[m])

-----------------------------------------------------------------------------
(* The objects of a method, and AcpiDsTerminateControlMethod               *)

CreateObject(t) ==
    /\ Inside(t) /\ Nested(t)
    /\ LET m == Top(t).method IN
       /\ ~object[m]
       /\ object' = [object EXCEPT ![m] = TRUE]
       /\ frames' = [frames EXCEPT ![t][Len(frames[t])].made = TRUE]
    /\ UNCHANGED <<interpreter, pc, wants, status, level, acquired, lockVars, kind, count,
                   history>>

AlreadyExists(t) ==
    /\ Inside(t) /\ Nested(t)
    /\ object[Top(t).method]
    /\ Fails(t, "exists")
    /\ UNCHANGED methodVars

\* The method ends, or it has been reported as aborted. An evaluation that finds no
\* memory for its thread state is one that ends without having done anything.
Ending(t) == \/ pc[t] = "inside" /\ Nested(t) /\ interpreter = t
             \/ pc[t] = "report" /\ interpreter = Nobody

\* AE_ALREADY_EXISTS aborts the method and its callers; each of them will be
\* serialized when its last thread leaves it.
Marked(t) ==
    [m \in Methods |-> IF /\ pc[t] = "report" /\ status[t] = "exists"
                         /\ m = Top(t).method /\ ~HasMutex(m)
                      THEN "pending" ELSE kind[m]]

\* Mutant: whoever leaves the method deletes its objects.
AlwaysLast(m) == TRUE

LastInside(m) == count[m] = 1

EndLast(t) ==
    /\ Ending(t)
    /\ LastInside(Top(t).method)
    /\ Leave(t, "delete")
    /\ kind' = Marked(t)
    /\ UNCHANGED <<wants, status, frames, level, acquired, lockVars, count, object, history>>

\* AcpiNsDeleteNamespaceSubtree holds the namespace mutex, and nobody in the
\* interpreter is without it. The deletion of what the method has created elsewhere,
\* by owner id and with the interpreter entered in between, is part of this step.
DeleteObjects(t) ==
    /\ pc[t] = "delete"
    /\ interpreter = Nobody
    /\ object' = [object EXCEPT ![Top(t).method] = FALSE]
    /\ pc' = [pc EXCEPT ![t] = "deleted"]
    /\ UNCHANGED <<interpreter, wants, status, frames, level, acquired, lockVars, kind, count,
                   history>>

\* Mutant: an inner return of a recursive method releases its mutex.
FullyReleasedEarly(m) == TRUE

FullyReleased(m) == depth[m] = 1

\* The method's mutex is released with the outermost entry, and the level restored.
\* When a thread's last method ends, so is every mutex it has left.
Unlock(t, m) ==
    LET frees == HasMutex(m) /\ FullyReleased(m)
        all   == IF Len(frames[t]) = 1 THEN ToSet(acquired[t]) ELSE {}
        gone  == all \cup (IF frees THEN {m} ELSE {})
    IN  /\ units' = [l \in Locks |-> IF l \in gone THEN units[l] + 1 ELSE units[l]]
        /\ owner' = [l \in Locks |-> IF l \in gone THEN Nobody ELSE owner[l]]
        /\ depth' = [l \in Locks |-> IF l \in all THEN 0
                                     ELSE IF l = m /\ HasMutex(m) THEN depth[l] - 1
                                     ELSE depth[l]]
        /\ level' = [level EXCEPT ![t] = IF Len(frames[t]) = 1 THEN 0
                                         ELSE IF frees THEN original[m] ELSE @]
        /\ skewed' = IF Len(frames[t]) = 1 THEN skewed \ {t}
                     ELSE IF frees /\ Len(acquired[t]) # Top(t).held THEN skewed \cup {t}
                     ELSE skewed
        /\ UNCHANGED original

AcpiDsTerminateControlMethod(t) ==
    /\ \/ Ending(t) /\ ~LastInside(Top(t).method)
       \/ pc[t] = "deleted" /\ interpreter = Nobody
    /\ LET m == Top(t).method IN
       /\ Unlock(t, m)
       /\ count' = [count EXCEPT ![m] = IF @ > 0 THEN @ - 1 ELSE @]
       /\ kind' = [Marked(t) EXCEPT ![m] = IF count'[m] = 0 /\ @ = "pending" THEN "ignored" ELSE @]
    /\ frames' = [frames EXCEPT ![t] = Front(@)]
    /\ IF Len(frames[t]) = 1
       THEN /\ Leave(t, "outside")
            /\ acquired' = [acquired EXCEPT ![t] = <<>>]
            /\ status' = [status EXCEPT ![t] = "ok"]
       ELSE /\ UNCHANGED <<acquired, status>>
            /\ IF status[t] # "ok" THEN Leave(t, "report") ELSE interpreter' = t /\ Run(t)
    /\ UNCHANGED <<wants, object, damaged>>

-----------------------------------------------------------------------------
MutexStep(t, x) == \/ AcquireRefused(t, x) \/ AcquireAgain(t, x) \/ AcquireAtOnce(t, x)
                   \/ AcquireWaits(t, x) \/ AcquireDone(t, x)
                   \/ ReleaseRefused(t, x) \/ ReleaseOnce(t, x) \/ Release(t, x)

MethodStep(t, m) == \/ MethodRefused(t, m) \/ BeginPlain(t, m) \/ BeginAgain(t, m)
                    \/ BeginAtOnce(t, m) \/ BeginWaits(t, m) \/ BeginDone(t, m)

Next == \E t \in Threads :
            \/ Sleep(t) \/ WakeUp(t) \/ Woken(t) \/ TimedOut(t)
            \/ \E x \in Mutexes : MutexStep(t, x)
            \/ \E m \in Methods : MethodStep(t, m)
            \/ CreateObject(t) \/ AlreadyExists(t)
            \/ EndLast(t) \/ DeleteObjects(t) \/ AcpiDsTerminateControlMethod(t)

Spec == Init /\ [][Next]_vars

-----------------------------------------------------------------------------
(* Properties                                                              *)

\* The variables keep their types; no semaphore has fewer than no units.
TypeOK == /\ interpreter \in Threads \cup {Nobody}
          /\ pc \in [Threads -> Pc]
          /\ wants \in [Threads -> Locks \cup {Nobody}]
          /\ status \in [Threads -> Status]
          /\ frames \in [Threads -> Seq(Frame)]
          /\ level \in [Threads -> 0..15]
          /\ acquired \in [Threads -> Seq(Mutexes)]
          /\ units \in [Locks -> Nat]
          /\ owner \in [Locks -> Threads \cup {Nobody}]
          /\ depth \in [Locks -> Int]
          /\ original \in [Locks -> 0..15]
          /\ kind \in [Methods -> {"plain", "pending", "ignored", "serialized"}]
          /\ count \in [Methods -> Nat]
          /\ object \in [Methods -> BOOLEAN]
          /\ skewed \in SUBSET Threads
          /\ damaged \in SUBSET Methods

FramesOf(t, m) == {i \in DOMAIN frames[t] : frames[t][i].method = m}
Entries(m) == UNION {{t} \X FramesOf(t, m) : t \in Threads}
Executes(t, m) == FramesOf(t, m) # {}

\* The threads that have the unit of a lock: they own it or are about to.
Has(t, l) == owner[l] = t \/ (pc[t] = "woken" /\ wants[t] = l)

\* A serialized method runs on one thread at a time, and so does what an AML mutex
\* protects: also for a method that became serialized after threads were in it,
\* and only unless its entry once failed half way.
SerializedExcludes ==
    \A t, u \in Threads :
        /\ \A m \in Methods \ damaged :
               HasMutex(m) /\ Executes(t, m) /\ Executes(u, m) => t = u
        /\ \A l \in Locks \ damaged : Has(t, l) /\ Has(u, l) => t = u

\* The depth of a method's mutex is the number of its owner's entries, ThreadCount
\* that of all threads, and does not wrap around; an AML mutex is owned by the thread that has it in its list,
\* once. So the last exit releases, and nothing is left behind at the end.
EntriesCounted ==
    /\ \A m \in Methods \ damaged, t \in Threads :
           HasMutex(m) /\ owner[m] = t => depth[m] = Cardinality(FramesOf(t, m))
    /\ \A m \in Methods \ damaged :
           /\ count[m] = Cardinality(Entries(m))
           /\ count[m] <= MethodLimit
    /\ \A x \in Mutexes, t \in Threads :
           /\ owner[x] = t <=> Contains(acquired[t], x)
           /\ \A i, j \in DOMAIN acquired[t] : acquired[t][i] = acquired[t][j] => i = j

\* "This mechanism provides some deadlock prevention": threads that release what they
\* acquire within the method that acquired it never wait for each other in a circle,
\* if no two locks of the circle have the same level, none ignores it, and none was left
\* locked by an entry that failed.
Waits(t) == pc[t] = "wait"
NoCircularWait ==
    \A S \in (SUBSET Threads) \ {{}} :
        (\A t \in S : /\ Waits(t) /\ t \notin skewed
                      /\ wants[t] \in Methods => kind[wants[t]] = "serialized"
                      /\ wants[t] \notin damaged
                      /\ \E u \in S : owner[wants[t]] = u)
        => \E t, u \in S : t # u /\ SyncLevel[wants[t]] = SyncLevel[wants[u]]

\* The levels a thread has reason to be at: its outermost method's, and those of
\* the mutexes and of the methods' mutexes that it has.
LevelsHeld(t) ==
    {SyncLevel[frames[t][1].method]}
    \cup {SyncLevel[x] : x \in ToSet(acquired[t])}
    \cup {SyncLevel[frames[t][i].method] : i \in {j \in DOMAIN frames[t] : frames[t][j].took}}

\* The current level is the highest of them, in whatever order mutexes of one level
\* were released and methods called in between, for a thread that releases what it
\* acquires within the method that acquired it. So the mutex acquired last can be
\* released, and no level is left over that would refuse a lock in order.
LevelIsHighestHeld ==
    \A t \in Threads \ skewed : Nested(t) => level[t] = Max(LevelsHeld(t))

\* The objects a serialized method creates live as long as the call that created
\* them, although they are deleted outside the interpreter.
SerializedKeepsObjects ==
    \A t \in Threads : \A i \in DOMAIN frames[t] :
        LET f == frames[t][i] IN
        /\ f.made /\ HasMutex(f.method) /\ f.method \notin damaged
        /\ ~(pc[t] = "deleted" /\ i = Len(frames[t]))
        => object[f.method]

\* "There are other threads executing the method, in which case we will wait until
\* the last thread has completed": no thread loses the objects it created.
ObjectsKept ==
    \A t \in Threads : \A i \in DOMAIN frames[t] :
        LET f == frames[t][i] IN
        f.made /\ ~(pc[t] = "deleted" /\ i = Len(frames[t])) => object[f.method]
=============================================================================
