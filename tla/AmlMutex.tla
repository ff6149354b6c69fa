------------------------------ MODULE AmlMutex ------------------------------
(***************************************************************************)
(* AML mutexes over the OS layer's semaphores. Every thread that evaluates *)
(* a control method does so inside the interpreter, which one semaphore    *)
(* guards; each AML mutex has a semaphore of its own. A thread that has to *)
(* wait for a mutex first leaves the interpreter, waits, and comes back;   *)
(* whether it has to wait is found out by a wait that must not block.      *)
(*                                                                         *)
(* AcpiOsWaitSemaphore gives the kernel a deadline, an absolute time, of   *)
(* Timeout milliseconds: a timed wait may be over at any moment, and what  *)
(* the kernel makes of the deadline zero, that of the wait that must not   *)
(* block, is the parameter ZeroDeadline. Left out: the namespace lock,     *)
(* always taken with the interpreter's, AML events, the sync levels and    *)
(* serialized methods, which are in MethodExecution, and the Global Lock   *)
(* as a mutex (\_GL): it is shared with the firmware, goes through          *)
(* AcpiEvAcquireGlobalLock and AcpiEvReleaseGlobalLock instead of the      *)
(* semaphore, and any thread may release it. Mutexes are the other ones.   *)
(***************************************************************************)
EXTENDS SequencesExt, Integers

CONSTANTS Threads,       (* the threads that evaluate control methods        *)
          Mutexes,       (* AML Mutex objects                                *)
          Interpreter,   (* ACPI_MTX_INTERPRETER                             *)
          Nobody,        (* the ThreadId of a mutex that is not acquired     *)
          Timeouts,      (* those of Acquire: some of AnyTimeout             *)
          ZeroDeadline,  (* what deadline 0 may mean: some of AnyDeadline    *)
          MaxDepth       (* bound on the nested acquisitions of a mutex      *)

AnyTimeout  == {"zero", "timed", "forever"}   (* 0, milliseconds, 0xFFFF     *)
AnyDeadline == {"expired", "none"}            (* it is past; there is none   *)

ASSUME MutexAssumption == /\ IsFiniteSet(Threads)
                          /\ Interpreter \notin Mutexes
                          /\ Nobody \notin Threads
                          /\ Timeouts \subseteq AnyTimeout
                          /\ ZeroDeadline \subseteq AnyDeadline
                          /\ MaxDepth \in Nat \ {0}

Locks == Mutexes \cup {Interpreter}

VARIABLES units,    (* by lock, the units of its semaphore                   *)
          queue,    (* by lock, the threads that wait in its semaphore       *)
          owner,    (* by mutex, its ThreadId                                *)
          depth,    (* by mutex, its AcquisitionDepth                        *)
          thread    (* by thread, where it is and what it acquires           *)

vars == <<units, queue, owner, depth, thread>>

Thread == [pc      : {"outside", "enter", "inside", "try", "leave", "left",
                      "wait", "back", "reenter", "sleep", "exit"},
           mutex   : Mutexes \cup {Nobody},    (* the mutex it acquires      *)
           timeout : AnyTimeout,
           ok      : BOOLEAN]                  (* AE_OK, or else AE_TIME     *)

Free == [pc |-> "outside", mutex |-> Nobody, timeout |-> "zero", ok |-> FALSE]

Init == /\ units = [l \in Locks |-> 1]
        /\ queue = [l \in Locks |-> <<>>]
        /\ owner = [m \in Mutexes |-> Nobody]
        /\ depth = [m \in Mutexes |-> 0]
        /\ thread = [t \in Threads |-> Free]

At(t, where)   == thread[t].pc = where
Goto(t, where) == thread' = [thread EXCEPT ![t].pc = where]
Queued(t, l)   == \E i \in DOMAIN queue[l] : queue[l][i] = t
OwnedBy(t)     == {m \in Mutexes : owner[m] = t}

-----------------------------------------------------------------------------
(* AcpiOsWaitSemaphore and AcpiOsSignalSemaphore on Mach semaphores: a     *)
(* signal hands its unit to the thread that has waited longest.            *)

TakeUnit(l) == /\ units[l] > 0
               /\ units' = [units EXCEPT ![l] = @ - 1]
               /\ UNCHANGED queue

Enqueue(t, l) == /\ units[l] = 0
                 /\ queue' = [queue EXCEPT ![l] = Append(@, t)]
                 /\ UNCHANGED units

WaitFor(t, l) == TakeUnit(l) \/ Enqueue(t, l)

\* Mutant: a thread whose wait is over stays where a signal finds it.
DequeueForgets(t, l) == UNCHANGED <<units, queue>>

Dequeue(t, l) == \E i \in DOMAIN queue[l] :
                     /\ queue[l][i] = t
                     /\ queue' = [queue EXCEPT ![l] = RemoveAt(@, i)]
                     /\ UNCHANGED units

\* Mutant: every signal adds a unit, also one that wakes a thread.
SignalTwice(ls) ==
    /\ queue' = [l \in Locks |-> IF l \in ls /\ queue[l] # <<>> THEN Tail(queue[l])
                                 ELSE queue[l]]
    /\ units' = [l \in Locks |-> IF l \in ls THEN units[l] + 1 ELSE units[l]]

\* Mutant: signals wake the thread that came last.
SignalLast(ls) ==
    /\ queue' = [l \in Locks |-> IF l \in ls /\ queue[l] # <<>> THEN Front(queue[l])
                                 ELSE queue[l]]
    /\ units' = [l \in Locks |-> IF l \in ls /\ queue[l] = <<>> THEN units[l] + 1
                                 ELSE units[l]]

\* One signal to the semaphore of each of these locks.
Signal(ls) ==
    /\ queue' = [l \in Locks |-> IF l \in ls /\ queue[l] # <<>> THEN Tail(queue[l])
                                 ELSE queue[l]]
    /\ units' = [l \in Locks |-> IF l \in ls /\ queue[l] = <<>> THEN units[l] + 1
                                 ELSE units[l]]

-----------------------------------------------------------------------------
(* Entering and leaving the interpreter                                    *)

AcpiExEnterInterpreter(t) ==
    /\ At(t, "outside") \/ At(t, "sleep")
    /\ WaitFor(t, Interpreter)
    /\ Goto(t, "enter")
    /\ UNCHANGED <<owner, depth>>

\* Mutant: a thread that should wait for the interpreter does not.
GrantedAnyway(t) == TRUE

\* It has the unit that it took, or that a signal handed to it.
Granted(t) == ~Queued(t, Interpreter)

Entered(t) ==
    /\ At(t, "enter") /\ Granted(t)
    /\ Goto(t, "inside")
    /\ UNCHANGED <<units, queue, owner, depth>>

\* AcpiExSystemDoSleep leaves the interpreter with the mutexes it has acquired.
AcpiExSystemDoSleep(t) ==
    /\ At(t, "inside")
    /\ Signal({Interpreter})
    /\ Goto(t, "sleep")
    /\ UNCHANGED <<owner, depth>>

\* Mutant: each mutex is released once, however often it was acquired.
ReleaseOnce(t) ==
    /\ At(t, "inside")
    /\ LET last == {m \in OwnedBy(t) : depth[m] = 1}
       IN  /\ Signal(last)
           /\ owner' = [m \in Mutexes |-> IF m \in last THEN Nobody ELSE owner[m]]
    /\ depth' = [m \in Mutexes |-> IF owner[m] = t THEN depth[m] - 1 ELSE depth[m]]
    /\ Goto(t, "exit")

\* The method is over: each mutex is released, however often it was acquired.
AcpiExReleaseAllMutexes(t) ==
    /\ At(t, "inside")
    /\ Signal(OwnedBy(t))
    /\ owner' = [m \in Mutexes |-> IF owner[m] = t THEN Nobody ELSE owner[m]]
    /\ depth' = [m \in Mutexes |-> IF owner[m] = t THEN 0 ELSE depth[m]]
    /\ Goto(t, "exit")

AcpiExExitInterpreter(t) ==
    /\ At(t, "exit")
    /\ Signal({Interpreter})
    /\ thread' = [thread EXCEPT ![t] = Free]
    /\ UNCHANGED <<owner, depth>>

-----------------------------------------------------------------------------
(* AcpiExAcquireMutexObject and AcpiExReleaseMutexObject                   *)

\* The owner acquires the mutex once more.
AcquireAgain(t, m) ==
    /\ At(t, "inside")
    /\ owner[m] = t
    /\ depth[m] < MaxDepth
    /\ depth' = [depth EXCEPT ![m] = @ + 1]
    /\ UNCHANGED <<units, queue, owner, thread>>

\* The semaphore's unit is this thread's: it becomes the owner.
Own(t, m) == /\ owner' = [owner EXCEPT ![m] = t]
             /\ depth' = [depth EXCEPT ![m] = 1]
             /\ thread' = [thread EXCEPT ![t] = [Free EXCEPT !.pc = "inside"]]

\* AcpiExSystemWaitMutex asks for the unit without waiting, and gets it.
AcquireAtOnce(t, m) ==
    /\ At(t, "inside")
    /\ owner[m] # t
    /\ TakeUnit(m)
    /\ Own(t, m)

\* There is no unit: an expired deadline fails with AE_TIME, and the thread is
\* going to leave the interpreter. Without a deadline it waits right here, and for
\* ever: nobody can come in to give the unit back.
TryFails(t, m, timeout) ==
    LET Acquiring(where) == thread' = [thread EXCEPT ![t] =
                                [pc |-> where, mutex |-> m, timeout |-> timeout, ok |-> FALSE]]
    IN
    /\ At(t, "inside")
    /\ owner[m] # t
    /\ units[m] = 0
    /\ \/ "expired" \in ZeroDeadline /\ Acquiring("leave") /\ UNCHANGED <<units, queue>>
       \/ "none" \in ZeroDeadline /\ Acquiring("try") /\ Enqueue(t, m)
    /\ UNCHANGED <<owner, depth>>

LeaveToWait(t) ==
    /\ At(t, "leave")
    /\ Signal({Interpreter})
    /\ Goto(t, "left")
    /\ UNCHANGED <<owner, depth>>

Wait(t) ==
    /\ At(t, "left")
    /\ WaitFor(t, thread[t].mutex)
    /\ Goto(t, "wait")
    /\ UNCHANGED <<owner, depth>>

Woken(t) ==
    /\ At(t, "wait") /\ ~Queued(t, thread[t].mutex)
    /\ thread' = [thread EXCEPT ![t].pc = "back", ![t].ok = TRUE]
    /\ UNCHANGED <<units, queue, owner, depth>>

MayTimeOut(t) == \/ thread[t].timeout = "timed"
                 \/ thread[t].timeout = "zero" /\ "expired" \in ZeroDeadline

TimedOut(t) ==
    /\ At(t, "wait") /\ Queued(t, thread[t].mutex)
    /\ MayTimeOut(t)
    /\ Dequeue(t, thread[t].mutex)
    /\ Goto(t, "back")
    /\ UNCHANGED <<owner, depth>>

ComeBack(t) ==
    /\ At(t, "back")
    /\ WaitFor(t, Interpreter)
    /\ Goto(t, "reenter")
    /\ UNCHANGED <<owner, depth>>

\* Back in the interpreter, with the mutex or with AE_TIME.
Reentered(t) ==
    /\ At(t, "reenter") /\ Granted(t)
    /\ \/ thread[t].ok /\ Own(t, thread[t].mutex)
       \/ /\ ~thread[t].ok
          /\ thread' = [thread EXCEPT ![t] = [Free EXCEPT !.pc = "inside"]]
          /\ UNCHANGED <<owner, depth>>
    /\ UNCHANGED <<units, queue>>

\* Only the owner gets here: AcpiExReleaseMutex refuses the others, for every mutex
\* but the Global Lock.
AcpiExReleaseMutexObject(t, m) ==
    /\ At(t, "inside")
    /\ owner[m] = t
    /\ depth' = [depth EXCEPT ![m] = @ - 1]
    /\ IF depth[m] = 1
       THEN Signal({m}) /\ owner' = [owner EXCEPT ![m] = Nobody]
       ELSE UNCHANGED <<units, queue, owner>>
    /\ UNCHANGED thread

-----------------------------------------------------------------------------
\* What a thread does on its way in, out or back, without a decision of its own.
OnTheWay(t) == \/ Entered(t) \/ AcpiExExitInterpreter(t) \/ LeaveToWait(t) \/ Wait(t)
               \/ Woken(t) \/ TimedOut(t) \/ ComeBack(t) \/ Reentered(t)

WakeUp(t) == At(t, "sleep") /\ AcpiExEnterInterpreter(t)

Next == \E t \in Threads :
            \/ AcpiExEnterInterpreter(t) \/ AcpiExSystemDoSleep(t)
            \/ AcpiExReleaseAllMutexes(t) \/ OnTheWay(t)
            \/ \E m \in Mutexes : \/ AcquireAgain(t, m) \/ AcquireAtOnce(t, m)
                                  \/ AcpiExReleaseMutexObject(t, m)
                                  \/ \E timeout \in Timeouts : TryFails(t, m, timeout)

\* A thread that can go on does, a sleep ends, and so does every method: a loop
\* of AML is ended by the interpreter, however often the method waits or sleeps.
Fairness == \A t \in Threads : /\ WF_vars(OnTheWay(t))
                               /\ WF_vars(WakeUp(t))
                               /\ SF_vars(AcpiExReleaseAllMutexes(t))

Spec == Init /\ [][Next]_vars /\ Fairness

-----------------------------------------------------------------------------
(* Properties                                                              *)

\* The variables keep their types; no semaphore ever has a second unit.
TypeOK == /\ units \in [Locks -> 0..1]
          /\ queue \in [Locks -> Seq(Threads)]
          /\ \A l \in Locks : Len(queue[l]) <= Cardinality(Threads)
          /\ owner \in [Mutexes -> Threads \cup {Nobody}]
          /\ depth \in [Mutexes -> 0..MaxDepth]
          /\ thread \in [Threads -> Thread]

InInterpreter(t) == \/ thread[t].pc \in {"inside", "try", "leave", "exit"}
                    \/ thread[t].pc \in {"enter", "reenter"} /\ Granted(t)

\* The threads that have the unit of a mutex, as its owner or on the way to it.
Holds(t, m) == \/ owner[m] = t
               \/ /\ thread[t].mutex = m
                  /\ \/ thread[t].pc = "wait" /\ ~Queued(t, m)
                     \/ thread[t].pc \in {"back", "reenter"} /\ thread[t].ok

\* The unit of every semaphore is in one place: free, or with one thread; nobody
\* waits for a free one, and one that waits in the interpreter is never woken. A
\* signal that races a timeout, or the release of all mutexes at a method's end,
\* neither loses nor doubles it.
OneUnit ==
    /\ \A m \in Mutexes : units[m] + Cardinality({t \in Threads : Holds(t, m)}) = 1
    /\ units[Interpreter] + Cardinality({t \in Threads : InInterpreter(t)}) = 1
    /\ \A l \in Locks : queue[l] # <<>> => units[l] = 0
    /\ \A t \in Threads : At(t, "try") => Queued(t, thread[t].mutex)

\* A thread that has left the interpreter for good has left nothing behind: it
\* has no unit and waits for none, so that no signal is spent on it.
NothingLeftBehind ==
    \A t \in Threads : At(t, "outside") =>
        /\ \A m \in Mutexes : ~Holds(t, m)
        /\ \A l \in Locks : ~Queued(t, l)

\* "Interpreter must be locked": a mutex object changes hands or depth only while
\* one thread, and the one it changes for, is in the interpreter. It is what lets
\* AcpiExReleaseMutexObject signal the semaphore before it clears the owner.
OwnerUnderInterpreter ==
    [][\A m \in Mutexes : <<owner[m], depth[m]>>' # <<owner[m], depth[m]>> =>
         \E t \in Threads : /\ {u \in Threads : InInterpreter(u)} = {t}
                            /\ t \in {owner[m], owner'[m]}]_vars

\* "If it is not, the interpreter is released before waiting": no thread waits for
\* a mutex inside the interpreter.
WaitersLeaveInterpreter ==
    \A t \in Threads, m \in Mutexes : Queued(t, m) => ~InInterpreter(t)

\* An Acquire that waits forever gets the mutex, an Acquire with a timeout comes
\* to an end, and whoever wants the interpreter gets it: unless a thread waits for
\* a mutex in the interpreter, where the deadline zero has kept it.
AcquireReturns ==
    LET Kept == \E u \in Threads : At(u, "try")
        Got(t) == At(t, "inside") /\ OwnedBy(t) # {}
    IN  \A t \in Threads :
            /\ (At(t, "leave") /\ thread[t].timeout = "forever") ~> (Kept \/ Got(t))
            /\ At(t, "leave") ~> (Kept \/ At(t, "inside"))
            /\ At(t, "enter") ~> (Kept \/ At(t, "inside"))
=============================================================================
