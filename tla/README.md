# Verification of PDACPIPlatform's OS layer

PDACPIPlatform is an ACPI platform driver for Darwin. It links Intel's ACPICA, which is
vendored under `src/ACPICA`, and supplies what ACPICA needs from the system: an OS service
layer (`osdarwin.c` in C, `AcpiOsLayer.cpp` for what needs IOKit) and an IOKit platform
expert. These modules model that own code, and of ACPICA the parts whose concurrency rests on
the OS layer's mutexes, semaphores and executions: notify handlers, control methods with their
mutexes and sync levels, walks of the namespace beside the loading of tables.

Paths below are relative to `src/`; `osdarwin.c` is
`ACPICA/source/os_specific/service_layers/osdarwin.c`, and the C++ files are in
`PDACPIPlatform/`.

## 1. Inventory

| Component | State it keeps | Operations | Called by, calls |
|---|---|---|---|
| Execution service, `AcpiOsLayer.cpp` | `gPendingExecutions` under `gExecutionLock`; a work loop with a command gate | `AcpiOsExtExecute`, `AcpiOsThreadDispatch`, `AcpiOsExtWaitEventsComplete`, `AcpiOsExtTerminate` | `AcpiOsExecute` (notify dispatch, events); calls back into ACPICA, which may nest |
| Object cache, `osdarwin.c` 815-1045 | per cache: a LIFO list, its depth, a spin lock, a magic number | create, delete, purge, acquire, release | all of ACPICA's allocations of operand, state and parse objects; the kernel heap |
| PCI configuration space, `osdarwin.c` 420-692 | the ECAM base, first and last bus and an "initialized" flag; outside the program the latch behind port 0xCF8 | read and write, with lazy search of the MCFG; reset in `AcpiOsTerminate` | the PCI_Config region handler (in the interpreter), region setup (outside it); memory mappings |
| Memory mappings, `AcpiOsLayer.cpp` 173-206 | `gAcpiOsExtMemoryMapSet` | map, unmap | PCI accesses, table access |
| Semaphores, `osdarwin.c` 752-813 | Mach semaphores | create, delete, wait, signal | the interpreter lock, AML mutexes, events |
| Spin locks, `osdarwin.c` 708-748 | simple locks, the interrupt flag of the processor | create, delete, acquire, release | ACPICA's GPE, hardware and reference count locks |
| Address space handlers, `PDACPIPlatformExpert.cpp` 327-410 | a handler and a context for the EC and for the SMBus | register, unregister, read | client drivers on threads of their own |
| Notify handlers, ACPICA's `evmisc.c`, `evxface.c` | per node and for the root two lists of handler objects, each object with two links and a reference count | install, remove, queue, dispatch | the Notify operator, with the interpreter and the namespace locked; drivers; `AcpiOsExecute` |
| AML mutexes, `exmutex.c`, `exsystem.c` | the owner, depth and original sync level of a mutex; per thread the list of acquired mutexes and the current level | acquire, release, release all | the interpreter; semaphores, around which the interpreter is left |
| Control methods, `dsmethod.c`, `psparse.c` | per method a thread count, an owner id, a mutex if serialized, the objects it has created; per thread the methods it is in | begin, call, terminate, serialize on the fly | evaluations by drivers, calls in AML; AML mutexes |
| Tables and walks, `tbdata.c`, `nsload.c`, `nsxfeval.c`, `utlock.c` | per table a flag and an owner id; the nodes; a reader/writer lock made of two mutexes and a count | load, unload, walk | drivers and the Load operator; a walk calls a user function, which may do all of this |
| Platform expert, `PDACPIPlatformExpert.cpp` 1-325 | the catalogue of ACPI tables, the FADT, the MCFG | `start`, `initializeACPICA`, table lookup, power off | IOKit once at boot; ACPICA's initialisation |
| CPU, RTC, root bridge, interrupt controller | none | stubs | IOKit |

**What is hard here.** There is hardly any file or network, and nothing is persisted: the
difficulty is in threads. Callbacks run on the thread that asks for them, behind a recursive
gate, and may ask for more; a wait polls a counter and gives up; the teardown does not look at
how the wait ended. PCI accesses publish four globals without a lock and share a hardware
latch. The handlers' two members are stored and loaded one by one. A semaphore wait is
given a deadline that is not one. ACPICA leaves its interpreter lock in the middle of
operations, to wait, to sleep, to delete objects or to load a table, and goes on with what it has read
before. Failures are partial in the usual C way: an allocation, a
mapping or `runAction` fails after something was already counted or taken. The line at which
each of these bites, and the properties that watch it, are the `hazards` of `PROJECT.json`.

**What makes each part correct.**

- Execution: the count is exact on every path; a wait that says it drained, drained; callbacks
  exclude each other between threads and nest on one; interrupts come back on; everything
  returns.
- Cache: each object is in one place, never handed out or freed twice, and clean when handed out;
  the depth is the list's length and within its bound.
- PCI: an access reaches the register it names; the window is seen whole or not at all; a
  mapping lasts as long as its use.
- Semaphores and AML mutexes: one holder, no unit lost or doubled by a timeout, ownership only
  changes inside the interpreter, nobody waits for a mutex with the interpreter locked, a waiter
  gets what it waits for.
- Handlers: the handler that is called gets its own context.
- Notify handlers: one that runs is installed and its object is alive; the references of an object
  are the links to it; none runs on a thread that holds the interpreter.
- Methods: a serialized method is executed by one thread at a time, counts and depths are the
  entries they stand for, threads that obey the sync levels never wait in a circle, the objects of
  a method stay while it is executed.
- Tables: a node stays while a user function has it, as long as it exists it belongs to its
  table, and it goes with that table or with the one it is nested in; walks, loads and unloads end.

## 2. Modules

| Module | Models | Checked by |
|---|---|---|
| `AcpiOsExecute` | the execution service, its wait and its teardown | `MCAcpiOsExecute` (two configurations) |
| `AcpiOsExecuteProofs` | theorems about it | the proof system |
| `ObjectPool` | abstract: what ACPICA asks of a cache | as a property of `AcpiOsCache` |
| `AcpiOsCache` | one object cache of `osdarwin.c` | `MCAcpiOsCache` |
| `AcpiOsCacheProofs` | theorems about it, the refinement among them | the proof system |
| `PciConfiguration` | configuration accesses, the ECAM window, their mappings | `MCPciConfiguration` |
| `PciConfigurationProofs` | theorems about it | the proof system |
| `AmlMutex` | AML mutexes and the interpreter lock over the semaphores | `MCAmlMutex` (two) |
| `AmlMutexProofs` | theorems about it | the proof system |
| `AddressSpaceHandlers` | the platform expert's handlers | `MCAddressSpaceHandlers` |
| `AddressSpaceHandlersProofs` | theorems about it | the proof system |
| `NotifyDelivery` | abstract: what a notification and the handlers' registration promise | as a property of `NotifyHandlers` |
| `NotifyHandlers` | notify handlers and their dispatch through `AcpiOsExecute` | `MCNotifyHandlers` (two) |
| `NotifyHandlersProofs` | theorems about it, the refinement among them | the proof system |
| `MethodExecution` | control methods, AML mutexes with sync levels, the interpreter around both | `MCMethodExecution` (two) |
| `MethodExecutionProofs` | theorems about it | the proof system |
| `DynamicTables` | tables loaded and unloaded beside walks, the reader/writer lock | `MCDynamicTables` |
| `DynamicTablesProofs` | theorems about it | the proof system |

A definition written `...Forgets`, `...Never`, `...Twice` and marked "Mutant" is not part of any
specification: it is a plausible mistake in the operation it stands next to, kept to show that
the property named for it in `PROJECT.json` notices it.

### AcpiOsExecute

A call is a pair of a thread and a nesting level; `stage` says where each call is. The steps are
the points at which the code takes and leaves a lock: the increment under `gExecutionLock`
(`CountExecution`), the entry into the gate with the interrupts masked (`EnterGate`), the
return of the callback, which enables them (`CallbackReturn`), the decrement (`Uncount`), the
exit (`LeaveGate`). `IOMalloc` and `runAction` may fail. The wait is one turn of the loop per
step, a read of the counter (`WaitPoll`) and a sleep (`WaitSleep`); in the code there are 500
turns of 10 ms. `AcpiOsExtTerminate` is a wait followed by `FreeResources`. After that step the
locks are gone and the model stops: nothing is said of what a thread does with freed locks.

Two facts about its callers: of ACPICA only the notify dispatch (`evmisc.c:295`) executes anything
here, and nothing calls `AcpiOsExtTerminate` yet, whose comment asks to be called during
termination, while `AcpiOsWaitEventsComplete`, which ACPICA calls, is empty in `osdarwin.c`. The
module models the service as it is offered.

Assumed: the command gate exists (its creation with a null owner succeeds), one wait at a
time (it is the boot or the shutdown thread that waits), and a callback can do three things:
nest an execution, wait, return.

### AcpiOsCache and ObjectPool

Each section under the cache's spin lock is one step, everything after the unlock is a step of
its own: clearing an object before it is handed out, `IOMalloc` on a miss, `IOFree` when the
list is full. `ImplementsPool` is the refinement: an object in the pool is owned when a thread
has it, used when it is not all zero, and every step of the cache is a pool operation or
changes nothing the pool shows. `AcpiOsDeleteCache` destroys the lock it holds, so it is only
sound with no other thread in the cache; that is the contract of `AcpiTerminate`, and the model's.
`osdarwin.c` defines functions of ACPICA's own `utcache.c` too, since `ACPI_USE_LOCAL_CACHE` is set;
which of the two a build links is not decided here: the module models `osdarwin.c`'s.

### PciConfiguration

An access goes through the lazy search for the window, the choice of method, and then either
map, access, unmap or the two ports. Every global is stored in a step of its own. The data is
left out: what is tracked is the register that is reached, computed from the address the code
encodes and decoded the way the hardware does. `maps` counts the entries of the set of maps;
`AcpiOsUnmapMemory` calls a function of two parameters with one argument, so the map may stay, and
the model chooses. Requests come from two ACPICA callers: region accesses, which hold the
interpreter, and the bridge walk of a region's setup, which does not. The hardware answers in the
window for the buses of its allocation, and for no other; the code compares the bus of a
request with the two numbers it has stored, of which the first is the segment number
(`osdarwin.c:450`). What follows from that is part of `AccessReaches`: below the first bus of the window
nobody answers, and nowhere else. Registers need not be aligned to the width: region accesses are
aligned at most to their region's base, so the property says which aligned register the ports reach
then. `disturbed` and `lookupFailed` are history.

### AmlMutex

A semaphore is its free units and the queue of its waiters; a signal hands the unit to the
head. A thread enters the interpreter, acquires and releases mutexes, sleeps, and at the end of
its method releases all it has. A contended Acquire is the sequence of the code: try, leave the
interpreter, wait, come back, take ownership. What the kernel does with the deadline 0 is not in
this repository: `ZeroDeadline` is the set of things it may do. A timed wait may end at any moment,
because the code passes a duration where an absolute time is expected. Left out: sync
levels and the mutexes of methods, which are in `MethodExecution`, events, the namespace lock,
which is always taken with the interpreter's, and the mutex `_GL`: acquiring it takes the Global Lock
from the firmware, any thread may release it, and neither has to do with the OS layer's semaphores.

### AddressSpaceHandlers

Each of the two stores of a registration or removal, and each load of a read, is a step, in any
order: nothing in the code orders them. A read tests both members, and may load them again for the
call. A null handler that is called stops the model. `writes`, `mixed` and `overlapped` are
history: they single out the first registration of a space and the reads nothing disturbed. System
memory and I/O spaces have no state and are left out.

### NotifyHandlers and NotifyDelivery

One device and the root, each with a list for system and one for device notifications. A handler
object has a reference for each list it is in; an installation for both lists makes one object with
two links. Threads evaluate methods that notify (in the interpreter, which holds the namespace
too), install and remove handlers (with the namespace locked). `AcpiOsExecute` is what
`AcpiOsExecute.tla` shows of it: it calls back before it returns, on the thread that asks. So the
dispatch, which walks the list link by link and calls each handler, is under the locks of the
Notify operator. The reference that `AcpiUtRemoveReference` gives back is a step after the
namespace was unlocked, as in the code. A handler that wants a lock its own thread holds stops that
thread: this is what `notify_sync` is about.

`NotifyDelivery` has no lists, objects, references or locks: for each kind of notification a set of
handlers, and for each thread the calls it still has to make. `ImplementsDelivery` is the refinement. A
list shows the handlers of its objects; a dispatch shows the global handler, until it is called, and the
handlers of the objects from its cursor on. So the promise is that a notification calls all that
is installed when it is made, each once, the global handler first, whatever other threads do
meanwhile, unless the request cannot be made or a handler hangs.

### MethodExecution

A thread has a stack of frames, the methods it executes. Beginning a method is the sequence of the
code: the tests of the thread count, the creation of a mutex for a serialized method, the order of
levels, the wait for the mutex (in the interpreter if it is free, outside otherwise), the level,
the owner id, the count. Terminating one is the converse, and the objects the method has created
are deleted outside the interpreter when its last thread leaves. A method that meets a name it has
already created (AE_ALREADY_EXISTS) is marked, and becomes serialized when its last thread has left.
The deletion is two traversals of the namespace in the code, one below the method and one by its
owner id; they are one step here, at a time when nobody is in the interpreter, since each takes the
namespace's mutex and others change objects with both. An evaluation that finds no memory for its
thread state (`psparse.c:585`) has done nothing to a plain method, and is in the model as one that ends
at once; that it terminates a serialized one with a null thread is left out, and so is the return
without terminating the callers for want of memory for an implicit value (`psparse.c:765`), which only
`AcpiGbl_EnableInterpreterSlack` leads to, and nobody sets it.
Entries fail at three places, of which two (`NoOwnerId`, `NoWalkState`) leave the method's mutex in a
state no later entry repairs: such a method is `damaged`, and the properties leave it out from then
on. Acquire and Release compare the levels, and the list of acquired mutexes carries the levels that
a release restores. A method that returns with a mutex it acquired leaves the thread `skewed`: its
level is that of before the call, below the mutex. `damaged`, `skewed` and the creators of objects
are history.

### DynamicTables

A thread has calls of several levels; those below the innermost one are walks inside their user
function, which is what lets a user function walk, load or evaluate. The reader/writer lock is its
three variables: a first reader keeps the `ReaderMutex` until it has the `WriterMutex`, the last one
gives it up. Loading is the sequence of `AcpiNsLoadTable`: look at the flag, allocate an owner id,
execute the table as a method inside the interpreter (which it leaves while module-level code
sleeps), set the flag, initialize, walk; if it fails, delete the nodes with the table's id, without
the write lock, and release the id. Where the owner id is read and where it is used are different
steps (`GetOwnerId`): in between a load waits for the interpreter or for the namespace. Unloading is
that of `AcpiTbUnloadTable`: look at the flag, read
the id, take the write lock, delete, unlock, release the id, clear the flag. Control methods load
and unload outside the interpreter; that the `Unload` operator warns it is not supported, and then
unloads, is the code's. Owner ids are shared with methods, so that there may be none at any time
(`NoOwnerId`).

Each table defines one object, at the root or inside the object of another table (`Within`), which
gives the namespace a shape: a load whose scope does not exist fails, a walk meets nodes in the order of
their scopes and of their creation (`before`), and a deletion takes a node with all below it, whoever owns
that (`Doomed`), as `AcpiNsDeleteChildren` does. A walk whose node is deleted under its user
function goes on from freed memory: the model lets it go on anywhere.

Loads of one table may overlap each other and its unloads, and two unloads of one table may overlap:
nothing in the code keeps a second one from finding the flag still set. It then deletes by an id, and gives
one back, that a new load or another table may have by now. The history variable `twice` is the set of
tables to which this has happened, and the properties say what holds for the others. Assumed: the thread that
unloads is not walking (`MayUnload`), since the write lock would wait for its own read lock. `Overlapping` is a
bound for TLC, the tables whose unloads may overlap; in the theorems it is any set of tables, also all.

## 3. Runs

| Run | Instance | What it shows |
|---|---|---|
| `execute` | 2 threads, nesting 2, 2 polls | the count, the gate, the drain and the interrupt flag on every path; every execution and every wait returns |
| `teardown` | the same | violation: the teardown frees the locks under pending executions |
| `cache` | 2 threads, 3 objects, depth 2 | no object lost, shared or freed twice; the cache implements `ObjectPool` |
| `pci` | 3 threads, a window of bus 1, requests below, in and beyond it, aligned or not | accesses reach their registers, or nobody below the window; the window is whole; maps last |
| `mutex` | 3 threads, 1 mutex, depth 2, every timeout, both meanings of deadline 0 | one place for each unit; ownership changes only inside the interpreter; every Acquire returns |
| `mutex_zero` | 2 threads, 1 mutex, deadline 0 is none | violation: a thread waits for a mutex inside the interpreter |
| `handlers` | 3 threads, 3 clients, 3 writes | a first registration is whole; an undisturbed read is that of one moment |
| `notify` | 2 threads, 2 handlers, 2 objects | references are links; a handler that runs is installed; the lists and the dispatch implement `NotifyDelivery` |
| `notify_sync` | the same | violation: a handler runs on a thread that holds the interpreter |
| `methods` | 2 threads, 2 mutexes of level 2, a serialized method of level 3 and a plain one that may turn serialized, nesting 2, depth 2, 1 failure, thread limit 2 | serialized methods exclude; counts are exact; no circle; levels are right; objects stay |
| `methods_objects` | the same | violation: the objects of a plain method are deleted under a thread that has just entered |
| `tables` | 2 threads, one of them nesting 2, 2 tables, one inside the other and unloaded by both threads at a time, 2 owner ids | no unload takes a node from a user function; nodes belong to their table and go with it or with their scope's; every call ends |

**Bounds.** Where there are three threads, they give a third party to every race between two: a holder,
a waiter and one that comes in between. In `execute` two threads with two levels each are four calls, and the
proofs cover any number. Nesting 2 has a call within a call, where the recursive gate, the
interrupt flag and the innermost-call rule differ from the plain case; a third level repeats
the second. Two polls separate the first read, the last and the timeout; the loop's body does not
depend on how many there are. A cache two deep has an empty, a half full and a full list, and
three objects overfill it. Requests cover each method, widths that are served and one that is refused, an extended register, one that
is not aligned, and a bus below, one inside and one beyond the window. Three registrations and removals give a first
registration, a replacement, and a removal after or between them; a read changes nothing
that others see, so one reader at a time is enough. An acquisition depth of 2 separates the
last release from the others. Two handlers and the two lists give an object in one list, in both,
before and after another one; two threads are a notification beside a change, or two changes, one of them between
the unlocking and the release of the reference, and the proofs cover any number. In `methods`, two mutexes of one level can be released in either
order, the serialized method's level lies above theirs and the plain one's below, so that both
orders of entering and acquiring happen; nesting 2 has a method called by itself and by
the other; a limit of 2 for the thread count (255 in the code) is reached. Once a failure has left a
method's mutex behind, the run follows only what comes of it (`FollowFailure`), and its
view leaves out history that has no effect any more. In `tables`, three readers overlap (a walk, one
in its user function, one beside it), two tables take both ids and exchange them; the object of one is
inside that of the other, so that a deletion takes one node or two. One of the two may be unloaded by both
threads at a time: a stale id is then that of the same table, loaded again, or of the other. What the proofs
cover holds without these bounds.

**Symmetry** is used only in runs that check no liveness, over threads, clients or mutexes that the
specification does not tell apart.

**Deadlock** is checked everywhere except in three runs, whose system may really stop. `mutex`:
everyone does when a wait with deadline 0 blocks in the interpreter. `notify`: a handler that
evaluates a method waits for the interpreter its own thread holds. `methods`: threads wait for a
mutex that a failed entry or a skewed level never releases; that they do not wait in a
circle otherwise is `NoCircularWait`.

**Fairness.** `AcpiOsExecute`: a thread that can go on does (weak fairness of the non-blocking
steps of a call and of the wait's loop). The gate is a sleeping lock that others take and give up all
the time, so its entry needs strong fairness; so does the return of a callback, which is disabled
whenever it nests another execution and nothing bounds how often. Weak fairness is not assumed of
asking for work, nor of failing. `AmlMutex`: weak fairness of the steps a thread makes on its way,
since the semaphores are queues, and of waking from a sleep; strong fairness of the end of a
method, which ACPICA enforces by aborting loops (`AcpiGbl_MaxLoopIterations`) even if the method
leaves the interpreter over and over. `DynamicTables`: strong fairness of the next step of every
call, innermost calls first: a user function returns, and what a call waits for (the interpreter,
the two mutexes) is a semaphore, which serves its waiters in order, so a thread that finds it free
again and again gets it. `CallsReturn` needs a condition, which it names: loads do not fail
again and again, since each failure takes nodes away and lets new ones be put before the walks. And it
has an exception: an unload waits for ever (`Starved`) when the walks never leave a gap, since the lock
prefers readers. Nobody has to
begin a call. The other modules state safety only.

**Findings.** Four statements of the sources are contradicted by what the code does:

1. "Wait for all pending executions to complete" (`AcpiOsLayer.cpp:509`): the wait may time out, or
   an execution may come in behind it, and the locks are freed all the same (`teardown`).
2. "If it is not, the interpreter is released before waiting" (ACPICA's `exsystem.c:220`): the OS
   layer turns "do not wait" into the deadline 0, which in Mach is no deadline (`mutex_zero`). This
   one rests on the kernel, which is not in the repository: in XNU a wait with deadline 0 sets no timer.
3. "The notify handlers are NOT invoked synchronously from this thread" (ACPICA's `exoparg2.c:240`):
   `AcpiOsExtExecute` runs the callback before it returns, with the interpreter still locked
   (`notify_sync`).
4. "There are other threads executing the method, in which case we will wait until the last thread
   has completed" (ACPICA's `dsmethod.c:919`): the last thread leaves the interpreter before it
   deletes the objects, and one that enters there loses its own (`methods_objects`).

Two more are hazards without a run of their own: the segment number that is stored as the first bus
(`osdarwin.c:450`), and the removal of a handler that does not look at which one it is asked to
remove (`PDACPIPlatformExpert.cpp:358`).

What the passing properties had to except is as telling: region accesses through the ports do race with
the bridge walk of a region's setup (`disturbed` in `AccessReaches`); one failed lookup of the MCFG leaves a
window that changes under its users (`lookupFailed`); a read that races a replaced handler may
mix a handler with another's context (`overlapped`, `mixed`); through the ports an extended register
becomes its alias, and one that is not aligned the aligned one below it; an access below the window reaches
nobody; a load that fails does take nodes from under walks (`OnlyFailedLoadsDangle`); a
load that saw a table unloaded just before another thread loaded and unloaded it can leave its nodes
with a table that is not marked loaded (`NodesOwned` speaks of ids and nodes, not of the flag); a table that
two threads unload at a time may lose its nodes to another's id, or another table its own to it (`twice`); a
loaded table whose object is inside another's may be without it; methods are exempt
once they are damaged, threads once they are skewed.

## 4. Proofs

The theorems hold for every value of the constants that satisfies the module's assumption. Each is
proved from an invariant that is inductive: the initial states satisfy it, one lemma per action (or
group of actions with the same effect) shows that a step keeps it, and the property follows.

| Module | Theorem | Property |
|---|---|---|
| `AcpiOsExecuteProofs` | `TypeCorrect` | `TypeOK` |
| | `PendingIsExact` | `PendingExact` |
| | `DrainedIsDone` | `DrainedMeansDone` |
| | `GateIsDisciplined` | `GateDiscipline` |
| | `InterruptsAreRestored` | `InterruptsRestored` |
| | `CallbackNeverDrains` | `NoDrainFromCallback` |
| `AcpiOsCacheProofs` | `TypeCorrect` | `TypeOK` |
| | `NothingLost` | `OnePlace` |
| | `DepthCorrect` | `DepthExact` |
| | `CacheImplementsPool` | `ImplementsPool` |
| `PciConfigurationProofs` | `TypeCorrect` | `TypeOK` |
| | `AccessesReach` | `AccessReaches` |
| | `WindowIsWhole` | `WindowComplete` |
| | `MapsLast` | `MapsCoverAccesses` |
| `AmlMutexProofs` | `TypeCorrect` | `TypeOK` |
| | `UnitsAreKept` | `OneUnit` |
| | `LeavesNothing` | `NothingLeftBehind` |
| | `OwnersUnderInterpreter` | `OwnerUnderInterpreter` |
| | `WaitersLeave` (if the deadline 0 is never none) | that of the run `mutex_zero` |
| `AddressSpaceHandlersProofs` | `TypeCorrect` | `TypeOK` |
| | `FirstIsWhole` | `FirstRegistrationWhole` |
| | `QuietReads` | `QuietRead` |
| `NotifyHandlersProofs` | `TypeCorrect` | `TypeOK` |
| | `DispatchExclusive` | `DispatchIsExclusive` (checked by no run) |
| | `ReferencesMatchLinks` | `RefsMatchLinks` |
| | `HandlersAreInstalledOnce` | `OneObjectPerHandler` |
| | `WhatRunsIsInstalled` | `RunningIsInstalled` |
| | `HandlersImplementDelivery` | `ImplementsDelivery` |
| `MethodExecutionProofs` | `TypeCorrect` | `TypeOK` |
| | `MethodsExclude` | `SerializedExcludes` |
| | `MethodsCount` | `EntriesCounted` |
| | `MethodsKeepObjects` | `SerializedKeepsObjects` |
| | `MethodsKeepLevels` | `LevelIsHighestHeld` |
| | `MethodsWaitInOrder` | `NoCircularWait` |
| `DynamicTablesProofs` | `TypeCorrect` | `TypeOK` |
| | `NodesAreOwned` | `NodesOwned` |
| | `NodesGo` | `NodesGoWithTheirTable` |
| | `UnloadsSpareWalks` | `OnlyFailedLoadsDangle` |

**AcpiOsExecute**: every safety property of the run `execute`, for any finite set of
threads, any nesting and any number of polls, from `ExecuteAssumption` alone. The type invariant is
not inductive as it stands: `LeaveGate` decrements `gateCount` and `WaitSleep`
increments `polls`. `Typing` adds what keeps them in range: `GateCounts`, the gate's count is the
number of calls inside it, and `WaitInv`, which says where the loop is when it may still poll and that
a waiting thread is idle or in a callback. On it rest `CountInv` (the pending count is the number of calls in
the counted stages, what the last wait owes is among them, and a drained wait owes nothing) and
`OwnerInv` (every call inside the gate is its owner's, and the gate is free exactly when its count is
zero). `InterruptsRestored` is inductive beside `Typing`. The counting steps are four lemmas about how one call's move
changes the number of calls in a set of stages (`SameStages`, `EnterStages`, `LeaveStages`,
`StagesCardinality`); each action then uses the one for its move.

**AcpiOsCache**: `OnePlace`, the exact depth, and `OnItsWay`: a thread that clears or frees an object
has one. A step moves one object between two places (the heap, the list, a thread's way outside the
lock, a thread's hands) or empties the list; the first lemmas say what it makes of each place as a set, and what
is left of `OnePlace` is the algebra of those sets. The refinement follows step by step: each action is shown to
be one of `ObjectPool` or to change nothing of what the pool shows. It needs the invariant: that an
object a thread acquires was owned by nobody is `OnePlace`.

**PciConfiguration**: `Counted`, every thread that uses a mapping has one of those that are in the set;
`WindowPublished`, the flag is set only behind complete bounds, unless a lookup failed; `Asked`, a request is
one of those that can be made; `Addressed`, the address a thread has computed, and the latch if nobody
disturbed it, are those of its request. The arithmetic of the encodings is apart, in lemmas over
all buses, devices, functions and registers (`PortFields`, `MmioFields`): what `\div` and `%` take out is what
was put in, and for the ports a register that is not aligned becomes the aligned one below it
(`LowBits`). The theorems need no more than `PciAssumption`, which has the ranges of the hardware: requests
of any segment, window and alignment. For a bus that the code takes for one of the window's (`InWindow`) the
published bounds say that it is not above the last one, so the window answers or the bus is below the first:
that is all the code's comparison with the segment number comes to.

**AmlMutex**: what a thread may do to one lock is one of six moves: nothing, settle with a unit it was handed,
take the unit, join the queue, signal, quit the queue. `Local` is what is said of one lock: its unit is
free or with exactly one thread (its holder, or one that was handed it), its queue has every
waiter once, and while somebody waits no unit is free. One lemma for each move shows that it survives,
and each action is, on each lock, one of them. `WaitersLeave` states what `mutex_zero` violates, under the one
condition that fails there: that the kernel does not take the deadline 0 for none. So that run's
violation has no other cause.

**AddressSpaceHandlers**: the three parts are `FirstOf` a space, while at most one write was begun there it is a
registration, each member went from null to its client once, and what was loaded stays
true; `OwnPair`, while no two writers meet in a space, what the writer has stored stays as it
stored it, and when nobody writes the context is the handler's or null; `QuietOf` a thread,
beside a read that was not overlapped nobody writes, so what it loaded is what is there.

**NotifyHandlers**: the type invariant, with what a dispatch needs to be typed, and `Locked`, which
ties the interpreter and the namespace to the places of the threads: it makes a dispatch exclusive for any
threads, handlers and objects. The rest is about linked lists. A list is the least set of objects that has the
head and with each object its next (`Reachable`), a form of "follow the links" that needs no induction:
`ReachableIsClosed` and `ReachableIsLeast` are all the proofs use. `ListInv` says that every list is a path
(`Path`: nothing leads back to the head, no two objects have the same next), that an object has as many
references as lists it is in and removals that let go of it, the latter finitely many (`Counted`), and that no list has two
objects of a handler. `ReachablePush`, `ReachableUnlink` and `ReachableSame` say what an installation, a
removal and the freeing of an unlinked object make of a list: a removal that leaves the links of the removed
object as they are takes out that object and nothing else only because the list is a path. That a dispatch never meets a
freed object follows: the one change made without the namespace lock is to an object whose last
reference is that of its removal, so it is in no list (`Unreferenced`).

Its refinement of `NotifyDelivery` rests on all of that and on `DeliveryInv`: an object in a list has a
handler (`Named`), a queued request is still at the head of its list (`AtHead`), and what runs is a handler
(`HasHandler`). The one new fact about lists is `ReachableRest`: a path does not come back, so the objects that
follow one are those reachable from it, without it. Then each action maps to the step of the same meaning or
to a stutter: the end of a dispatch is a stutter, since nothing is due at the end of a list, and so are the
locks and the references. `DispatchExclusive` makes the abstract changes wait: whoever has the namespace knows
that nobody delivers.

**MethodExecution**: the types, with the places of a thread that must have a frame; and exclusion, from
five parts. `UnitInOnePlace`: the one unit of an existing mutex is free, with its owner, or one thread
comes back with it from its wait. `Counted`: a method's thread count is the number of frames that have
entered it, and within its limit. `MutexFollows`: who executes a serialized method owns its mutex, which
is as deep as the thread has frames in the method.
`Listed`: an AML mutex is in the list of its owner, once, and in no other. With the types they are
inductive, for any nesting, any failures and any number of threads; a damaged method is left out, as in
the properties. The objects, the levels and the order of waiting rest on these and on `FurtherInv`, whose parts are
`Order` (the thread counts cover the frames of damaged methods too, a declaration stays as it was, a
serialized method's mutex is owned by a thread that is in it, and a thread that waits has asked for a level not
below its own, for a mutex it does not have); `LeavesAlone`, who is about to delete the objects of a serialized
method is the last in it; `Taken`, its mutex was taken with the first entry; and `Chained`,
the current level of a thread is the highest of what it holds, and what each held mutex will restore is the highest
of what was held when it was acquired. The last is what makes a release in the reverse order
restore the right level, and it is a statement about a sequence: the lemmas `ChainPush`, `ChainPop`, `ChainRemove` and
their companions say what one more or one less makes of it, and `Classes` sorts the actions by which
of them they are. For the circle: one of its threads waits at a level
no other's exceeds (`Peak`); the owner of what it wants has a current level at or above that
(`LevelOfOwner`) and waits at or above its own, so both wait at the same level.

**DynamicTables**: `Typing`; `Locked`, in which the number of readers is the number of walks that have
the read lock or are to be the first, a first reader is alone until it has the `WriterMutex`, and an
unload that deletes is alone; and `Owning`. `NodesOwned` is not inductive: a node gets its owner id from
what its load has read before it waited for the interpreter, and deletions go by ids that were read before
they waited for a lock. `Owning` says, of a table that was never unloaded twice at a time, whose the
id is at every place on the way (`TableInv`): a load that has it is alone with its table's id (`LoadInv`), an
unload that has found the flag set is the only one, no load has the id while it is about to delete, and after
the deletion the table has no node until the id is given back (`UnloadInv`); a table that is marked loaded has
an id that no load holds, unless its flag is about to be cleared (`FlagInv`). So an id that was read is
still the table's when it is used, however calls overlap. `RootInv` adds where the node must be there. For a
table in `twice` nothing of this is said, and nothing of the others depends on it, since no two tables have
one id: this is what makes `OwnedBy` go through, by which a deletion takes nodes of its own table, of tables
inside it, and of tables in `twice`. Each action is a turn of one call (`Turns`) that changes what one
table has; `OtherTable` and `RootKept` carry what is said of the rest. For any finite set of
threads, any nesting, any tables and scopes.

Only model-checked: liveness (fairness and `ENABLED` are out of the prover's reach). Every safety
property of a passing run is proved.

## 5. Not modelled

- The platform expert's start, its table catalogue and the power off: one thread at boot, whose
  difficulty is reads of memory that was never written, not an order of steps.
- `AcpiOsAcquireLock` and the interrupt flag: left for later. The hazard at `osdarwin.c:747` names
  what a model of it would show.
- Events and the semaphore that a reset deletes under its waiters: left for later.
- Of dynamic tables: their installation, the `LoadTable` operator, removal by handle, objects below the
  second level, and the contents of tables. An unload by a thread that is walking (it waits for
  itself). Of AML mutexes: the Global Lock. Of methods: arguments, results and what the interpreter computes with them.
- Memory and port access, allocation, printing, time: single calls into the kernel, no state.
- `AcpiOsReadPCIConfigSpace` of `AcpiOsLayer.cpp`: nothing calls it.
- The general purpose events: `initializeACPICA` enables ACPICA with `ACPI_NO_EVENT_INIT` and
  `ACPI_NO_HANDLER_INIT`, so their dispatch is not reached.
- CPU, RTC, root bridge and interrupt controller: stubs.
- The rest of ACPICA, which is most of the repository's lines: the AML parser and interpreter's
  operators, the compiler, disassembler, debugger and tools, headers of table layouts, and OS layers for
  other systems. It is vendored, the driver does not build the tools, and the sequential parts
  have no order of steps to check.

## 6. Plan

Done, in this order: the execution service and its proofs, the object cache with its abstract pool,
PCI configuration space, the address space handlers, the AML mutexes, the notify handlers with their dispatch
through the execution service, the methods with sync levels, the dynamic tables, and proofs
about each of them.

What remains, most important first:

1. `Events`: waiting, signalling and resetting, over the semaphores.
2. `SpinLocks`: nested acquisition, and acquisition from an interrupt handler, against the interrupt
   flag; an abstract lock that restores the flag as the specification to compare with.
3. `PlatformStart`: the boot sequence with every failure, the catalogue and the MCFG.
