---------------------------- MODULE DynamicTables ----------------------------
(***************************************************************************)
(* ACPI tables loaded into the namespace and unloaded while others walk    *)
(* it. A walk calls a user function for every node, without the namespace  *)
(* mutex, and the function may evaluate methods, walk or load tables. What *)
(* keeps a node alive under it is a reader/writer lock made of two mutexes *)
(* and a count: walks read, unloads write. A load that fails deletes what  *)
(* it has created without that lock.                                       *)
(*                                                                         *)
(* A thread has calls of several levels: those below the innermost one are *)
(* walks inside their user function. The namespace mutex is only ever held *)
(* inside the interpreter or for one step here. A table defines one object *)
(* here, named as the table, at the root or inside the object of another   *)
(* table. Left out: deeper trees, temporary nodes, which walks ignore, and *)
(* the buffers and validation of the table list.                           *)
(***************************************************************************)
EXTENDS Integers, FiniteSets

CONSTANTS Threads,
          Tables,     (* installed tables that can be loaded: their indices  *)
          OwnerIds,   (* the owner ids there are; 0 is none                  *)
          Nobody,
          Within,     (* by table, the one in whose object its own is put    *)
          Overlapping, (* bound: the tables that two threads unload at a time *)
          MaxLevel    (* by thread, a bound on the nesting of its calls      *)

ASSUME TablesAssumption == /\ OwnerIds \subseteq Nat \ {0}
                           /\ Nobody \notin Threads \cup Tables
                           /\ Within \in [Tables -> Tables \cup {Nobody}]
                           /\ \A tb \in Tables : Within[tb] # Nobody => Within[Within[tb]] = Nobody
                           /\ Overlapping \subseteq Tables
                           /\ MaxLevel \in [Threads -> Nat \ {0}]
                           /\ IsFiniteSet(Threads)

Calls == UNION {{t} \X (1..MaxLevel[t]) : t \in Threads}
Ids   == OwnerIds \cup {0}

VARIABLES loaded,       (* by table, ACPI_TABLE_IS_LOADED                    *)
          ownerId,      (* by table, its OwnerId                             *)
          node,         (* by table whose object exists, its node's OwnerId  *)
          before,       (* pairs of nodes, in the order in which walks meet them *)
          numReaders,   (* NumReaders of AcpiGbl_NamespaceRwLock             *)
          readerMutex,  (* its ReaderMutex is taken                          *)
          writerMutex,  (* its WriterMutex is taken                          *)
          interpreter,  (* the thread in the interpreter                     *)
          call,         (* by thread and level, the call and where it is     *)
          twice         (* history: the tables that two unloads found loaded *)
                        (* before the first of them was through              *)

nodeVars  == <<node, before>>
tableVars == <<loaded, ownerId, nodeVars>>
lockVars  == <<numReaders, readerMutex, writerMutex>>
vars      == <<tableVars, lockVars, interpreter, call, twice>>

\* With a read lock; a walk whose node has been deleted has no node that exists.
Visiting  == {"callback", "returned"}
NodeGone  == {"dangling", "gone"}
Walking   == {"next", "unread"} \cup Visiting \cup NodeGone
Loading   == {"check", "allocate", "allocated", "enter", "parse", "created", "away",
              "resumed", "flag", "initialize", "failing", "failed", "release"}
Unloading == {"test", "owner", "write", "delete", "unlock", "free", "unflag"}
Place     == {"idle", "method", "read", "first"} \cup Walking \cup Loading
                 \cup Unloading

Call == [at    : Place,
         table : Tables \cup {Nobody},   (* its table, or a walk's node       *)
         id    : Ids]                    (* the OwnerId it has read           *)

Idle == [at |-> "idle", table |-> Nobody, id |-> 0]

Init == /\ loaded = [tb \in Tables |-> FALSE]
        /\ ownerId = [tb \in Tables |-> 0]
        /\ node = <<>>
        /\ before = {}
        /\ numReaders = 0
        /\ readerMutex = FALSE
        /\ writerMutex = FALSE
        /\ interpreter = Nobody
        /\ call = [c \in Calls |-> Idle]
        /\ twice = {}

At(c, where)   == call[c].at = where
Goto(c, where) == call' = [call EXCEPT ![c].at = where]
Forget(c, where) == call' = [call EXCEPT ![c].at = where, ![c].id = 0]
Table(c)       == call[c].table

\* The interpreter and, with it, the namespace mutex can be had.
NamespaceFree == interpreter = Nobody

Become(c, where) == call' = [call EXCEPT ![c] = [Idle EXCEPT !.at = where]]
Return(c)        == call' = [call EXCEPT ![c] = Idle]

\* A thread that does nothing, or the user function of its innermost walk, may
\* begin this call.
MayBegin(c) ==
    /\ At(c, "idle")
    /\ c[2] > 1 => call[<<c[1], c[2] - 1>>].at \in {"callback", "dangling"}

Begin(c, where, tb) ==
    /\ MayBegin(c)
    /\ call' = [call EXCEPT ![c] = [Idle EXCEPT !.at = where, !.table = tb]]

-----------------------------------------------------------------------------
(* Control methods: they load and unload tables outside the interpreter.    *)
(* Left out: what the method does after it, when it has entered it again.   *)

EnterMethod(c) ==
    /\ NamespaceFree
    /\ Begin(c, "method", Nobody)
    /\ interpreter' = c[1]
    /\ UNCHANGED <<tableVars, lockVars>>

FromMethod(c, where, tb) ==
    /\ At(c, "method")
    /\ interpreter' = Nobody
    /\ call' = [call EXCEPT ![c] = [Idle EXCEPT !.at = where, !.table = tb]]

EndMethod(c) ==
    /\ At(c, "method")
    /\ interpreter' = Nobody
    /\ Return(c)
    /\ UNCHANGED <<tableVars, lockVars>>

-----------------------------------------------------------------------------
(* AcpiWalkNamespace under the read lock                                    *)

AcpiWalkNamespace(c) ==
    /\ Begin(c, "read", Nobody)
    /\ UNCHANGED <<tableVars, lockVars, interpreter>>

\* Mutant: a reader is counted as the first only.
CountFirst == numReaders' = 1

CountReader == numReaders' = numReaders + 1

\* The first reader keeps the ReaderMutex until it has the WriterMutex.
AcpiUtAcquireReadLock(c) ==
    /\ At(c, "read")
    /\ ~readerMutex
    /\ CountReader
    /\ readerMutex' = (numReaders = 0)
    /\ Goto(c, IF numReaders = 0 THEN "first" ELSE "next")
    /\ UNCHANGED <<tableVars, writerMutex, interpreter>>

FirstReader(c) ==
    /\ At(c, "first")
    /\ ~writerMutex
    /\ writerMutex' = TRUE
    /\ readerMutex' = FALSE
    /\ Goto(c, "next")
    /\ UNCHANGED <<tableVars, numReaders, interpreter>>

UserFunctionReturns(c) ==
    /\ call[c].at \in {"callback", "dangling"}
    /\ Goto(c, IF At(c, "callback") THEN "returned" ELSE "gone")
    /\ UNCHANGED <<tableVars, lockVars, interpreter>>

First(S)  == {tb \in S : \A u \in S \ {tb} : <<tb, u>> \in before}
After(tb) == {u \in DOMAIN node : <<tb, u>> \in before}

\* Mutant: the walk goes on at the node it has visited.
SamePeer(c) == CASE At(c, "next")     -> First(DOMAIN node)
                 [] At(c, "returned") -> {Table(c)}
                 [] OTHER             -> DOMAIN node

\* Where a walk goes on: at the first node, at the next one after the node it has
\* visited, and anywhere if that node was deleted.
Following(c) == CASE At(c, "next")     -> First(DOMAIN node)
                  [] At(c, "returned") -> First(After(Table(c)))
                  [] OTHER             -> DOMAIN node

\* With the namespace mutex again the walk goes on to the next node and its user
\* function, without the mutex, or is through: no node follows, or the function
\* has ended it.
AcpiNsWalkNamespace(c) ==
    /\ call[c].at \in {"next", "returned", "gone"}
    /\ NamespaceFree
    /\ \/ \E tb \in Following(c) :
              call' = [call EXCEPT ![c].at = "callback", ![c].table = tb]
       \/ /\ At(c, "next") => DOMAIN node = {}
          /\ Become(c, "unread")
    /\ UNCHANGED <<tableVars, lockVars, interpreter>>

\* Mutant: every reader releases the WriterMutex.
AnyReader == TRUE

LastReader == numReaders = 1

AcpiUtReleaseReadLock(c) ==
    /\ At(c, "unread")
    /\ ~readerMutex
    /\ numReaders' = numReaders - 1
    /\ writerMutex' = (writerMutex /\ ~LastReader)
    /\ Return(c)
    /\ UNCHANGED <<tableVars, readerMutex, interpreter>>

-----------------------------------------------------------------------------
(* AcpiNsLoadTable, by the host or by a method                              *)

AcpiLoadTable(c, tb) ==
    /\ Begin(c, "check", tb)
    /\ UNCHANGED <<tableVars, lockVars, interpreter>>

AcpiExLoadOp(c, tb) ==
    /\ FromMethod(c, "check", tb)
    /\ UNCHANGED <<tableVars, lockVars>>

CheckNotLoaded(c) ==
    /\ At(c, "check")
    /\ IF loaded[Table(c)] THEN Return(c) ELSE Goto(c, "allocate")
    /\ UNCHANGED <<tableVars, lockVars, interpreter>>

\* Mutant: an id is allocated over the one that is there.
AllocateOver(tb) == OwnerIds \ {ownerId[u] : u \in Tables}

\* Mutant: the bit of an id that is handed out is not set.
AllocateShared(tb) == IF ownerId[tb] # 0 THEN {} ELSE OwnerIds

\* What AcpiUtAllocateOwnerId can put into a table's OwnerId: an id in use there is
\* AE_ALREADY_EXISTS.
FreeIds(tb) == IF ownerId[tb] # 0 THEN {} ELSE OwnerIds \ {ownerId[u] : u \in Tables}

AllocateOwnerId(c) ==
    /\ At(c, "allocate")
    /\ \E i \in FreeIds(Table(c)) : ownerId' = [ownerId EXCEPT ![Table(c)] = i]
    /\ Goto(c, "allocated")
    /\ UNCHANGED <<loaded, nodeVars, lockVars, interpreter>>

\* Control methods use the same ids, so that AE_OWNER_ID_LIMIT may come at any time.
NoOwnerId(c) ==
    /\ At(c, "allocate")
    /\ Return(c)
    /\ UNCHANGED <<tableVars, lockVars, interpreter>>

\* A load reads its table's owner id, and then waits for the interpreter, to create
\* nodes with it, or for the namespace, to delete them.
GetOwnerId(c) ==
    /\ call[c].at \in {"allocated", "failing"}
    /\ call' = [call EXCEPT ![c].at = IF @ = "allocated" THEN "enter" ELSE "failed",
                            ![c].id = ownerId[Table(c)]]
    /\ UNCHANGED <<tableVars, lockVars, interpreter>>

\* The table is executed as one large method.
ParseTable(c) ==
    /\ At(c, "enter")
    /\ NamespaceFree
    /\ interpreter' = c[1]
    /\ Goto(c, "parse")
    /\ UNCHANGED <<tableVars, lockVars>>

\* The nodes that walks meet before a new one: it becomes the last in its scope.
Preceding(tb) ==
    LET scope == Within[tb]
    IN  {u \in DOMAIN node : scope = Nobody \/ u = scope \/ Within[u] = scope
                                \/ <<u, scope>> \in before}

\* The scope that the table names must be there, and the object not.
CreateNode(c) ==
    LET tb == Table(c)
    IN  /\ At(c, "parse")
        /\ tb \notin DOMAIN node
        /\ Within[tb] \in DOMAIN node \cup {Nobody}
        /\ node' = [u \in DOMAIN node \cup {tb} |-> IF u = tb THEN call[c].id ELSE node[u]]
        /\ before' = before \cup (Preceding(tb) \X {tb})
                            \cup ({tb} \X (DOMAIN node \ Preceding(tb)))
        /\ Forget(c, "created")
        /\ UNCHANGED <<loaded, ownerId, lockVars, interpreter>>

\* Module-level code sleeps or waits, and others see the objects created so far.
Pause(c) ==
    /\ At(c, "created")
    /\ interpreter' = Nobody
    /\ Goto(c, "away")
    /\ UNCHANGED <<tableVars, lockVars>>

Resume(c) ==
    /\ At(c, "away")
    /\ NamespaceFree
    /\ interpreter' = c[1]
    /\ Goto(c, "resumed")
    /\ UNCHANGED <<tableVars, lockVars>>

Parsed(c) ==
    /\ call[c].at \in {"created", "resumed"}
    /\ interpreter' = Nobody
    /\ Goto(c, "flag")
    /\ UNCHANGED <<tableVars, lockVars>>

\* An error in the table, a name that exists, or a scope that does not.
ParseFails(c) ==
    /\ call[c].at \in {"parse", "created", "resumed"}
    /\ interpreter' = Nobody
    /\ Forget(c, "failing")
    /\ UNCHANGED <<tableVars, lockVars>>

SetTableLoaded(c) ==
    /\ At(c, "flag")
    /\ loaded' = [loaded EXCEPT ![Table(c)] = TRUE]
    /\ Goto(c, "initialize")
    /\ UNCHANGED <<ownerId, nodeVars, lockVars, interpreter>>

\* AcpiDsInitializeObjects inside the interpreter, then the walk of
\* AcpiNsInitializeObjects, unless the first fails.
InitializeObjects(c) ==
    /\ At(c, "initialize")
    /\ NamespaceFree
    /\ Become(c, "read") \/ Return(c)
    /\ UNCHANGED <<tableVars, lockVars, interpreter>>

-----------------------------------------------------------------------------
(* Deletion: AcpiNsDeleteNamespaceByOwner, by a load that failed and by an  *)
(* unload                                                                   *)

Owned(i) == {tb \in DOMAIN node : i # 0 /\ node[tb] = i}

\* A node with the id goes, and with it "all children", whoever owns them.
Doomed(i) == {tb \in DOMAIN node : {tb, Within[tb]} \cap Owned(i) # {}}

\* A walk whose user function has such a node is left with one that is no more.
DeleteNamespaceByOwner(c, i, where) ==
    /\ NamespaceFree
    /\ node' = [tb \in DOMAIN node \ Doomed(i) |-> node[tb]]
    /\ before' = {p \in before : {p[1], p[2]} \cap Doomed(i) = {}}
    /\ call' = [d \in Calls |->
                   IF d = c THEN [call[d] EXCEPT !.at = where, !.id = 0]
                   ELSE IF call[d].at \in Visiting /\ Table(d) \in Doomed(i)
                   THEN [call[d] EXCEPT !.at = IF @ = "callback" THEN "dangling" ELSE "gone"]
                   ELSE call[d]]
    /\ UNCHANGED <<loaded, ownerId, lockVars, interpreter>>

DeleteFailed(c) ==
    /\ At(c, "failed")
    /\ DeleteNamespaceByOwner(c, call[c].id, "release")

ReleaseFailed(c) ==
    /\ At(c, "release")
    /\ ownerId' = [ownerId EXCEPT ![Table(c)] = 0]
    /\ Return(c)
    /\ UNCHANGED <<loaded, nodeVars, lockVars, interpreter>>

\* Who unloads is not walking: the write lock is no lock for the thread that has a
\* read lock. Nothing keeps two threads from unloading one table at a time.
MayUnload(c, tb) ==
    /\ c[2] = 1
    /\ tb \notin Overlapping => \A d \in Calls : call[d].at \in Unloading => Table(d) # tb

AcpiUnloadTable(c, tb) ==
    /\ MayUnload(c, tb)
    /\ Begin(c, "test", tb)
    /\ UNCHANGED <<tableVars, lockVars, interpreter>>

AcpiExUnloadTable(c, tb) ==
    /\ MayUnload(c, tb)
    /\ FromMethod(c, "test", tb)
    /\ UNCHANGED <<tableVars, lockVars>>

Unloads(c, tb) == call[c].at \in Unloading \ {"test"} /\ Table(c) = tb

CheckLoaded(c) ==
    /\ At(c, "test")
    /\ IF loaded[Table(c)] THEN Goto(c, "owner") ELSE Return(c)
    /\ twice' = twice \cup {tb \in {Table(c)} : loaded[tb] /\ \E d \in Calls : Unloads(d, tb)}
    /\ UNCHANGED <<tableVars, lockVars, interpreter>>

ReadOwnerId(c) ==
    /\ At(c, "owner")
    /\ call' = [call EXCEPT ![c].at = "write", ![c].id = ownerId[Table(c)]]
    /\ UNCHANGED <<tableVars, lockVars, interpreter>>

AcpiUtAcquireWriteLock(c) ==
    /\ At(c, "write")
    /\ ~writerMutex
    /\ writerMutex' = TRUE
    /\ Goto(c, "delete")
    /\ UNCHANGED <<tableVars, numReaders, readerMutex, interpreter>>

DeleteUnloaded(c) ==
    /\ At(c, "delete")
    /\ DeleteNamespaceByOwner(c, call[c].id, "unlock")

AcpiUtReleaseWriteLock(c) ==
    /\ At(c, "unlock")
    /\ writerMutex' = FALSE
    /\ Goto(c, "free")
    /\ UNCHANGED <<tableVars, numReaders, readerMutex, interpreter>>

ReleaseOwnerId(c) ==
    /\ At(c, "free")
    /\ ownerId' = [ownerId EXCEPT ![Table(c)] = 0]
    /\ Goto(c, "unflag")
    /\ UNCHANGED <<loaded, nodeVars, lockVars, interpreter>>

ClearTableLoaded(c) ==
    /\ At(c, "unflag")
    /\ loaded' = [loaded EXCEPT ![Table(c)] = FALSE]
    /\ Return(c)
    /\ UNCHANGED <<ownerId, nodeVars, lockVars, interpreter>>

-----------------------------------------------------------------------------
WalkStep(c) == \/ AcpiUtAcquireReadLock(c) \/ FirstReader(c) \/ AcpiNsWalkNamespace(c)
               \/ UserFunctionReturns(c) \/ AcpiUtReleaseReadLock(c)

LoadStep(c) == \/ CheckNotLoaded(c) \/ AllocateOwnerId(c) \/ NoOwnerId(c) \/ GetOwnerId(c)
               \/ ParseTable(c) \/ CreateNode(c) \/ Pause(c) \/ Resume(c)
               \/ Parsed(c) \/ ParseFails(c) \/ SetTableLoaded(c) \/ InitializeObjects(c)
               \/ DeleteFailed(c) \/ ReleaseFailed(c)

UnloadStep(c) == \/ ReadOwnerId(c) \/ AcpiUtAcquireWriteLock(c)
                 \/ DeleteUnloaded(c) \/ AcpiUtReleaseWriteLock(c)
                 \/ ReleaseOwnerId(c) \/ ClearTableLoaded(c)

\* A user function that has made a call waits for it.
Innermost(c) == \A d \in Calls : d[1] = c[1] /\ d[2] > c[2] => At(d, "idle")

\* What a call does, once begun, to come to its end.
Proceed(c) == /\ Innermost(c)
              /\ \/ CheckLoaded(c)
                 \/ UNCHANGED twice /\ (WalkStep(c) \/ LoadStep(c) \/ UnloadStep(c) \/ EndMethod(c))

Start(c) == /\ UNCHANGED twice
            /\ \/ AcpiWalkNamespace(c) \/ EnterMethod(c)
               \/ \E tb \in Tables : \/ AcpiLoadTable(c, tb) \/ AcpiExLoadOp(c, tb)
                                     \/ AcpiUnloadTable(c, tb) \/ AcpiExUnloadTable(c, tb)

Next == \E c \in Calls : Start(c) \/ Proceed(c)

\* Threads go on, user functions return, and the semaphores that the mutexes are
\* serve their waiters in order: whoever can go on again and again, does.
Fairness == \A c \in Calls : SF_vars(Proceed(c))

Spec == Init /\ [][Next]_vars /\ Fairness

-----------------------------------------------------------------------------
(* Properties                                                              *)

\* The variables keep their types; as many readers are counted as walks there are.
TypeOK ==
    /\ loaded \in [Tables -> BOOLEAN]
    /\ ownerId \in [Tables -> Ids]
    /\ DOMAIN node \subseteq Tables /\ node \in [DOMAIN node -> Ids]
    /\ before \subseteq (DOMAIN node) \X (DOMAIN node)
    /\ numReaders \in 0..Cardinality(Calls)
    /\ readerMutex \in BOOLEAN
    /\ writerMutex \in BOOLEAN
    /\ interpreter \in Threads \cup {Nobody}
    /\ call \in [Calls -> Call]
    /\ twice \subseteq Tables

Named(tb) == {tb, Within[tb]}   \* the table of a node, and that of its scope

\* "We cannot allow the deletion of a namespace node while the user function is
\* using it": an unload never does it, however walks of several threads, and walks
\* nested in one thread, overlap and end, and unloads of one table too. Only a load
\* that fails does, which has not taken the write lock, and only to its table's node
\* and those below it. Two unloads of one table void that last part: a load of this
\* table may go by an id, or its node have one, that is another's by now.
OnlyFailedLoadsDangle ==
    [][\A d \in Calls : call[d].at \in Visiting /\ call'[d].at \in NodeGone =>
         \E c \in Calls : /\ At(c, "failed")
                          /\ \/ Table(c) \in twice
                             \/ Named(Table(d)) \cap ({Table(c)} \cup twice) # {}]_vars

\* A node goes only with its table or with that of its scope, by an unload or a load
\* that failed: an owner id is given to another table only when no node has it any
\* more. The code cannot keep this up for a table that was unloaded twice at a time:
\* the second unload deletes by an id that may be another table's, and its nodes may
\* have such an id.
NodesGoWithTheirTable ==
    [][\A tb \in DOMAIN node \ DOMAIN node' :
         \E c \in Calls : /\ call[c].at \in {"failed", "delete"}
                          /\ \/ Table(c) \in twice
                             \/ Named(tb) \cap ({Table(c)} \cup twice) # {}]_vars

Deleted(tb) == \E c \in Calls : /\ Table(c) = tb
                                /\ call[c].at \in {"unlock", "free", "unflag"}

\* No two tables have one owner id. The node of a table that was never unloaded twice
\* at a time has its table's id as long as it exists, whoever loads and unloads at the
\* same time: the id is not given back before the node is gone, so that the unload will
\* find the node. Without such unloads, a loaded table whose object is at the root has
\* its node until its unload; an object inside another table's goes with that one.
NodesOwned ==
    /\ \A a, b \in Tables : a # b /\ ownerId[a] = ownerId[b] => ownerId[a] = 0
    /\ \A tb \in DOMAIN node \ twice : node[tb] = ownerId[tb]
    /\ twice = {} => \A tb \in Tables : loaded[tb] /\ ~Deleted(tb) /\ Within[tb] = Nobody
                                            => tb \in DOMAIN node

\* If loads do not fail again and again, which takes nodes away from walks and puts
\* new ones before them, every walk, load and method comes to an end, also while a
\* method unloads, which releases the interpreter "since the acquisition of the
\* deletion lock may block"; an unload does unless walks that overlap leave no gap.
CallsReturn ==
    LET Busy(t)    == ~At(<<t, 1>>, "idle")
        Starved(t) == At(<<t, 1>>, "write") /\ numReaders > 0
        Settled    == <>[](\A c \in Calls : ~At(c, "failed"))
    IN  Settled => \A t \in Threads : []<>~Busy(t) \/ <>[]Starved(t)
=============================================================================
