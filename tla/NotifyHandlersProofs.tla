------------------------ MODULE NotifyHandlersProofs ------------------------
(***************************************************************************)
(* Theorems of NotifyHandlers, for any threads and handlers and any finite *)
(* set of handler objects: a notification has the interpreter and the      *)
(* namespace to itself, the lists stay paths, an object's references are   *)
(* those of its lists and of its removals, what runs is installed, and     *)
(* all of it implements NotifyDelivery.                                    *)
(***************************************************************************)
EXTENDS NotifyHandlers, FiniteSetTheorems, TLAPS

\* The least of a non-empty set of kinds is one of them.
LEMMA FirstIsOne ==
  ASSUME NEW types \in SUBSET NotifyTypes, types # {}
  PROVE  First(types) \in types /\ First(types) \in NotifyTypes
<1>1. \E i \in types : \A j \in types : i <= j
  <2>1. CASE 0 \in types  BY <2>1 DEF NotifyTypes
  <2>2. CASE 0 \notin types
    <3>1. types = {1}  BY <2>2 DEF NotifyTypes
    <3> QED  BY <3>1
  <2> QED  BY <2>1, <2>2
<1> QED  BY <1>1 DEF First

\* An installation is in one list or in two.
LEMMA OneOrTwoReferences ==
  ASSUME NEW types \in HandlerTypes
  PROVE  References(types) \in 1..2
<1>1. types \in {{0}, {1}, {0, 1}}
  <2>1. types \subseteq {0, 1} /\ types # {}  BY DEF HandlerTypes, NotifyTypes
  <2>2. CASE 0 \in types /\ 1 \in types  BY <2>1, <2>2
  <2>3. CASE 0 \notin types \/ 1 \notin types  BY <2>1, <2>3
  <2> QED  BY <2>2, <2>3
<1>2. Cardinality({0}) = 1 /\ Cardinality({1}) = 1
  BY FS_Singleton
<1>3. Cardinality({0, 1}) = 2
  <2>1. {0, 1} = {0} \cup {1}  OBVIOUS
  <2>2. IsFiniteSet({0})  BY FS_Singleton
  <2>3. Cardinality({0} \cup {1}) = Cardinality({0}) + 1  BY <2>2, FS_AddElement, 1 \notin {0}
  <2> QED  BY <2>1, <2>3, <1>2
<1> QED  BY <1>1, <1>2, <1>3 DEF References

\* What a thread's place says of its other fields.
Shape ==
    \A t \in Threads :
        /\ thread[t].pc \in {"queued", "global", "walk", "local", "remove", "removeRoot", "unref"}
              => thread[t].types # {}
        /\ thread[t].pc \in {"local", "unref"} => thread[t].cursor # Null

Typing == TypeOK /\ Shape

Threadlike == [pc : Outside \cup Inside \cup OnTheWay, fn : Handlers \cup {Null},
               types : SUBSET NotifyTypes, cursor : Objects \cup {Null}]

\* A thread that moves to a well-shaped place leaves all of them well shaped.
LEMMA ThreadMoves ==
  ASSUME Typing, NEW t \in Threads, NEW r \in Threadlike,
         thread' = [thread EXCEPT ![t] = r],
         r.pc \in {"queued", "global", "walk", "local", "remove", "removeRoot", "unref"}
            => r.types # {},
         r.pc \in {"local", "unref"} => r.cursor # Null
  PROVE  thread' \in [Threads -> Threadlike] /\ Shape'
BY DEF Typing, TypeOK, Shape, Threadlike

LEMMA TypingInit == Init => Typing
BY DEF Init, Typing, TypeOK, Shape, Idle, NoLinks, Outside

\* Every step of a control method keeps the types.
LEMMA MethodTyping ==
  ASSUME Typing, NEW t \in Threads, MethodStep(t)
  PROVE  Typing'
<1> USE DEF Typing, TypeOK, Shape, At, Goto, Idle, Inside, Outside, OnTheWay, lists
<1>1. CASE AcpiExEnterInterpreter(t)  BY <1>1 DEF AcpiExEnterInterpreter
<1>2. CASE LockNamespace(t)  BY <1>2 DEF LockNamespace
<1>3. CASE AcpiExExitInterpreter(t)
  <2>1. Idle \in Threadlike /\ [Idle EXCEPT !.pc = "exit"] \in Threadlike
    BY DEF Threadlike
  <2>2. CASE At(t, "method")
    <3>1. thread' = [thread EXCEPT ![t] = [Idle EXCEPT !.pc = "exit"]] /\ namespace' = Null
      BY <1>3, <2>2 DEF AcpiExExitInterpreter
    <3>2. thread' \in [Threads -> Threadlike] /\ Shape'
      BY <2>1, <3>1, ThreadMoves
    <3> QED  BY <3>1, <3>2, <1>3 DEF AcpiExExitInterpreter, Threadlike
  <2>3. CASE At(t, "exit")
    <3>1. thread' = [thread EXCEPT ![t] = Idle] /\ interpreter' = Null
      BY <1>3, <2>3 DEF AcpiExExitInterpreter
    <3>2. thread' \in [Threads -> Threadlike] /\ Shape'
      BY <2>1, <3>1, ThreadMoves
    <3> QED  BY <3>1, <3>2, <1>3 DEF AcpiExExitInterpreter, Threadlike
  <2> QED  BY <1>3, <2>2, <2>3 DEF AcpiExExitInterpreter
<1>4. CASE \E i \in NotifyTypes : AcpiEvQueueNotifyRequest(t, i)
  BY <1>4 DEF AcpiEvQueueNotifyRequest
<1>5. CASE RequestFails(t)  BY <1>5 DEF RequestFails
<1>6. CASE CallGlobal(t)
  <2>1. First(thread[t].types) \in NotifyTypes  BY <1>6, FirstIsOne DEF CallGlobal
  <2> DEFINE fn == global[First(thread[t].types)]
             r  == [thread[t] EXCEPT !.pc = IF fn = Null THEN "walk" ELSE "global", !.fn = fn]
  <2>2. thread' = [thread EXCEPT ![t] = r]  BY <1>6 DEF CallGlobal
  <2>3. fn \in Handlers \cup {Null}  BY <2>1
  <2>4. r \in Threadlike /\ r.types = thread[t].types /\ r.pc \in {"walk", "global"}
    BY <2>3 DEF Threadlike
  <2>5. thread' \in [Threads -> Threadlike] /\ Shape'
    <3>1. r.types # {}  BY <2>4, <1>6 DEF CallGlobal
    <3> HIDE DEF r
    <3> QED  BY <2>2, <2>4, <3>1, ThreadMoves
  <2> QED  BY <2>5, <1>6 DEF CallGlobal, Threadlike
<1>7. CASE CallLocal(t)  BY <1>7 DEF CallLocal
<1>8. CASE HandlerReturns(t)
  <2>1. At(t, "local") => First(thread[t].types) \in NotifyTypes  BY FirstIsOne
  <2>2. At(t, "local") => next[thread[t].cursor][First(thread[t].types)] \in Objects \cup {Null}
    BY <2>1
  <2>3. CASE At(t, "global")
    <3> DEFINE r == [thread[t] EXCEPT !.pc = "walk", !.fn = Null]
    <3>1. thread' = [thread EXCEPT ![t] = r]  BY <2>3, <1>8 DEF HandlerReturns
    <3>2. r \in Threadlike /\ r.types = thread[t].types /\ r.pc = "walk"
      BY DEF Threadlike
    <3>3. r.types # {}  BY <3>2, <2>3
    <3>4. thread' \in [Threads -> Threadlike] /\ Shape'
      <4> HIDE DEF r
      <4> QED  BY <3>1, <3>2, <3>3, ThreadMoves
    <3> QED  BY <3>4, <1>8 DEF HandlerReturns, Threadlike
  <2>4. CASE At(t, "local")
    <3> DEFINE succ == next[thread[t].cursor][First(thread[t].types)]
               r == [thread[t] EXCEPT !.pc = "walk", !.fn = Null, !.cursor = succ]
    <3>1. thread' = [thread EXCEPT ![t] = r]  BY <2>4, <1>8 DEF HandlerReturns
    <3>2. r \in Threadlike /\ r.types = thread[t].types /\ r.pc = "walk"
      BY <2>2, <2>4 DEF Threadlike
    <3>3. r.types # {}  BY <3>2, <2>4
    <3>4. thread' \in [Threads -> Threadlike] /\ Shape'
      <4> HIDE DEF r
      <4> QED  BY <3>1, <3>2, <3>3, ThreadMoves
    <3> QED  BY <3>4, <1>8 DEF HandlerReturns, Threadlike
  <2> QED  BY <2>3, <2>4, <1>8 DEF HandlerReturns
<1>9. CASE DispatchDone(t)
  <2>1. [Idle EXCEPT !.pc = "method"] \in Threadlike  BY DEF Threadlike
  <2>2. thread' \in [Threads -> Threadlike] /\ Shape'
    BY <2>1, <1>9, ThreadMoves DEF DispatchDone
  <2> QED  BY <2>2, <1>9 DEF DispatchDone, Threadlike
<1>10. CASE HandlerWaitsForItself(t)  BY <1>10 DEF HandlerWaitsForItself
<1> QED
  BY <1>1, <1>2, <1>3, <1>4, <1>5, <1>6, <1>7, <1>8, <1>9, <1>10 DEF MethodStep

\* Every step of an installation or a removal does, too.
LEMMA ClientTyping ==
  ASSUME Typing, NEW t \in Threads, ClientStep(t)
  PROVE  Typing'
<1> USE DEF Typing, TypeOK, Shape, At, Idle, Inside, Outside, OnTheWay, lists
<1>0. First(thread[t].types) \in NotifyTypes \/ thread[t].types = {}
  BY FirstIsOne
<1>1. ASSUME NEW fn \in Handlers, NEW types \in HandlerTypes, InstallGlobal(t, fn, types)
      PROVE  Typing'
  BY <1>1 DEF InstallGlobal
<1>2. ASSUME NEW fn \in Handlers, NEW types \in HandlerTypes, InstallLocal(t, fn, types)
      PROVE  Typing'
  <2>1. References(types) \in 0..2  BY OneOrTwoReferences
  <2> QED  BY <2>1, <1>2 DEF InstallLocal
<1>3. ASSUME NEW fn \in Handlers, NEW types \in HandlerTypes, BeginRemove(t, fn, types)
      PROVE  Typing'
  BY <1>3 DEF BeginRemove, HandlerTypes
<1>4. CASE RemoveGlobal(t)  BY <1>0, <1>4 DEF RemoveGlobal, NextType
<1>5. CASE NotInstalled(t)  BY <1>5 DEF NotInstalled
<1>6. CASE RemoveLocal(t)
  <2>1. First(thread[t].types) \in NotifyTypes  BY <1>0, <1>6 DEF RemoveLocal
  <2>2. PICK o \in Objects : /\ Unlink(First(thread[t].types), o)
                             /\ thread' = [thread EXCEPT ![t].pc = "unref", ![t].cursor = o]
    BY <1>6 DEF RemoveLocal
  <2>3. /\ head' \in [NotifyTypes -> Objects \cup {Null}]
        /\ next' \in [Objects -> [NotifyTypes -> Objects \cup {Null}]]
    BY <2>1, <2>2 DEF Unlink
  <2>4. o # Null  BY NotifyAssumption
  <2> DEFINE r == [thread[t] EXCEPT !.pc = "unref", !.cursor = o]
  <2>5. thread' = [thread EXCEPT ![t] = r]  BY <2>2
  <2>6. r \in Threadlike /\ r.types = thread[t].types /\ r.cursor = o
    BY DEF Threadlike
  <2>7. thread[t].types # {}  BY <1>6 DEF RemoveLocal
  <2>8. thread' \in [Threads -> Threadlike] /\ Shape'
    BY <2>4, <2>5, <2>6, <2>7, ThreadMoves
  <2> QED  BY <2>3, <2>8, <1>6 DEF RemoveLocal, Threadlike
<1>7. CASE AcpiUtRemoveReference(t)
  <2>1. thread[t].cursor \in Objects  BY <1>7 DEF AcpiUtRemoveReference
  <2>2. refs' \in [Objects -> 0..2]  BY <2>1, <1>7 DEF AcpiUtRemoveReference
  <2>3. NoLinks \in [NotifyTypes -> Objects \cup {Null}]  BY DEF NoLinks
  <2>4. /\ handler' \in [Objects -> Handlers \cup {Null}]
        /\ next' \in [Objects -> [NotifyTypes -> Objects \cup {Null}]]
    <3>1. CASE refs[thread[t].cursor] = 1
      BY <3>1, <2>1, <2>3, <1>7 DEF AcpiUtRemoveReference
    <3>2. CASE refs[thread[t].cursor] # 1
      BY <3>2, <2>1, <1>7 DEF AcpiUtRemoveReference
    <3> QED  BY <3>1, <3>2
  <2> DEFINE left == thread[t].types \ {First(thread[t].types)}
             r == IF left = {} THEN Idle
                  ELSE [thread[t] EXCEPT !.pc = "remove", !.types = left, !.cursor = Null]
  <2>5. thread' = [thread EXCEPT ![t] = r]  BY <1>7 DEF AcpiUtRemoveReference
  <2>6. /\ r \in Threadlike
        /\ r.pc = "remove" => r.types # {}
        /\ r.pc \in {"idle", "remove"}
    BY DEF Threadlike
  <2>7. thread' \in [Threads -> Threadlike] /\ Shape'
    BY <2>5, <2>6, ThreadMoves
  <2> QED  BY <2>2, <2>4, <2>7, <1>7 DEF AcpiUtRemoveReference, Threadlike
<1> QED
  BY <1>1, <1>2, <1>3, <1>4, <1>5, <1>6, <1>7 DEF ClientStep

LEMMA TypingStep == Typing /\ [Next]_vars => Typing'
<1>1. ASSUME Typing, UNCHANGED vars  PROVE Typing'
  BY <1>1 DEF Typing, TypeOK, Shape, At, vars, lists
<1> QED  BY <1>1, MethodTyping, ClientTyping DEF Next

\* The variables keep their types, whatever handlers are installed and removed.
THEOREM TypeCorrect == Spec => []TypeOK
<1>1. Typing => TypeOK  BY DEF Typing
<1> QED  BY <1>1, TypingInit, TypingStep, PTL DEF Spec

-----------------------------------------------------------------------------
(* Mutual exclusion of dispatches                                          *)

\* On the way in and out a thread has the interpreter but not the namespace.
Locked ==
    \A t \in Threads :
        /\ thread[t].pc \in Inside \cup OnTheWay => interpreter = t
        /\ thread[t].pc \in Inside => namespace = t

LEMMA LockedInit == Init => Locked
BY DEF Init, Locked, Idle, Inside, OnTheWay

LEMMA LockedStep == Typing /\ Locked /\ [Next]_vars => Locked'
<1> SUFFICES ASSUME Typing, Locked, [Next]_vars  PROVE Locked'
  OBVIOUS
<1> USE DEF Locked, Typing, TypeOK, At, Goto, Idle, Inside, OnTheWay
<1>1. CASE UNCHANGED vars  BY <1>1 DEF vars
<1>2. ASSUME NEW t \in Threads, MethodStep(t)  PROVE Locked'
  <2>1. CASE AcpiExEnterInterpreter(t) \/ LockNamespace(t)
    BY <2>1, NotifyAssumption DEF AcpiExEnterInterpreter, LockNamespace
  <2>4. CASE AcpiExExitInterpreter(t)
    <3>1. CASE At(t, "method")
      <4>1. /\ thread' = [thread EXCEPT ![t] = [Idle EXCEPT !.pc = "exit"]]
            /\ namespace' = Null /\ interpreter' = interpreter
        BY <2>4, <3>1 DEF AcpiExExitInterpreter
      <4>2. \A u \in Threads : u # t => thread[u].pc \notin Inside
        BY <3>1
      <4>3. /\ thread'[t].pc = "exit" /\ interpreter = t
            /\ \A u \in Threads : u # t => thread'[u] = thread[u]
        BY <4>1, <3>1
      <4> QED  BY <4>1, <4>2, <4>3
    <3>2. CASE At(t, "exit")
      <4>1. /\ thread' = [thread EXCEPT ![t] = Idle]
            /\ interpreter' = Null /\ namespace' = namespace
        BY <2>4, <3>2 DEF AcpiExExitInterpreter
      <4>2. \A u \in Threads : u # t => thread[u].pc \notin Inside \cup OnTheWay
        BY <3>2
      <4>3. /\ thread'[t].pc = "idle"
            /\ \A u \in Threads : u # t => thread'[u] = thread[u]
        BY <4>1
      <4> QED  BY <4>1, <4>2, <4>3
    <3> QED  BY <2>4, <3>1, <3>2 DEF AcpiExExitInterpreter
  <2>2. CASE RequestFails(t)  BY <2>2 DEF RequestFails
  <2>3. CASE \/ \E i \in NotifyTypes : AcpiEvQueueNotifyRequest(t, i)
             \/ CallGlobal(t) \/ CallLocal(t) \/ HandlerReturns(t)
             \/ DispatchDone(t) \/ HandlerWaitsForItself(t)
    BY <2>3 DEF AcpiEvQueueNotifyRequest, CallGlobal, CallLocal, HandlerReturns,
       DispatchDone, HandlerWaitsForItself
  <2> QED  BY <1>2, <2>1, <2>2, <2>3, <2>4 DEF MethodStep
<1>3. ASSUME NEW t \in Threads, ClientStep(t)  PROVE Locked'
  <2>1. UNCHANGED <<interpreter, namespace>>
    BY <1>3 DEF ClientStep, InstallGlobal, InstallLocal, BeginRemove, RemoveGlobal,
       NotInstalled, RemoveLocal, AcpiUtRemoveReference
  <2>2. /\ \A u \in Threads : u # t => thread'[u] = thread[u]
        /\ thread'[t].pc \notin Inside \cup OnTheWay \/ thread'[t] = thread[t]
    <3>1. CASE \E fn \in Handlers, types \in HandlerTypes :
                  InstallGlobal(t, fn, types) \/ InstallLocal(t, fn, types)
      BY <3>1 DEF InstallGlobal, InstallLocal
    <3>2. CASE \E fn \in Handlers, types \in HandlerTypes : BeginRemove(t, fn, types)
      BY <3>2 DEF BeginRemove
    <3>3. CASE RemoveGlobal(t) \/ NotInstalled(t)
      BY <3>3 DEF RemoveGlobal, NotInstalled, NextType
    <3>4. CASE RemoveLocal(t)  BY <3>4 DEF RemoveLocal
    <3>5. CASE AcpiUtRemoveReference(t)  BY <3>5 DEF AcpiUtRemoveReference
    <3> QED  BY <1>3, <3>1, <3>2, <3>3, <3>4, <3>5 DEF ClientStep
  <2> QED  BY <2>1, <2>2
<1> QED  BY <1>1, <1>2, <1>3 DEF Next

\* A thread that notifies, and every handler it calls, has the interpreter and the
\* namespace to itself: no two dispatches overlap, nor a dispatch and a change.
THEOREM DispatchExclusive == Spec => []DispatchIsExclusive
<1>1. Locked => DispatchIsExclusive  BY DEF Locked, DispatchIsExclusive
<1> QED  BY <1>1, TypingInit, TypingStep, LockedInit, LockedStep, PTL DEF Spec

-----------------------------------------------------------------------------
(* Following the links of a list                                           *)

Successors == [Objects -> Objects \cup {Null}]

\* The sets that have h and, with each of their objects, the next.
Closed(S, h, f) == h \in S \cup {Null} /\ \A p \in S : f[p] \in S \cup {Null}

LEMMA ReachableIsClosed ==
  ASSUME NEW h \in Objects \cup {Null}, NEW f \in Successors
  PROVE  Reachable(h, f) \subseteq Objects /\ Closed(Reachable(h, f), h, f)
<1> DEFINE R == Reachable(h, f)
<1>1. R \subseteq Objects  BY DEF Reachable
<1>2. ASSUME h # Null PROVE h \in R  BY <1>2 DEF Reachable
<1>3. ASSUME NEW p \in R, f[p] # Null PROVE f[p] \in R
  <2>1. p \in Objects /\ f[p] \in Objects  BY <1>1, <1>3 DEF Successors
  <2>2. ASSUME NEW S \in SUBSET Objects, Closed(S, h, f) PROVE f[p] \in S
    <3>1. p \in S  BY <2>2 DEF Closed, Reachable
    <3> QED  BY <1>3, <2>2, <3>1 DEF Closed
  <2> QED  BY <2>1, <2>2 DEF Closed, Reachable
<1> QED  BY <1>1, <1>2, <1>3 DEF Closed

LEMMA ReachableIsLeast ==
  ASSUME NEW h, NEW f, NEW S \in SUBSET Objects, Closed(S, h, f)
  PROVE  Reachable(h, f) \subseteq S
BY DEF Closed, Reachable

\* What is reachable is the head or follows something reachable.
LEMMA ReachableFrom ==
  ASSUME NEW h \in Objects \cup {Null}, NEW f \in Successors, NEW x \in Reachable(h, f)
  PROVE  x = h \/ \E p \in Reachable(h, f) : f[p] = x
<1> SUFFICES ASSUME x # h, \A p \in Reachable(h, f) : f[p] # x PROVE FALSE
  OBVIOUS
<1>1. Closed(Reachable(h, f) \ {x}, h, f)  BY ReachableIsClosed DEF Closed
<1>2. Reachable(h, f) \ {x} \in SUBSET Objects  BY ReachableIsClosed
<1> QED  BY <1>1, <1>2, ReachableIsLeast

\* A list is a path: nothing leads back to its head, and no two of its objects have
\* the same next.
Path(h, f) ==
    /\ \A p \in Reachable(h, f) : f[p] # Null => f[p] # h
    /\ \A p, q \in Reachable(h, f) : f[p] = f[q] /\ f[p] # Null => p = q

LEMMA NoLoop ==
  ASSUME NEW h \in Objects \cup {Null}, NEW f \in Successors, Path(h, f),
         NEW x \in Reachable(h, f)
  PROVE  f[x] # x
<1> SUFFICES ASSUME f[x] = x PROVE FALSE  OBVIOUS
<1>1. x # Null  BY NotifyAssumption, ReachableIsClosed
<1>2. x # h  BY <1>1 DEF Path
<1>3. Closed(Reachable(h, f) \ {x}, h, f)
  <2>1. \A p \in Reachable(h, f) : f[p] = x => p = x  BY <1>1 DEF Path
  <2> QED  BY <1>2, <2>1, ReachableIsClosed DEF Closed
<1>4. Reachable(h, f) \ {x} \in SUBSET Objects  BY ReachableIsClosed
<1> QED  BY <1>3, <1>4, ReachableIsLeast

\* What leads along the same links leads to the same objects.
LEMMA ReachableSame ==
  ASSUME NEW h \in Objects \cup {Null}, NEW f \in Successors, NEW g \in Successors,
         \A p \in Reachable(h, f) : g[p] = f[p]
  PROVE  Reachable(h, g) = Reachable(h, f) /\ (Path(h, f) => Path(h, g))
<1> DEFINE R == Reachable(h, f)  Q == Reachable(h, g)
<1>1. R \subseteq Objects /\ Closed(R, h, f) /\ Q \subseteq Objects /\ Closed(Q, h, g)
  BY ReachableIsClosed
<1>2. Q \subseteq R
  <2>1. Closed(R, h, g)  BY <1>1 DEF Closed
  <2> QED  BY <1>1, <2>1, ReachableIsLeast
<1>3. R \subseteq Q
  <2>1. Closed(R \cap Q, h, f)  BY <1>1 DEF Closed
  <2>2. R \cap Q \in SUBSET Objects  BY <1>1
  <2>3. Reachable(h, f) \subseteq R \cap Q  BY <2>1, <2>2, ReachableIsLeast
  <2> QED  BY <2>3
<1>4. Q = R  BY <1>2, <1>3
<1>5. Path(h, f) => Path(h, g)  BY <1>4 DEF Path
<1> QED  BY <1>4, <1>5

\* A new object is put before the head.
LEMMA ReachablePush ==
  ASSUME NEW h \in Objects \cup {Null}, NEW f \in Successors, Path(h, f),
         NEW o \in Objects, o \notin Reachable(h, f), NEW g \in Successors,
         g[o] = h, \A p \in Objects \ {o} : g[p] = f[p]
  PROVE  Reachable(o, g) = Reachable(h, f) \cup {o} /\ Path(o, g)
<1> DEFINE R == Reachable(h, f)  Q == Reachable(o, g)
<1>1. /\ R \subseteq Objects /\ Closed(R, h, f) /\ Q \subseteq Objects /\ Closed(Q, o, g)
      /\ o # Null /\ o \notin R
  BY ReachableIsClosed, NotifyAssumption
<1>2. Q \subseteq R \cup {o}
  <2>1. Closed(R \cup {o}, o, g)  BY <1>1 DEF Closed
  <2>2. R \cup {o} \in SUBSET Objects  BY <1>1
  <2> QED  BY <2>1, <2>2, ReachableIsLeast
<1>3. o \in Q  BY <1>1 DEF Closed
<1>4. R \subseteq Q
  <2>1. Closed(R \cap Q, h, f)
    <3>1. h \in (R \cap Q) \cup {Null}  BY <1>1, <1>3 DEF Closed
    <3>2. \A p \in R \cap Q : f[p] \in (R \cap Q) \cup {Null}  BY <1>1 DEF Closed
    <3> QED  BY <3>1, <3>2 DEF Closed
  <2>2. R \cap Q \in SUBSET Objects  BY <1>1
  <2>3. Reachable(h, f) \subseteq R \cap Q  BY <2>1, <2>2, ReachableIsLeast
  <2> QED  BY <2>3
<1>5. Q = R \cup {o}  BY <1>2, <1>3, <1>4
<1>6. \A p \in Q : g[p] # Null => g[p] # o
  <2>1. \A p \in R : f[p] # Null => f[p] # o  BY <1>1 DEF Closed
  <2>2. h # o \/ h = Null  BY <1>1 DEF Closed
  <2> QED  BY <1>1, <1>5, <2>1, <2>2
<1>7. \A p, q \in Q : g[p] = g[q] /\ g[p] # Null => p = q
  <2>1. \A p \in R : g[p] = f[p]  BY <1>1
  <2> QED  BY <1>5, <2>1 DEF Path
<1> QED  BY <1>5, <1>6, <1>7 DEF Path

\* An object is taken out: what led to it leads to its next.
LEMMA ReachableUnlink ==
  ASSUME NEW h \in Objects \cup {Null}, NEW f \in Successors, Path(h, f),
         NEW o \in Reachable(h, f), NEW h2 \in Objects \cup {Null}, NEW g \in Successors,
         h2 = IF h = o THEN f[o] ELSE h,
         \A p \in Reachable(h, f) : g[p] = IF f[p] = o THEN f[o] ELSE f[p]
  PROVE  Reachable(h2, g) = Reachable(h, f) \ {o} /\ Path(h2, g)
<1> DEFINE R == Reachable(h, f)  Q == Reachable(h2, g)
<1>1. /\ R \subseteq Objects /\ Closed(R, h, f) /\ Q \subseteq Objects /\ Closed(Q, h2, g)
      /\ o # Null /\ f[o] # o /\ o \in R
  BY ReachableIsClosed, NotifyAssumption, NoLoop
<1>2. Q \subseteq R \ {o}
  <2>1. Closed(R \ {o}, h2, g)  BY <1>1 DEF Closed
  <2>2. R \ {o} \in SUBSET Objects  BY <1>1
  <2> QED  BY <2>1, <2>2, ReachableIsLeast
<1>3. h = o \/ \E q \in Q : f[q] = o
  <2> SUFFICES ASSUME h # o, \A q \in Q : f[q] # o PROVE FALSE  OBVIOUS
  <2>1. Closed(Q, h, f)
    <3>1. \A q \in Q : g[q] = f[q]  BY <1>2
    <3> QED  BY <1>1, <3>1 DEF Closed
  <2>2. Reachable(h, f) \subseteq Q  BY <1>1, <2>1, ReachableIsLeast
  <2> QED  BY <1>1, <1>2, <2>2
<1>4. f[o] \in Q \cup {Null}
  <2>1. CASE h = o  BY <1>1, <2>1 DEF Closed
  <2>2. ASSUME NEW q \in Q, f[q] = o PROVE f[o] \in Q \cup {Null}
    <3>1. g[q] = f[o]  BY <1>2, <2>2
    <3> QED  BY <1>1, <2>2, <3>1 DEF Closed
  <2> QED  BY <1>3, <2>1, <2>2
<1>5. R \subseteq Q \cup {o}
  <2>1. Closed(Q \cup {o}, h, f)
    <3>1. h \in Q \cup {o} \cup {Null}  BY <1>1 DEF Closed
    <3>2. ASSUME NEW q \in Q PROVE f[q] \in Q \cup {o} \cup {Null}
      <4>1. q \in R /\ g[q] \in Q \cup {Null}  BY <1>1, <1>2 DEF Closed
      <4>2. CASE f[q] = o  BY <4>2
      <4>3. CASE f[q] # o  BY <4>1, <4>3
      <4> QED  BY <4>2, <4>3
    <3> QED  BY <1>4, <3>1, <3>2 DEF Closed
  <2>2. Q \cup {o} \in SUBSET Objects  BY <1>1
  <2> QED  BY <2>1, <2>2, ReachableIsLeast
<1>6. Q = R \ {o}  BY <1>2, <1>5
<1>7. \A p \in Q : g[p] # Null => g[p] # h2
  <2> SUFFICES ASSUME NEW p \in Q, g[p] # Null, g[p] = h2 PROVE FALSE  OBVIOUS
  <2>1. p \in R /\ p # o /\ g[p] = IF f[p] = o THEN f[o] ELSE f[p]  BY <1>6
  <2>2. CASE h = o  BY <1>1, <2>1, <2>2 DEF Path
  <2>3. CASE h # o  BY <1>1, <2>1, <2>3 DEF Path
  <2> QED  BY <2>2, <2>3
<1>8. \A p, q \in Q : g[p] = g[q] /\ g[p] # Null => p = q
  <2> SUFFICES ASSUME NEW p \in Q, NEW q \in Q, g[p] = g[q], g[p] # Null PROVE p = q
    OBVIOUS
  <2>1. /\ p \in R /\ p # o /\ g[p] = IF f[p] = o THEN f[o] ELSE f[p]
        /\ q \in R /\ q # o /\ g[q] = IF f[q] = o THEN f[o] ELSE f[q]
    BY <1>6
  <2> QED  BY <1>1, <2>1 DEF Path
<1> QED  BY <1>6, <1>7, <1>8 DEF Path

-----------------------------------------------------------------------------
(* The lists and the references                                            *)

Succ(i)    == [o \in Objects |-> next[o][i]]
ListsOf(o) == {i \in NotifyTypes : o \in Linked(i)}
Letting(o) == {t \in Threads : At(t, "unref") /\ thread[t].cursor = o}

Paths == \A i \in NotifyTypes : Path(head[i], Succ(i))

\* The references are those of the lists and of the removals that let go.
Counted == \A o \in Objects : /\ IsFiniteSet(Letting(o))
                              /\ refs[o] = Cardinality(ListsOf(o)) + Cardinality(Letting(o))

ListInv == Counted /\ Paths /\ OneObjectPerHandler

LEMMA ListsFinite ==
  ASSUME NEW o
  PROVE  IsFiniteSet(ListsOf(o)) /\ Cardinality(ListsOf(o)) \in Nat
<1>1. IsFiniteSet(NotifyTypes)
  <2>1. IsFiniteSet({0}) /\ {0, 1} = {0} \cup {1}  BY FS_Singleton
  <2> QED  BY <2>1, FS_AddElement DEF NotifyTypes
<1>2. ListsOf(o) \subseteq NotifyTypes  BY DEF ListsOf
<1> QED  BY <1>1, <1>2, FS_Subset, FS_CardinalityType

\* A list is what its links make of it, and has the next of each of its objects.
LEMMA LinkedIs ==
  ASSUME Typing, NEW i \in NotifyTypes
  PROVE  /\ head[i] \in Objects \cup {Null} /\ Succ(i) \in Successors
         /\ Linked(i) = Reachable(head[i], Succ(i)) /\ Linked(i) \subseteq Objects
         /\ head[i] \in Linked(i) \cup {Null}
         /\ \A p \in Linked(i) : Succ(i)[p] = next[p][i] /\ next[p][i] \in Linked(i) \cup {Null}
<1>1. head[i] \in Objects \cup {Null} /\ Succ(i) \in Successors
  BY DEF Typing, TypeOK, Succ, Successors
<1>2. Linked(i) = Reachable(head[i], Succ(i))  BY DEF Linked, Succ
<1>3. Linked(i) \subseteq Objects /\ Closed(Linked(i), head[i], Succ(i))
  BY <1>1, <1>2, ReachableIsClosed
<1>4. \A p \in Objects : Succ(i)[p] = next[p][i]  BY DEF Succ
<1> QED  BY <1>1, <1>2, <1>3, <1>4 DEF Closed

\* The same after a step: what follows uses it of the new state.
LEMMA LinkedIsNext ==
  ASSUME Typing', NEW i \in NotifyTypes
  PROVE  /\ head'[i] \in Objects \cup {Null} /\ Succ(i)' \in Successors
         /\ Linked(i)' = Reachable(head'[i], Succ(i)')
         /\ \A p \in Objects : Succ(i)'[p] = next'[p][i]
<1>1. head'[i] \in Objects \cup {Null} /\ Succ(i)' \in Successors
  BY DEF Typing, TypeOK, Succ, Successors
<1>2. Linked(i)' = Reachable(head'[i], Succ(i)')  BY DEF Linked, Succ
<1> QED  BY <1>1, <1>2 DEF Succ

\* A list whose objects keep their links is the same list.
LEMMA ListSame ==
  ASSUME Typing, Typing', Paths, NEW i \in NotifyTypes,
         head'[i] = head[i], \A p \in Linked(i) : next'[p][i] = next[p][i]
  PROVE  Linked(i)' = Linked(i) /\ Path(head[i], Succ(i))'
<1>1. \A p \in Linked(i) : Succ(i)'[p] = Succ(i)[p]  BY LinkedIs, LinkedIsNext
<1>2. PICK h, f, g : h = head[i] /\ f = Succ(i) /\ g = Succ(i)'  OBVIOUS
<1>3. /\ h \in Objects \cup {Null} /\ f \in Successors /\ g \in Successors /\ Path(h, f)
      /\ \A p \in Reachable(h, f) : g[p] = f[p]
  BY <1>1, <1>2, LinkedIs, LinkedIsNext DEF Paths
<1>4. Reachable(h, g) = Reachable(h, f) /\ Path(h, g)
  BY ONLY <1>3, ReachableSame
<1> QED  BY <1>2, <1>4, LinkedIs, LinkedIsNext

\* An object is in no list and nobody lets go of it when it has no reference, and in
\* none when it has but one and somebody lets go of it.
LEMMA Unreferenced ==
  ASSUME Counted, NEW o \in Objects,
         refs[o] = 0 \/ (refs[o] = 1 /\ Letting(o) # {})
  PROVE  \A i \in NotifyTypes : o \notin Linked(i)
<1>1. PICK a, b : a = Cardinality(ListsOf(o)) /\ b = Cardinality(Letting(o))  OBVIOUS
<1>2. a \in Nat /\ b \in Nat /\ refs[o] = a + b
  BY <1>1, ListsFinite, FS_CardinalityType DEF Counted
<1>3. Letting(o) # {} => b # 0  BY <1>1, FS_EmptySet DEF Counted
<1>4. a = 0  BY <1>2, <1>3
<1>5. ListsOf(o) = {}  BY <1>1, <1>4, ListsFinite, FS_EmptySet
<1> QED  BY <1>5 DEF ListsOf

LEMMA ReferencedBy ==
  ASSUME Counted, NEW o \in Objects, NEW t \in Letting(o)
  PROVE  refs[o] > 0
<1>1. PICK a, b : a = Cardinality(ListsOf(o)) /\ b = Cardinality(Letting(o))  OBVIOUS
<1>2. a \in Nat /\ b \in Nat /\ refs[o] = a + b
  BY <1>1, ListsFinite, FS_CardinalityType DEF Counted
<1>3. b # 0  BY <1>1, FS_EmptySet DEF Counted
<1> QED  BY <1>2, <1>3

\* An installation puts one object, which was in no list, before the lists of its kinds.
LEMMA InstallLists ==
  ASSUME Typing, Typing', ListInv, NEW t \in Threads, NEW fn \in Handlers,
         NEW types \in HandlerTypes, NEW o \in Objects, refs[o] = 0,
         next' = [next EXCEPT ![o] =
                     [i \in NotifyTypes |-> IF i \in types THEN head[i] ELSE Null]],
         head' = [i \in NotifyTypes |-> IF i \in types THEN o ELSE head[i]],
         NEW i \in NotifyTypes
  PROVE  /\ o \notin Linked(i)
         /\ Linked(i)' = IF i \in types THEN Linked(i) \cup {o} ELSE Linked(i)
         /\ Path(head[i], Succ(i))'
<1>1. o \notin Linked(i)
  <2>1. Counted  BY DEF ListInv
  <2>2. \A j \in NotifyTypes : o \notin Linked(j)
    BY ONLY <2>1, refs[o] = 0, Unreferenced, o \in Objects
  <2> QED  BY <2>2
<1>2. /\ \A p \in Objects \ {o} : next'[p] = next[p]
      /\ next'[o] = [j \in NotifyTypes |-> IF j \in types THEN head[j] ELSE Null]
  BY DEF Typing, TypeOK
<1>3. CASE i \notin types
  <2>1. head'[i] = head[i] /\ \A p \in Linked(i) : next'[p][i] = next[p][i]
    BY <1>1, <1>2, <1>3, LinkedIs
  <2> QED  BY <1>1, <1>3, <2>1, ListSame DEF ListInv
<1>4. CASE i \in types
  <2>1. PICK h, f, g : h = head[i] /\ f = Succ(i) /\ g = Succ(i)'  OBVIOUS
  <2>2. /\ h \in Objects \cup {Null} /\ f \in Successors /\ g \in Successors /\ Path(h, f)
        /\ o \notin Reachable(h, f)
    BY <1>1, <2>1, LinkedIs, LinkedIsNext DEF ListInv, Paths
  <2>3. g[o] = h /\ \A p \in Objects \ {o} : g[p] = f[p]
    <3>1. g[o] = next'[o][i] /\ \A p \in Objects : g[p] = next'[p][i] /\ f[p] = next[p][i]
      BY <2>1, LinkedIsNext DEF Succ
    <3> QED  BY <1>2, <1>4, <2>1, <3>1
  <2>4. Reachable(o, g) = Reachable(h, f) \cup {o} /\ Path(o, g)
    BY ONLY <2>2, <2>3, ReachablePush, NotifyAssumption, o \in Objects
  <2>5. head'[i] = o  BY <1>4
  <2> QED  BY <1>1, <1>4, <2>1, <2>4, <2>5, LinkedIs, LinkedIsNext
<1> QED  BY <1>3, <1>4

\* A removal takes one object out of one list.
LEMMA UnlinkLists ==
  ASSUME Typing, Typing', ListInv, NEW k \in NotifyTypes, NEW o \in Linked(k), Unlink(k, o),
         NEW i \in NotifyTypes
  PROVE  /\ Linked(i)' = IF i = k THEN Linked(i) \ {o} ELSE Linked(i)
         /\ Path(head[i], Succ(i))'
<1>1. \A p \in Objects : next'[p] = IF p \in Linked(k) /\ next[p][k] = o
                                    THEN [next[p] EXCEPT ![k] = next[o][k]] ELSE next[p]
  BY DEF Unlink
<1>2. head' = [head EXCEPT ![k] = IF @ = o THEN next[o][k] ELSE @]
  BY DEF Unlink
<1>3. head \in [NotifyTypes -> Objects \cup {Null}]
      /\ \A p \in Objects : next[p] \in [NotifyTypes -> Objects \cup {Null}]
  BY DEF Typing, TypeOK
<1>4. CASE i # k
  <2>1. head'[i] = head[i]  BY <1>2, <1>3, <1>4
  <2>2. \A p \in Objects : next'[p][i] = next[p][i]  BY <1>1, <1>3, <1>4
  <2> QED  BY <1>4, <2>1, <2>2, LinkedIs, ListSame DEF ListInv
<1>5. CASE i = k
  <2>1. PICK h, f, h2, g : h = head[k] /\ f = Succ(k) /\ h2 = head'[k] /\ g = Succ(k)'
    OBVIOUS
  <2>2. /\ h \in Objects \cup {Null} /\ f \in Successors /\ h2 \in Objects \cup {Null}
        /\ g \in Successors /\ Path(h, f) /\ o \in Reachable(h, f)
    BY <2>1, LinkedIs, LinkedIsNext DEF ListInv, Paths
  <2>3. h2 = IF h = o THEN f[o] ELSE h
    <3>1. f[o] = next[o][k]  BY <2>1, LinkedIs
    <3> QED  BY <1>2, <1>3, <2>1, <3>1
  <2>4. \A p \in Reachable(h, f) : g[p] = IF f[p] = o THEN f[o] ELSE f[p]
    <3>1. Reachable(h, f) = Linked(k) /\ Linked(k) \subseteq Objects  BY <2>1, LinkedIs
    <3>2. \A p \in Objects : g[p] = next'[p][k] /\ f[p] = next[p][k]
      BY <2>1, LinkedIsNext DEF Succ
    <3> QED  BY <1>1, <1>3, <3>1, <3>2
  <2>5. Reachable(h2, g) = Reachable(h, f) \ {o} /\ Path(h2, g)
    BY ONLY <2>2, <2>3, <2>4, ReachableUnlink, NotifyAssumption
  <2> QED  BY <1>5, <2>1, <2>5, LinkedIs, LinkedIsNext
<1> QED  BY <1>4, <1>5

\* Who lets go of an object frees it only when it is in no list.
LEMMA UnrefLists ==
  ASSUME Typing, Typing', ListInv, NEW t \in Threads, AcpiUtRemoveReference(t),
         NEW i \in NotifyTypes
  PROVE  /\ Linked(i)' = Linked(i) /\ Path(head[i], Succ(i))'
         /\ \A p \in Linked(i) : handler'[p] = handler[p] /\ next'[p][i] = next[p][i]
<1>1. PICK o \in Objects : o = thread[t].cursor
  BY DEF AcpiUtRemoveReference, At, Typing, TypeOK, Shape
<1>2. t \in Letting(o)  BY <1>1 DEF AcpiUtRemoveReference, Letting
<1>3. refs[o] = 1 => o \notin Linked(i)  BY <1>2, Unreferenced DEF ListInv
<1>4. \A p \in Objects : p # o \/ refs[o] # 1 => handler'[p] = handler[p] /\ next'[p] = next[p]
  BY <1>1 DEF AcpiUtRemoveReference, Typing, TypeOK
<1>5. head'[i] = head[i]  BY DEF AcpiUtRemoveReference
<1>6. \A p \in Linked(i) : handler'[p] = handler[p] /\ next'[p][i] = next[p][i]
  BY <1>3, <1>4, LinkedIs
<1> QED  BY <1>5, <1>6, ListSame DEF ListInv

-----------------------------------------------------------------------------
(* The invariant of the lists                                              *)

\* The steps that change no list: the thread that moves lets go of no object, before
\* or after.
Still(t) == \/ MethodStep(t) \/ RemoveGlobal(t) \/ NotInstalled(t)
            \/ \E fn \in Handlers, types \in HandlerTypes :
                  InstallGlobal(t, fn, types) \/ BeginRemove(t, fn, types)

LEMMA StillSteps ==
  ASSUME Typing, NEW t \in Threads, Still(t)
  PROVE  /\ UNCHANGED lists
         /\ \A u \in Threads : u # t => thread'[u] = thread[u]
         /\ thread'[t] = thread[t] \/ (thread[t].pc # "unref" /\ thread'[t].pc # "unref")
<1> USE DEF Typing, TypeOK, At, Goto, Idle
<1>1. CASE AcpiExEnterInterpreter(t) \/ LockNamespace(t)
  BY <1>1 DEF AcpiExEnterInterpreter, LockNamespace
<1>2. CASE AcpiExExitInterpreter(t)  BY <1>2 DEF AcpiExExitInterpreter
<1>3. CASE \E i \in NotifyTypes : AcpiEvQueueNotifyRequest(t, i)
  BY <1>3 DEF AcpiEvQueueNotifyRequest
<1>4. CASE RequestFails(t)  BY <1>4 DEF RequestFails
<1>5. CASE CallGlobal(t)  BY <1>5 DEF CallGlobal
<1>6. CASE CallLocal(t)  BY <1>6 DEF CallLocal
<1>7. CASE HandlerReturns(t)  BY <1>7 DEF HandlerReturns
<1>8. CASE DispatchDone(t)  BY <1>8 DEF DispatchDone
<1>9. CASE HandlerWaitsForItself(t)  BY <1>9 DEF HandlerWaitsForItself
<1>10. CASE RemoveGlobal(t)  BY <1>10 DEF RemoveGlobal, NextType
<1>11. CASE NotInstalled(t)  BY <1>11 DEF NotInstalled
<1>12. ASSUME NEW fn \in Handlers, NEW types \in HandlerTypes,
              InstallGlobal(t, fn, types) \/ BeginRemove(t, fn, types)
       PROVE  /\ UNCHANGED lists
              /\ \A u \in Threads : u # t => thread'[u] = thread[u]
              /\ thread'[t] = thread[t] \/ (thread[t].pc # "unref" /\ thread'[t].pc # "unref")
  BY <1>12 DEF InstallGlobal, BeginRemove
<1> QED
  BY <1>1, <1>2, <1>3, <1>4, <1>5, <1>6, <1>7, <1>8, <1>9, <1>10, <1>11, <1>12
  DEF Still, MethodStep

LEMMA NextCases ==
  ASSUME NEW t \in Threads, MethodStep(t) \/ ClientStep(t)
  PROVE  \/ Still(t) \/ RemoveLocal(t) \/ AcpiUtRemoveReference(t)
         \/ \E fn \in Handlers, types \in HandlerTypes : InstallLocal(t, fn, types)
BY DEF ClientStep, Still

LEMMA ListInvInit == Init => ListInv
<1> SUFFICES ASSUME Init PROVE ListInv  OBVIOUS
<1>1. Typing /\ Typing  BY TypingInit
<1>2. ASSUME NEW i \in NotifyTypes PROVE Linked(i) = {}
  <2>1. head[i] = Null  BY DEF Init, NoLinks
  <2>2. Closed({}, head[i], Succ(i))  BY <2>1 DEF Closed
  <2>3. Reachable(head[i], Succ(i)) \subseteq {}  BY <2>2, ReachableIsLeast
  <2> QED  BY <1>1, <2>3, LinkedIs
<1>3. Counted
  <2> SUFFICES ASSUME NEW o \in Objects
               PROVE  /\ IsFiniteSet(Letting(o))
                      /\ refs[o] = Cardinality(ListsOf(o)) + Cardinality(Letting(o))
    BY DEF Counted
  <2>1. ListsOf(o) = {}  BY <1>2 DEF ListsOf
  <2>2. Letting(o) = {}  BY DEF Init, Letting, At, Idle
  <2>3. refs[o] = 0  BY DEF Init
  <2> QED  BY <2>1, <2>2, <2>3, FS_EmptySet
<1>4. Paths
  <2> SUFFICES ASSUME NEW i \in NotifyTypes PROVE Path(head[i], Succ(i))  BY DEF Paths
  <2>1. Reachable(head[i], Succ(i)) = {}  BY <1>1, <1>2, LinkedIs
  <2> QED  BY <2>1 DEF Path
<1>5. OneObjectPerHandler  BY <1>2 DEF OneObjectPerHandler
<1> QED  BY <1>3, <1>4, <1>5 DEF ListInv

\* A step after which the lists and who lets go of what are as before.
LEMMA ListInvSame ==
  ASSUME Typing, Typing', ListInv, UNCHANGED lists,
         \A u \in Threads : thread'[u] = thread[u]
                            \/ (thread[u].pc # "unref" /\ thread'[u].pc # "unref")
  PROVE  ListInv'
<1>0. head' = head /\ next' = next /\ handler' = handler /\ refs' = refs  BY DEF lists
<1>1. \A i \in NotifyTypes : Linked(i)' = Linked(i) /\ Path(head[i], Succ(i))'
  BY <1>0, ListSame DEF ListInv
<1>2. \A o : Letting(o)' = Letting(o)  BY DEF Letting, At
<1>3. \A o : ListsOf(o)' = ListsOf(o)  BY <1>1 DEF ListsOf
<1>4. Counted'  BY <1>0, <1>2, <1>3 DEF ListInv, Counted
<1>5. OneObjectPerHandler'  BY <1>0, <1>1 DEF ListInv, OneObjectPerHandler
<1> QED  BY <1>1, <1>4, <1>5 DEF ListInv, Paths

LEMMA ListInvInstall ==
  ASSUME Typing, Typing', ListInv, NEW t \in Threads, NEW fn \in Handlers,
         NEW types \in HandlerTypes, InstallLocal(t, fn, types)
  PROVE  ListInv'
<1>1. PICK o \in Objects :
          /\ refs[o] = 0
          /\ refs' = [refs EXCEPT ![o] = References(types)]
          /\ handler' = [handler EXCEPT ![o] = fn]
          /\ next' = [next EXCEPT ![o] =
                         [i \in NotifyTypes |-> IF i \in types THEN head[i] ELSE Null]]
          /\ head' = [i \in NotifyTypes |-> IF i \in types THEN o ELSE head[i]]
  BY DEF InstallLocal
<1>2. \A i \in NotifyTypes :
          /\ o \notin Linked(i)
          /\ Linked(i)' = IF i \in types THEN Linked(i) \cup {o} ELSE Linked(i)
          /\ Path(head[i], Succ(i))'
  BY <1>1, InstallLists
<1>3. /\ refs'[o] = Cardinality(types) /\ \A p \in Objects \ {o} : refs'[p] = refs[p]
      /\ handler'[o] = fn /\ \A p \in Objects \ {o} : handler'[p] = handler[p]
      /\ thread' = thread /\ types \subseteq NotifyTypes
  BY <1>1 DEF Typing, TypeOK, References, HandlerTypes, InstallLocal
<1>4. Counted'
  <2> SUFFICES ASSUME NEW p \in Objects
               PROVE  /\ IsFiniteSet(Letting(p)')
                      /\ refs'[p] = Cardinality(ListsOf(p)') + Cardinality(Letting(p)')
    BY DEF Counted
  <2>1. Letting(p)' = Letting(p)  BY <1>3 DEF Letting, At
  <2>2. IsFiniteSet(Letting(p)) /\ refs[p] = Cardinality(ListsOf(p)) + Cardinality(Letting(p))
    BY DEF ListInv, Counted
  <2>3. CASE p # o
    <3>1. ListsOf(p)' = ListsOf(p)  BY <1>2, <2>3 DEF ListsOf
    <3> QED  BY <1>3, <2>1, <2>2, <2>3, <3>1
  <2>4. CASE p = o
    <3>1. ListsOf(p)' = types  BY <1>2, <1>3, <2>4 DEF ListsOf
    <3>2. Letting(p) = {}
      <4>1. \A u \in Letting(p) : refs[p] > 0  BY ReferencedBy DEF ListInv
      <4> QED  BY <1>1, <2>4, <4>1
    <3>3. Cardinality(Letting(p)') = 0  BY <2>1, <3>2, FS_EmptySet
    <3>4. Cardinality(types) \in Nat  BY OneOrTwoReferences DEF References
    <3> QED  BY <1>3, <2>1, <2>2, <2>4, <3>1, <3>3, <3>4
  <2> QED  BY <2>3, <2>4
<1>5. OneObjectPerHandler'
  <2> SUFFICES ASSUME NEW i \in NotifyTypes, NEW p \in Linked(i)', NEW q \in Linked(i)',
                      handler'[p] = handler'[q]
               PROVE  p = q
    BY DEF OneObjectPerHandler
  <2>1. \A x \in Linked(i) : x \in Objects \ {o}  BY <1>2, LinkedIs
  <2>2. \A x \in Linked(i) : handler'[x] = handler[x]  BY <1>3, <2>1
  <2>3. i \in types => \A x \in Linked(i) : handler[x] # fn  BY DEF InstallLocal, Absent
  <2>4. \A x, y \in Linked(i) : handler[x] = handler[y] => x = y
    BY DEF ListInv, OneObjectPerHandler
  <2>5. CASE i \in types
    <3>1. (p = o \/ p \in Linked(i)) /\ (q = o \/ q \in Linked(i))  BY <1>2, <2>5
    <3> QED  BY <1>3, <2>2, <2>3, <2>4, <2>5, <3>1
  <2>6. CASE i \notin types
    <3>1. p \in Linked(i) /\ q \in Linked(i)  BY <1>2, <2>6
    <3> QED  BY <2>2, <2>4, <3>1
  <2> QED  BY <2>5, <2>6
<1> QED  BY <1>2, <1>4, <1>5 DEF ListInv, Paths

LEMMA ListInvUnlink ==
  ASSUME Typing, Typing', ListInv, NEW t \in Threads, RemoveLocal(t)
  PROVE  ListInv'
<1>1. PICK k \in NotifyTypes : k = First(thread[t].types)
  BY FirstIsOne DEF Typing, TypeOK, Shape, RemoveLocal, At
<1>2. PICK o \in Objects \cap Linked(k) :
          Unlink(k, o) /\ thread' = [thread EXCEPT ![t].pc = "unref", ![t].cursor = o]
  BY <1>1 DEF RemoveLocal
<1>3. \A i \in NotifyTypes :
          /\ Linked(i)' = IF i = k THEN Linked(i) \ {o} ELSE Linked(i)
          /\ Path(head[i], Succ(i))'
  BY <1>2, UnlinkLists
<1>4. /\ refs' = refs /\ handler' = handler /\ thread[t].pc = "remove"
      /\ thread'[t].pc = "unref" /\ thread'[t].cursor = o
      /\ \A u \in Threads \ {t} : thread'[u] = thread[u]
  BY <1>2 DEF RemoveLocal, At, Typing, TypeOK
<1>5. Counted'
  <2> SUFFICES ASSUME NEW p \in Objects
               PROVE  /\ IsFiniteSet(Letting(p)')
                      /\ refs'[p] = Cardinality(ListsOf(p)') + Cardinality(Letting(p)')
    BY DEF Counted
  <2>1. IsFiniteSet(Letting(p)) /\ refs[p] = Cardinality(ListsOf(p)) + Cardinality(Letting(p))
    BY DEF ListInv, Counted
  <2>2. CASE p # o
    <3>1. ListsOf(p)' = ListsOf(p)  BY <1>3, <2>2 DEF ListsOf
    <3>2. Letting(p)' = Letting(p)  BY <1>4, <2>2 DEF Letting, At
    <3> QED  BY <1>4, <2>1, <3>1, <3>2
  <2>3. CASE p = o
    <3>1. ListsOf(p)' = ListsOf(p) \ {k} /\ k \in ListsOf(p)
      BY <1>2, <1>3, <2>3 DEF ListsOf
    <3>2. Letting(p)' = Letting(p) \cup {t} /\ t \notin Letting(p)
      BY <1>4, <2>3 DEF Letting, At
    <3>3. Cardinality(ListsOf(p)') = Cardinality(ListsOf(p)) - 1
      BY <3>1, ListsFinite, FS_RemoveElement
    <3>4. /\ IsFiniteSet(Letting(p)')
          /\ Cardinality(Letting(p)') = Cardinality(Letting(p)) + 1
      BY <2>1, <3>2, FS_AddElement
    <3>5. Cardinality(ListsOf(p)) \in Nat /\ Cardinality(Letting(p)) \in Nat
      BY <2>1, ListsFinite, FS_CardinalityType
    <3> QED  BY <1>4, <2>1, <3>3, <3>4, <3>5
  <2> QED  BY <2>2, <2>3
<1>6. OneObjectPerHandler'
  <2>1. \A i \in NotifyTypes : Linked(i)' \subseteq Linked(i)  BY <1>3
  <2> QED  BY <1>4, <2>1 DEF ListInv, OneObjectPerHandler
<1> QED  BY <1>3, <1>5, <1>6 DEF ListInv, Paths

LEMMA ListInvUnref ==
  ASSUME Typing, Typing', ListInv, NEW t \in Threads, AcpiUtRemoveReference(t)
  PROVE  ListInv'
<1>1. PICK o \in Objects : o = thread[t].cursor
  BY DEF AcpiUtRemoveReference, At, Typing, TypeOK, Shape
<1>2. \A i \in NotifyTypes :
          /\ Linked(i)' = Linked(i) /\ Path(head[i], Succ(i))'
          /\ \A p \in Linked(i) : handler'[p] = handler[p] /\ next'[p][i] = next[p][i]
  BY UnrefLists
<1>3. /\ thread[t].pc = "unref" /\ thread'[t].pc # "unref"
      /\ \A u \in Threads \ {t} : thread'[u] = thread[u]
      /\ refs' = [refs EXCEPT ![o] = IF @ > 0 THEN @ - 1 ELSE @]
  BY <1>1 DEF AcpiUtRemoveReference, At, Typing, TypeOK, Idle
<1>4. Counted'
  <2> SUFFICES ASSUME NEW p \in Objects
               PROVE  /\ IsFiniteSet(Letting(p)')
                      /\ refs'[p] = Cardinality(ListsOf(p)') + Cardinality(Letting(p)')
    BY DEF Counted
  <2>1. IsFiniteSet(Letting(p)) /\ refs[p] = Cardinality(ListsOf(p)) + Cardinality(Letting(p))
    BY DEF ListInv, Counted
  <2>2. ListsOf(p)' = ListsOf(p)  BY <1>2 DEF ListsOf
  <2>3. refs \in [Objects -> 0..2]  BY DEF Typing, TypeOK
  <2>4. CASE p # o
    <3>1. Letting(p)' = Letting(p)  BY <1>1, <1>3, <2>4 DEF Letting, At
    <3>2. refs'[p] = refs[p]  BY <1>3, <2>3, <2>4
    <3> QED  BY <2>1, <2>2, <3>1, <3>2
  <2>5. CASE p = o
    <3>1. Letting(p)' = Letting(p) \ {t} /\ t \in Letting(p)
      BY <1>1, <1>3, <2>5 DEF Letting, At
    <3>2. refs[p] > 0  BY <3>1, ReferencedBy DEF ListInv
    <3>3. refs'[p] = refs[p] - 1  BY <1>3, <2>3, <2>5, <3>2
    <3>4. /\ IsFiniteSet(Letting(p)')
          /\ Cardinality(Letting(p)') = Cardinality(Letting(p)) - 1
      BY <2>1, <3>1, FS_RemoveElement
    <3>5. Cardinality(ListsOf(p)) \in Nat /\ Cardinality(Letting(p)) \in Nat
      BY <2>1, ListsFinite, FS_CardinalityType
    <3> QED  BY <2>1, <2>2, <3>3, <3>4, <3>5
  <2> QED  BY <2>4, <2>5
<1>5. OneObjectPerHandler'  BY <1>2 DEF ListInv, OneObjectPerHandler
<1> QED  BY <1>2, <1>4, <1>5 DEF ListInv, Paths

LEMMA ListInvStep == Typing /\ Typing' /\ ListInv /\ [Next]_vars => ListInv'
<1> SUFFICES ASSUME Typing, Typing', ListInv, [Next]_vars PROVE ListInv'
  OBVIOUS
<1>1. CASE UNCHANGED vars
  <2>1. UNCHANGED lists /\ thread' = thread  BY <1>1 DEF vars
  <2> QED  BY <2>1, ListInvSame
<1>2. ASSUME NEW t \in Threads, MethodStep(t) \/ ClientStep(t) PROVE ListInv'
  <2>1. CASE Still(t)  BY <2>1, StillSteps, ListInvSame
  <2>2. CASE \E fn \in Handlers, types \in HandlerTypes : InstallLocal(t, fn, types)
    BY <2>2, ListInvInstall
  <2>3. CASE RemoveLocal(t)  BY <2>3, ListInvUnlink
  <2>4. CASE AcpiUtRemoveReference(t)  BY <2>4, ListInvUnref
  <2> QED  BY <1>2, <2>1, <2>2, <2>3, <2>4, NextCases
<1> QED  BY <1>1, <1>2 DEF Next

\* A handler object has as many references as there are lists it is in and removals
\* under way that have unlinked it, whoever installs and removes what, and in which order.
THEOREM ReferencesMatchLinks == Spec => []RefsMatchLinks
<1>1. ListInv => RefsMatchLinks
  BY DEF ListInv, Counted, RefsMatchLinks, ListsOf, Letting
<1> QED  BY <1>1, TypingInit, TypingStep, ListInvInit, ListInvStep, PTL DEF Spec

\* No list has two objects of one handler.
THEOREM HandlersAreInstalledOnce == Spec => []OneObjectPerHandler
<1>1. ListInv => OneObjectPerHandler  BY DEF ListInv
<1> QED  BY <1>1, TypingInit, TypingStep, ListInvInit, ListInvStep, PTL DEF Spec

-----------------------------------------------------------------------------
(* What runs is installed                                                  *)

\* RunningIsInstalled of one thread.
RunsInstalled(u) ==
    LET i == First(thread[u].types)
    IN  /\ At(u, "global") => global[i] = thread[u].fn
        /\ thread[u].pc \in Dispatching => thread[u].cursor \in Linked(i) \cup {Null}
        /\ At(u, "local") => handler[thread[u].cursor] = thread[u].fn

\* A thread keeps this while it, the handlers and the lists stay as they are.
LEMMA RunsSame ==
  ASSUME NEW u \in Threads, RunsInstalled(u), thread'[u] = thread[u],
         UNCHANGED <<global, lists>>
  PROVE  RunsInstalled(u)'
<1>1. /\ head' = head /\ next' = next /\ handler' = handler /\ global' = global  BY DEF lists
<1>2. \A i : Linked(i)' = Linked(i)  BY <1>1 DEF Linked
<1> QED  BY <1>1, <1>2 DEF RunsInstalled, At

\* And after a step with which it is dispatching nothing.
LEMMA RunsNothing ==
  ASSUME NEW u, thread'[u].pc \notin Dispatching
  PROVE  RunsInstalled(u)'
BY DEF RunsInstalled, Dispatching, At

\* A step of a control method, for its thread.
LEMMA MethodRuns ==
  ASSUME Typing, RunningIsInstalled, NEW t \in Threads, MethodStep(t)
  PROVE  RunsInstalled(t)'
<1>1. RunsInstalled(t)  BY DEF RunningIsInstalled, RunsInstalled, Dispatching
<1>2. t \in DOMAIN thread /\ thread[t].types \in SUBSET NotifyTypes
  BY DEF Typing, TypeOK
<1>3. CASE \/ AcpiExEnterInterpreter(t) \/ LockNamespace(t) \/ AcpiExExitInterpreter(t)
           \/ RequestFails(t) \/ DispatchDone(t) \/ HandlerWaitsForItself(t)
  <2>1. thread'[t].pc \notin Dispatching
    BY <1>2, <1>3 DEF AcpiExEnterInterpreter, LockNamespace, AcpiExExitInterpreter,
       RequestFails, DispatchDone, HandlerWaitsForItself, Goto, Idle, Dispatching,
       Typing, TypeOK
  <2> QED  BY <2>1, RunsNothing
<1>4. ASSUME NEW i \in NotifyTypes, AcpiEvQueueNotifyRequest(t, i) PROVE RunsInstalled(t)'
  <2>1. /\ thread'[t] = [pc |-> "queued", fn |-> Null, types |-> {i}, cursor |-> head[i]]
        /\ UNCHANGED lists
    BY <1>2, <1>4 DEF AcpiEvQueueNotifyRequest, Typing, TypeOK
  <2>2. First({i}) = i  BY FirstIsOne
  <2>3. Linked(i)' = Linked(i)  BY <2>1 DEF lists, Linked
  <2>4. head[i] \in Linked(i) \cup {Null}  BY LinkedIs
  <2>5. /\ thread'[t].pc = "queued" /\ First(thread'[t].types) = i
        /\ thread'[t].cursor = head[i]
    BY <2>1, <2>2
  <2> QED  BY <2>3, <2>4, <2>5 DEF RunsInstalled, At
<1>5. CASE CallGlobal(t) \/ CallLocal(t) \/ HandlerReturns(t)
  <2>1. PICK i \in NotifyTypes : i = First(thread[t].types)
    BY <1>2, <1>5, FirstIsOne
    DEF CallGlobal, CallLocal, HandlerReturns, At, Typing, Shape
  <2>2. \A j : Linked(j)' = Linked(j)
    BY <1>5 DEF CallGlobal, CallLocal, HandlerReturns, lists, Linked
  <2>3. handler' = handler /\ global' = global
    BY <1>5 DEF CallGlobal, CallLocal, HandlerReturns, lists
  <2>4. thread[t].pc \in Dispatching /\ thread[t].cursor \in Linked(i) \cup {Null}
    BY <1>1, <1>5, <2>1
    DEF CallGlobal, CallLocal, HandlerReturns, At, RunsInstalled, Dispatching
  <2>5. CASE CallGlobal(t)
    <3>1. /\ thread'[t].types = thread[t].types /\ thread'[t].cursor = thread[t].cursor
          /\ thread'[t].pc \in {"walk", "global"} /\ thread'[t].fn = global[i]
      BY <1>2, <2>1, <2>5 DEF CallGlobal, Typing, TypeOK
    <3> QED  BY <2>1, <2>2, <2>3, <2>4, <3>1 DEF RunsInstalled, At
  <2>6. CASE CallLocal(t)
    <3>1. /\ thread'[t].types = thread[t].types /\ thread'[t].cursor = thread[t].cursor
          /\ thread'[t].pc = "local" /\ thread'[t].fn = handler[thread[t].cursor]
      BY <1>2, <2>6 DEF CallLocal, Typing, TypeOK
    <3> QED  BY <2>1, <2>2, <2>3, <2>4, <3>1 DEF RunsInstalled, At
  <2>7. CASE HandlerReturns(t)
    <3>1. /\ thread'[t].types = thread[t].types /\ thread'[t].pc = "walk"
          /\ thread'[t].cursor = IF thread[t].pc = "local" THEN next[thread[t].cursor][i]
                                 ELSE thread[t].cursor
      <4>1. thread \in [Threads -> Threadlike]  BY DEF Typing, TypeOK, Threadlike
      <4>2. CASE At(t, "global")
        <5>1. thread' = [thread EXCEPT ![t].pc = "walk", ![t].fn = Null]
          BY <2>7, <4>2 DEF HandlerReturns, At
        <5> QED  BY <4>1, <4>2, <5>1 DEF At, Threadlike
      <4>3. CASE At(t, "local")
        <5>1. thread' = [thread EXCEPT ![t].pc = "walk", ![t].fn = Null,
                                       ![t].cursor = next[thread[t].cursor][i]]
          BY <2>1, <2>7, <4>3 DEF HandlerReturns, At
        <5> QED  BY <4>1, <4>3, <5>1 DEF At, Threadlike
      <4> QED  BY <2>7, <4>2, <4>3 DEF HandlerReturns
    <3>2. thread[t].pc = "local" => thread[t].cursor # Null  BY DEF Typing, Shape
    <3>3. thread'[t].cursor \in Linked(i) \cup {Null}  BY <2>4, <3>1, <3>2, LinkedIs
    <3> QED  BY <2>1, <2>2, <3>1, <3>3 DEF RunsInstalled, At
  <2> QED  BY <1>5, <2>5, <2>6, <2>7
<1> QED  BY <1>3, <1>4, <1>5 DEF MethodStep

\* A step of a client leaves a dispatch alone: it has no lock, and only frees what is in
\* no list, or the namespace is free, and nobody dispatches.
LEMMA ClientRuns ==
  ASSUME Typing, Typing', Locked, ListInv, RunningIsInstalled, NEW t \in Threads,
         ClientStep(t), NEW u \in Threads
  PROVE  RunsInstalled(u)'
<1>1. RunsInstalled(u)  BY DEF RunningIsInstalled, RunsInstalled, Dispatching
<1>2. /\ \A w \in Threads \ {t} : thread'[w] = thread[w]
      /\ thread'[t].pc \notin Dispatching \/ thread'[t] = thread[t]
      /\ thread[t].pc \notin Dispatching
  <2> USE DEF Typing, TypeOK, Dispatching, At, Idle
  <2>1. CASE \E fn \in Handlers, types \in HandlerTypes :
                InstallGlobal(t, fn, types) \/ InstallLocal(t, fn, types)
    BY <2>1 DEF InstallGlobal, InstallLocal
  <2>2. CASE \E fn \in Handlers, types \in HandlerTypes : BeginRemove(t, fn, types)
    BY <2>2 DEF BeginRemove
  <2>3. CASE RemoveGlobal(t) \/ NotInstalled(t)
    BY <2>3 DEF RemoveGlobal, NotInstalled, NextType
  <2>4. CASE RemoveLocal(t)  BY <2>4 DEF RemoveLocal
  <2>5. CASE AcpiUtRemoveReference(t)  BY <2>5 DEF AcpiUtRemoveReference
  <2> QED  BY <2>1, <2>2, <2>3, <2>4, <2>5 DEF ClientStep
<1>3. CASE thread'[u].pc \notin Dispatching  BY <1>3, RunsNothing
<1>4. CASE thread'[u].pc \in Dispatching
  <2>1. u # t /\ thread'[u] = thread[u] /\ thread[u].pc \in Dispatching  BY <1>2, <1>4
  <2>2. namespace # Null
    <3>1. u # Null  BY NotifyAssumption
    <3> QED  BY <2>1, <3>1 DEF Locked, Inside, Dispatching
  <2>3. \/ AcpiUtRemoveReference(t)
        \/ \E fn \in Handlers, types \in HandlerTypes : BeginRemove(t, fn, types)
    BY <2>2 DEF ClientStep, InstallGlobal, InstallLocal, RemoveGlobal, NotInstalled, RemoveLocal
  <2>4. CASE \E fn \in Handlers, types \in HandlerTypes : BeginRemove(t, fn, types)
    <3>1. UNCHANGED <<global, lists>>  BY <2>4 DEF BeginRemove
    <3> QED  BY <1>1, <2>1, <3>1, RunsSame
  <2>5. CASE AcpiUtRemoveReference(t)
    <3>1. PICK i \in NotifyTypes : i = First(thread[u].types)
      BY <2>1, FirstIsOne DEF Typing, TypeOK, Shape, Dispatching
    <3>2. /\ Linked(i)' = Linked(i)
          /\ \A p \in Linked(i) : handler'[p] = handler[p]
      BY <2>5, UnrefLists
    <3>3. global' = global  BY <2>5 DEF AcpiUtRemoveReference
    <3>4. At(u, "local") => thread[u].cursor # Null  BY DEF Typing, Shape, At
    <3> QED  BY <1>1, <2>1, <3>1, <3>2, <3>3, <3>4 DEF RunsInstalled, Dispatching, At
  <2> QED  BY <2>3, <2>4, <2>5
<1> QED  BY <1>3, <1>4

LEMMA RunningInit == Init => RunningIsInstalled
BY DEF Init, RunningIsInstalled, At, Idle

LEMMA RunningStep ==
  Typing /\ Typing' /\ Locked /\ ListInv /\ RunningIsInstalled /\ [Next]_vars
    => RunningIsInstalled'
<1> SUFFICES ASSUME Typing, Typing', Locked, ListInv, RunningIsInstalled, [Next]_vars,
                    NEW u \in Threads
             PROVE  RunsInstalled(u)'
  BY DEF RunningIsInstalled, RunsInstalled, Dispatching
<1>1. RunsInstalled(u)  BY DEF RunningIsInstalled, RunsInstalled, Dispatching
<1>2. CASE UNCHANGED vars
  <2>1. thread'[u] = thread[u] /\ UNCHANGED <<global, lists>>  BY <1>2 DEF vars
  <2> QED  BY <1>1, <2>1, RunsSame
<1>3. ASSUME NEW t \in Threads, MethodStep(t) PROVE RunsInstalled(u)'
  <2>1. CASE u = t  BY <1>3, <2>1, MethodRuns
  <2>2. CASE u # t
    <3>1. UNCHANGED lists /\ thread'[u] = thread[u]
      BY <1>3, <2>2, StillSteps DEF Still
    <3>2. UNCHANGED global
      BY <1>3 DEF MethodStep, AcpiExEnterInterpreter, LockNamespace, AcpiExExitInterpreter,
         AcpiEvQueueNotifyRequest, RequestFails, CallGlobal, CallLocal, HandlerReturns,
         DispatchDone, HandlerWaitsForItself
    <3> QED  BY <1>1, <3>1, <3>2, RunsSame
  <2> QED  BY <2>1, <2>2
<1>4. ASSUME NEW t \in Threads, ClientStep(t) PROVE RunsInstalled(u)'
  BY <1>4, ClientRuns
<1> QED  BY <1>2, <1>3, <1>4 DEF Next

\* A handler that runs is installed and the object a dispatch is at is in its list,
\* although nothing waits for dispatches: a dispatch has the namespace, which every
\* removal needs, and what is freed without it is in no list.
THEOREM WhatRunsIsInstalled == Spec => []RunningIsInstalled
<1> QED  BY TypingInit, TypingStep, LockedInit, LockedStep, ListInvInit, ListInvStep,
            RunningInit, RunningStep, PTL DEF Spec

-----------------------------------------------------------------------------
(* What a dispatch has still to call                                       *)

\* Nothing follows nothing.
LEMMA NothingFollows ==
  ASSUME NEW f
  PROVE  Reachable(Null, f) = {}
<1>1. Closed({}, Null, f)  BY DEF Closed
<1> QED  BY <1>1, ReachableIsLeast

\* A path does not come back: what follows an object is what is reachable from it,
\* without it.
LEMMA ReachableRest ==
  ASSUME NEW h \in Objects \cup {Null}, NEW f \in Successors, Path(h, f),
         NEW x \in Reachable(h, f)
  PROVE  /\ Reachable(x, f) \subseteq Reachable(h, f)
         /\ x \in Reachable(x, f)
         /\ Reachable(f[x], f) = Reachable(x, f) \ {x}
<1> DEFINE R == Reachable(h, f)  X == Reachable(x, f)  C == Reachable(f[x], f)
<1>1. R \subseteq Objects /\ Closed(R, h, f)  BY ReachableIsClosed
<1>2. x \in Objects /\ x # Null /\ f[x] \in Objects \cup {Null} /\ f[x] \in R \cup {Null}
  BY <1>1, NotifyAssumption DEF Closed
<1>3. X \subseteq Objects /\ Closed(X, x, f) /\ C \subseteq Objects /\ Closed(C, f[x], f)
  BY <1>2, ReachableIsClosed
<1>4. X \subseteq R
  <2>1. Closed(R, x, f)  BY <1>1 DEF Closed
  <2> QED  BY <1>1, <2>1, ReachableIsLeast
<1>5. x \in X  BY <1>2, <1>3 DEF Closed
<1>6. X \subseteq C \cup {x}
  <2>1. Closed(C \cup {x}, x, f)  BY <1>3 DEF Closed
  <2>2. C \cup {x} \in SUBSET Objects  BY <1>2, <1>3
  <2> QED  BY <2>1, <2>2, ReachableIsLeast
<1>7. C \subseteq X
  <2>1. f[x] \in X \cup {Null}  BY <1>3, <1>5 DEF Closed
  <2>2. Closed(X, f[x], f)  BY <1>3, <2>1 DEF Closed
  <2> QED  BY <1>3, <2>2, ReachableIsLeast
<1>8. x \notin C
  <2> SUFFICES ASSUME x \in C PROVE FALSE  OBVIOUS
  <2>1. C \subseteq R  BY <1>4, <1>7
  <2>2. \A y \in C : \E p \in C : f[p] = y
    <3> SUFFICES ASSUME NEW y \in C PROVE \E p \in C : f[p] = y  OBVIOUS
    <3>1. y = f[x] \/ \E p \in C : f[p] = y  BY <1>2, ReachableFrom
    <3> QED  BY <3>1
  <2>3. \A p \in R : f[p] \in C => p \in C
    <3> SUFFICES ASSUME NEW p \in R, f[p] \in C PROVE p \in C  OBVIOUS
    <3>1. PICK q \in C : f[q] = f[p]  BY <2>2
    <3>2. f[p] # Null  BY <1>3, NotifyAssumption
    <3> QED  BY <2>1, <3>1, <3>2 DEF Path
  <2>4. h \notin C
    <3> SUFFICES ASSUME h \in C PROVE FALSE  OBVIOUS
    <3>1. PICK p \in C : f[p] = h  BY <2>2
    <3>2. h # Null  BY <1>3, NotifyAssumption
    <3> QED  BY <2>1, <3>1, <3>2 DEF Path
  <2>5. Closed(R \ C, h, f)
    <3>1. h \in (R \ C) \cup {Null}  BY <1>1, <2>4 DEF Closed
    <3>2. \A p \in R \ C : f[p] \in (R \ C) \cup {Null}  BY <1>1, <2>3 DEF Closed
    <3> QED  BY <3>1, <3>2 DEF Closed
  <2>6. R \ C \in SUBSET Objects  BY <1>1
  <2>7. Reachable(h, f) \subseteq R \ C  BY <2>5, <2>6, ReachableIsLeast
  <2> QED  BY <2>1, <2>7
<1> QED  BY <1>4, <1>5, <1>6, <1>7, <1>8

\* The handlers of linked objects are there, a request is at the head of its list, and
\* what runs or is to be removed is a handler.
Named == \A i \in NotifyTypes : \A o \in Linked(i) : handler[o] # Null
AtHead == \A t \in Threads :
              At(t, "queued") => thread[t].cursor = head[First(thread[t].types)]
HasHandler == \A t \in Threads :
                  thread[t].pc \in {"global", "local", "stuck", "remove", "removeRoot", "unref"}
                      => thread[t].fn # Null

DeliveryInv == Named /\ AtHead /\ HasHandler

LEMMA DeliveryInit == Init => DeliveryInv
<1> SUFFICES ASSUME Init PROVE DeliveryInv  OBVIOUS
<1>1. Named
  <2> SUFFICES ASSUME NEW i \in NotifyTypes PROVE Linked(i) = {}  BY DEF Named
  <2>1. head[i] = Null  BY DEF Init, NoLinks
  <2> QED  BY <2>1, NothingFollows DEF Linked
<1>2. AtHead /\ HasHandler  BY DEF Init, AtHead, HasHandler, At, Idle
<1> QED  BY <1>1, <1>2 DEF DeliveryInv

LEMMA NamedStep ==
  ASSUME Typing, Typing', ListInv, Named, NEW t \in Threads, MethodStep(t) \/ ClientStep(t)
  PROVE  Named'
<1>1. CASE Still(t)
  <2>1. head' = head /\ next' = next /\ handler' = handler
    BY <1>1, StillSteps DEF lists
  <2>2. \A i : Linked(i)' = Linked(i)  BY <2>1 DEF Linked
  <2> QED  BY <2>1, <2>2 DEF Named
<1>2. ASSUME NEW fn \in Handlers, NEW types \in HandlerTypes, InstallLocal(t, fn, types)
      PROVE  Named'
  <2>1. PICK o \in Objects :
            /\ refs[o] = 0
            /\ handler' = [handler EXCEPT ![o] = fn]
            /\ next' = [next EXCEPT ![o] =
                           [i \in NotifyTypes |-> IF i \in types THEN head[i] ELSE Null]]
            /\ head' = [i \in NotifyTypes |-> IF i \in types THEN o ELSE head[i]]
    BY <1>2 DEF InstallLocal
  <2>2. \A i \in NotifyTypes : Linked(i)' \subseteq Linked(i) \cup {o}
    BY <2>1, InstallLists
  <2>3. handler'[o] = fn /\ fn # Null /\ \A p \in Objects \ {o} : handler'[p] = handler[p]
    BY <2>1, NotifyAssumption DEF Typing, TypeOK
  <2>4. \A i \in NotifyTypes : Linked(i) \subseteq Objects  BY LinkedIs
  <2> SUFFICES ASSUME NEW i \in NotifyTypes, NEW p \in Linked(i)' PROVE handler'[p] # Null
    BY DEF Named
  <2>5. p = o \/ (p \in Linked(i) /\ p \in Objects)  BY <2>2, <2>4
  <2> QED  BY <2>3, <2>5 DEF Named
<1>3. CASE RemoveLocal(t)
  <2>1. PICK k \in NotifyTypes : k = First(thread[t].types)
    BY <1>3, FirstIsOne DEF Typing, TypeOK, Shape, RemoveLocal, At
  <2>2. PICK o \in Objects \cap Linked(k) : Unlink(k, o)
    BY <1>3, <2>1 DEF RemoveLocal
  <2>3. \A i \in NotifyTypes : Linked(i)' \subseteq Linked(i)  BY <2>2, UnlinkLists
  <2>4. handler' = handler  BY <1>3 DEF RemoveLocal
  <2> QED  BY <2>3, <2>4 DEF Named
<1>4. CASE AcpiUtRemoveReference(t)  BY <1>4, UnrefLists DEF Named
<1> QED  BY <1>1, <1>2, <1>3, <1>4, NextCases

\* A client's step leaves the threads in the interpreter as they are, and while there is
\* one it changes neither the handlers nor the heads.
LEMMA ClientAround ==
  ASSUME Typing, Locked, NEW t \in Threads, ClientStep(t), NEW u \in Threads,
         thread[u].pc \in Inside \/ thread'[u].pc \in Inside
  PROVE  /\ u # t /\ thread'[u] = thread[u]
         /\ AcpiUtRemoveReference(t)
            \/ \E fn \in Handlers, types \in HandlerTypes : BeginRemove(t, fn, types)
<1>1. /\ \A w \in Threads \ {t} : thread'[w] = thread[w]
      /\ thread'[t].pc \notin Inside /\ thread[t].pc \notin Inside
  <2> USE DEF Typing, TypeOK, Inside, At, Idle
  <2>1. CASE \E fn \in Handlers, types \in HandlerTypes :
                InstallGlobal(t, fn, types) \/ InstallLocal(t, fn, types)
    BY <2>1 DEF InstallGlobal, InstallLocal
  <2>2. CASE \E fn \in Handlers, types \in HandlerTypes : BeginRemove(t, fn, types)
    BY <2>2 DEF BeginRemove
  <2>3. CASE RemoveGlobal(t) \/ NotInstalled(t)
    BY <2>3 DEF RemoveGlobal, NotInstalled, NextType
  <2>4. CASE RemoveLocal(t)  BY <2>4 DEF RemoveLocal
  <2>5. CASE AcpiUtRemoveReference(t)  BY <2>5 DEF AcpiUtRemoveReference
  <2> QED  BY <2>1, <2>2, <2>3, <2>4, <2>5 DEF ClientStep
<1>2. u # t /\ thread'[u] = thread[u] /\ thread[u].pc \in Inside  BY <1>1
<1>3. namespace # Null  BY <1>2, NotifyAssumption DEF Locked
<1> QED
  BY <1>2, <1>3 DEF ClientStep, InstallGlobal, InstallLocal, RemoveGlobal, NotInstalled,
     RemoveLocal

LEMMA AtHeadStep ==
  ASSUME Typing, Locked, AtHead, NEW t \in Threads, MethodStep(t) \/ ClientStep(t)
  PROVE  AtHead'
<1> SUFFICES ASSUME NEW u \in Threads, thread'[u].pc = "queued"
             PROVE  thread'[u].cursor = head'[First(thread'[u].types)]
  BY DEF AtHead, At
<1>1. CASE MethodStep(t)
  <2>1. head' = head  BY <1>1, StillSteps DEF Still, lists
  <2>2. CASE u # t
    <3>1. thread'[u] = thread[u]  BY <1>1, <2>2, StillSteps DEF Still
    <3> QED  BY <2>1, <3>1 DEF AtHead, At
  <2>3. CASE u = t
    <3>1. PICK i \in NotifyTypes : AcpiEvQueueNotifyRequest(t, i)
      <4> USE DEF Typing, TypeOK, At, Goto, Idle
      <4>1. CASE \/ AcpiExEnterInterpreter(t) \/ LockNamespace(t) \/ RequestFails(t)
                 \/ DispatchDone(t) \/ HandlerWaitsForItself(t)
        BY <2>3, <4>1 DEF AcpiExEnterInterpreter, LockNamespace, RequestFails, DispatchDone,
           HandlerWaitsForItself
      <4>2. CASE AcpiExExitInterpreter(t)  BY <2>3, <4>2 DEF AcpiExExitInterpreter
      <4>3. CASE CallGlobal(t)  BY <2>3, <4>3 DEF CallGlobal
      <4>4. CASE CallLocal(t)  BY <2>3, <4>4 DEF CallLocal
      <4>5. CASE HandlerReturns(t)  BY <2>3, <4>5 DEF HandlerReturns
      <4> QED  BY <1>1, <4>1, <4>2, <4>3, <4>4, <4>5 DEF MethodStep
    <3>2. thread'[t] = [pc |-> "queued", fn |-> Null, types |-> {i}, cursor |-> head[i]]
      BY <3>1 DEF AcpiEvQueueNotifyRequest, Typing, TypeOK
    <3>3. First({i}) = i  BY FirstIsOne
    <3>4. thread'[t].cursor = head[i] /\ thread'[t].types = {i}  BY <3>2
    <3> QED  BY <2>1, <2>3, <3>3, <3>4
  <2> QED  BY <2>2, <2>3
<1>2. CASE ClientStep(t)
  <2>1. /\ thread'[u] = thread[u]
        /\ AcpiUtRemoveReference(t)
           \/ \E fn \in Handlers, types \in HandlerTypes : BeginRemove(t, fn, types)
    BY <1>2, ClientAround DEF Inside
  <2>2. head' = head  BY <2>1 DEF AcpiUtRemoveReference, BeginRemove, lists
  <2> QED  BY <2>1, <2>2 DEF AtHead, At
<1> QED  BY <1>1, <1>2

LEMMA HasHandlerStep ==
  ASSUME Typing, RunningIsInstalled, Named, HasHandler, NEW t \in Threads,
         MethodStep(t) \/ ClientStep(t)
  PROVE  HasHandler'
<1> DEFINE Places == {"global", "local", "stuck", "remove", "removeRoot", "unref"}
<1>1. \A u \in Threads \ {t} : thread'[u] = thread[u]
  <2>1. CASE Still(t)  BY <2>1, StillSteps
  <2>2. CASE \E fn \in Handlers, types \in HandlerTypes : InstallLocal(t, fn, types)
    BY <2>2 DEF InstallLocal
  <2>3. CASE RemoveLocal(t)  BY <2>3 DEF RemoveLocal, Typing, TypeOK
  <2>4. CASE AcpiUtRemoveReference(t)  BY <2>4 DEF AcpiUtRemoveReference, Typing, TypeOK
  <2> QED  BY <2>1, <2>2, <2>3, <2>4, NextCases
<1> SUFFICES ASSUME thread'[t].pc \in Places PROVE thread'[t].fn # Null
  BY <1>1 DEF HasHandler
<1>2. thread \in [Threads -> Threadlike]  BY DEF Typing, TypeOK, Threadlike
<1>3. thread[t].pc \in Places => thread[t].fn # Null  BY DEF HasHandler
<1>4. Null \notin Handlers  BY NotifyAssumption
<1>5. CASE \/ AcpiExEnterInterpreter(t) \/ LockNamespace(t) \/ AcpiExExitInterpreter(t)
           \/ RequestFails(t) \/ DispatchDone(t) \/ HandlerReturns(t)
           \/ \E i \in NotifyTypes : AcpiEvQueueNotifyRequest(t, i)
  <2>1. thread'[t].pc \notin Places
    BY <1>2, <1>5 DEF AcpiExEnterInterpreter, LockNamespace, AcpiExExitInterpreter,
       RequestFails, DispatchDone, HandlerReturns, AcpiEvQueueNotifyRequest, Goto, Idle,
       Threadlike
  <2> QED  BY <2>1
<1>6. CASE CallGlobal(t)
  <2> DEFINE fn == global[First(thread[t].types)]
  <2>1. thread' = [thread EXCEPT ![t].pc = IF fn = Null THEN "walk" ELSE "global", ![t].fn = fn]
    BY <1>6 DEF CallGlobal
  <2> HIDE DEF fn
  <2> QED  BY <1>2, <2>1 DEF Threadlike
<1>7. CASE CallLocal(t)
  <2>1. thread'[t].fn = handler[thread[t].cursor]
    BY <1>2, <1>7 DEF CallLocal, Threadlike
  <2>2. PICK i \in NotifyTypes : i = First(thread[t].types)
    BY <1>7, FirstIsOne DEF CallLocal, At, Typing, TypeOK, Shape
  <2>3. thread[t].cursor \in Linked(i)
    BY <1>7, <2>2 DEF CallLocal, At, RunningIsInstalled, Dispatching
  <2> QED  BY <2>1, <2>3 DEF Named
<1>8. CASE HandlerWaitsForItself(t)
  <2>1. thread'[t].fn = thread[t].fn /\ thread[t].pc \in Places
    BY <1>2, <1>8 DEF HandlerWaitsForItself, Goto, At, Threadlike
  <2> QED  BY <1>3, <2>1
<1>9. ASSUME NEW fn \in Handlers, NEW types \in HandlerTypes,
             InstallGlobal(t, fn, types) \/ InstallLocal(t, fn, types)
      PROVE  thread'[t].fn # Null
  <2>1. thread' = thread  BY <1>9 DEF InstallGlobal, InstallLocal
  <2> QED  BY <1>3, <2>1
<1>10. ASSUME NEW fn \in Handlers, NEW types \in HandlerTypes, BeginRemove(t, fn, types)
       PROVE  thread'[t].fn # Null
  <2>1. thread'[t].fn = fn  BY <1>2, <1>10 DEF BeginRemove, Threadlike
  <2> QED  BY <1>4, <2>1
<1>11. CASE RemoveGlobal(t) \/ NotInstalled(t)
  <2>1. thread'[t].pc \notin Places \/ (thread'[t].fn = thread[t].fn /\ thread[t].pc \in Places)
    BY <1>2, <1>11 DEF RemoveGlobal, NotInstalled, NextType, Idle, At, Threadlike
  <2> QED  BY <1>3, <2>1
<1>12. CASE RemoveLocal(t)
  <2>1. thread'[t].fn = thread[t].fn /\ thread[t].pc \in Places
    BY <1>2, <1>12 DEF RemoveLocal, At, Threadlike
  <2> QED  BY <1>3, <2>1
<1>13. CASE AcpiUtRemoveReference(t)
  <2>1. thread'[t].pc \notin Places \/ (thread'[t].fn = thread[t].fn /\ thread[t].pc \in Places)
    BY <1>2, <1>13 DEF AcpiUtRemoveReference, Idle, At, Threadlike
  <2> QED  BY <1>3, <2>1
<1> QED
  BY <1>5, <1>6, <1>7, <1>8, <1>9, <1>10, <1>11, <1>12, <1>13 DEF MethodStep, ClientStep

LEMMA DeliveryInvStep ==
  Typing /\ Typing' /\ Locked /\ ListInv /\ RunningIsInstalled /\ DeliveryInv /\ [Next]_vars
    => DeliveryInv'
<1> SUFFICES ASSUME Typing, Typing', Locked, ListInv, RunningIsInstalled, DeliveryInv,
                    [Next]_vars
             PROVE  DeliveryInv'
  OBVIOUS
<1>1. CASE UNCHANGED vars
  <2>1. head' = head /\ next' = next /\ handler' = handler /\ thread' = thread
    BY <1>1 DEF vars, lists
  <2>2. \A i : Linked(i)' = Linked(i)  BY <2>1 DEF Linked
  <2> QED  BY <2>1, <2>2 DEF DeliveryInv, Named, AtHead, HasHandler, At
<1>2. ASSUME NEW t \in Threads, MethodStep(t) \/ ClientStep(t) PROVE DeliveryInv'
  BY <1>2, NamedStep, AtHeadStep, HasHandlerStep DEF DeliveryInv
<1> QED  BY <1>1, <1>2 DEF Next

-----------------------------------------------------------------------------
(* The notify handlers implement NotifyDelivery                            *)

\* A thread that delivers nothing has nothing of a delivery.
LEMMA NothingDue ==
  ASSUME NEW t \in Threads, thread[t].pc \notin Dispatching \cup {"stuck"}
  PROVE  Due[t] = {} /\ Runs[t] = Null /\ t \notin Stuck
BY DEF Due, Runs, Stuck, Dispatching, At

LEMMA NothingDueNext ==
  ASSUME NEW t \in Threads, thread'[t].pc \notin Dispatching \cup {"stuck"}
  PROVE  Due'[t] = {} /\ Runs'[t] = Null /\ t \notin Stuck'
BY DEF Due, Runs, Stuck, Dispatching, At

\* Nothing is delivered while the namespace is free, or with a thread in a method.
LEMMA QuietWhen ==
  ASSUME Locked, NEW t \in Threads, namespace = Null \/ thread[t].pc = "method"
  PROVE  Delivery!Quiet
<1> SUFFICES ASSUME NEW u \in Threads PROVE Due[u] = {} /\ Runs[u] = Null
  BY DEF Delivery!Quiet
<1>1. thread[u].pc \notin Dispatching \cup {"stuck"}
  BY NotifyAssumption DEF Locked, Inside, Dispatching
<1> QED  BY <1>1, NothingDue

\* A thread's part of a delivery stays with its place, the handlers and the lists.
LEMMA PartSame ==
  ASSUME NEW u \in Threads, thread'[u] = thread[u], UNCHANGED <<global, lists>>
  PROVE  Due'[u] = Due[u] /\ Runs'[u] = Runs[u] /\ (u \in Stuck' <=> u \in Stuck)
<1>1. head' = head /\ next' = next /\ handler' = handler /\ global' = global  BY DEF lists
<1>2. Root' = Root  BY <1>1 DEF Root
<1>3. ToCall(u)' = ToCall(u)  BY <1>1 DEF ToCall, At
<1>4. Calls(u)' = Calls(u)  BY <1>1, <1>2, <1>3 DEF Calls, At
<1> QED  BY <1>4 DEF Due, Runs, Stuck, At

LEMMA RegistrySame ==
  ASSUME UNCHANGED <<global, lists>>
  PROVE  Root' = Root /\ Device' = Device
<1>1. head' = head /\ next' = next /\ handler' = handler /\ global' = global  BY DEF lists
<1>2. \A i : Linked(i)' = Linked(i)  BY <1>1 DEF Linked
<1> QED  BY <1>1, <1>2 DEF Root, Device

\* What the others see of a step of thread t in which no handler is installed or removed.
Untouched(t) == /\ Root' = Root /\ Device' = Device
                /\ \A u \in Threads \ {t} : /\ Due'[u] = Due[u] /\ Runs'[u] = Runs[u]
                                            /\ (u \in Stuck' <=> u \in Stuck)

LEMMA MethodUntouched ==
  ASSUME Typing, NEW t \in Threads, MethodStep(t)
  PROVE  Untouched(t)
<1>1. UNCHANGED lists /\ \A u \in Threads : u # t => thread'[u] = thread[u]
  BY StillSteps DEF Still
<1>2. global' = global
  BY DEF MethodStep, AcpiExEnterInterpreter, LockNamespace, AcpiExExitInterpreter,
     AcpiEvQueueNotifyRequest, RequestFails, CallGlobal, CallLocal, HandlerReturns,
     DispatchDone, HandlerWaitsForItself
<1>3. UNCHANGED <<global, lists>>  BY <1>1, <1>2
<1> QED  BY <1>1, <1>3, PartSame, RegistrySame DEF Untouched

\* What is left of the step is what the thread itself has to call and runs.
LEMMA MovesOne ==
  ASSUME NEW t \in Threads, Untouched(t), NEW d, NEW r, Due'[t] = d, Runs'[t] = r
  PROVE  Due' = [Due EXCEPT ![t] = d] /\ Runs' = [Runs EXCEPT ![t] = r]
BY DEF Untouched, Due, Runs

LEMMA StuckSame ==
  ASSUME NEW t \in Threads, Untouched(t), t \notin Stuck, t \notin Stuck'
  PROVE  Stuck' = Stuck
BY DEF Untouched, Stuck

LEMMA StuckMore ==
  ASSUME NEW t \in Threads, Untouched(t), t \in Stuck'
  PROVE  Stuck' = Stuck \cup {t}
BY DEF Untouched, Stuck

LEMMA SeesNothing ==
  ASSUME NEW t \in Threads, Untouched(t), Due'[t] = Due[t], Runs'[t] = Runs[t],
         t \notin Stuck, t \notin Stuck'
  PROVE  UNCHANGED Delivery!deliveryVars
<1>1. Due' = Due /\ Runs' = Runs  BY DEF Untouched, Due, Runs
<1>2. Stuck' = Stuck  BY StuckSame
<1> QED  BY <1>1, <1>2 DEF Untouched, Delivery!deliveryVars

\* What a dispatch calls, by its place: one of a kind, at an object of its list or at the end.
LEMMA ToCallIs ==
  ASSUME Typing, ListInv, RunningIsInstalled, NEW t \in Threads, thread[t].pc \in Dispatching,
         NEW i, i = First(thread[t].types)
  PROVE  /\ i \in NotifyTypes
         /\ thread[t].cursor \in Linked(i) \cup {Null}
         /\ ToCall(t) \subseteq Linked(i)
         /\ thread[t].cursor # Null => thread[t].cursor \in Reachable(thread[t].cursor, Succ(i))
         /\ ToCall(t) = IF thread[t].pc = "local"
                        THEN Reachable(thread[t].cursor, Succ(i)) \ {thread[t].cursor}
                        ELSE Reachable(thread[t].cursor, Succ(i))
<1>1. i \in NotifyTypes  BY FirstIsOne DEF Typing, TypeOK, Shape, Dispatching
<1>2. thread[t].cursor \in Linked(i) \cup {Null}  BY DEF RunningIsInstalled
<1>3. ToCall(t) = {o \in Reachable(thread[t].cursor, Succ(i)) :
                      At(t, "local") => o # thread[t].cursor}
  BY DEF ToCall, Succ
<1>4. CASE thread[t].cursor = Null
  <2>1. Reachable(thread[t].cursor, Succ(i)) = {}  BY <1>4, NothingFollows
  <2> QED  BY <1>1, <1>2, <1>3, <1>4, <2>1
<1>5. CASE thread[t].cursor # Null
  <2>1. PICK x : x = thread[t].cursor  OBVIOUS
  <2>2. x \in Reachable(head[i], Succ(i)) /\ head[i] \in Objects \cup {Null}
        /\ Succ(i) \in Successors /\ Path(head[i], Succ(i))
    BY <1>1, <1>2, <1>5, <2>1, LinkedIs DEF ListInv, Paths
  <2>3. Reachable(x, Succ(i)) \subseteq Reachable(head[i], Succ(i)) /\ x \in Reachable(x, Succ(i))
    BY <2>2, ReachableRest
  <2>4. Reachable(head[i], Succ(i)) = Linked(i)  BY <1>1, LinkedIs
  <2> QED  BY <1>1, <1>2, <1>3, <1>5, <2>1, <2>3, <2>4 DEF At
<1> QED  BY <1>4, <1>5

LEMMA DueIs ==
  ASSUME NEW t \in Threads, thread[t].pc \in Dispatching
  PROVE  Due[t] = ({"root"} \X {fn \in Root[First(thread[t].types)] : At(t, "queued")})
                  \cup ({"device"} \X {handler[o] : o \in ToCall(t)})
BY DEF Due, Calls

LEMMA DueIsNext ==
  ASSUME NEW t \in Threads, thread'[t].pc \in Dispatching
  PROVE  Due'[t] = ({"root"} \X {fn \in Root'[First(thread'[t].types)] : At(t, "queued")'})
                   \cup ({"device"} \X {handler'[o] : o \in ToCall(t)'})
BY DEF Due, Calls

\* After a step in which the links stay and the thread keeps its kind.
LEMMA ToCallNext ==
  ASSUME NEW t \in Threads, next' = next, thread'[t].types = thread[t].types,
         NEW i, i = First(thread[t].types)
  PROVE  ToCall(t)' = {o \in Reachable(thread'[t].cursor, Succ(i)) :
                          thread'[t].pc = "local" => o # thread'[t].cursor}
BY DEF ToCall, Succ, At

\* A request is due to call all that listen.
LEMMA RequestDue ==
  ASSUME Typing, NEW i \in NotifyTypes
  PROVE  /\ Delivery!Listening(i) = ({"root"} \X Root[i])
                                    \cup ({"device"} \X {handler[o] : o \in Linked(i)})
         /\ global[i] # Null \/ head[i] # Null => Delivery!Listening(i) # {}
<1>1. Device[i] = {handler[o] : o \in Linked(i)} /\ Root[i] = {global[i]} \ {Null}
  BY DEF Device, Root
<1>2. Delivery!Listening(i) = ({"root"} \X Root[i]) \cup ({"device"} \X Device[i])
  BY DEF Delivery!Listening
<1>3. global[i] # Null => <<"root", global[i]>> \in Delivery!Listening(i)
  BY <1>1, <1>2
<1>4. head[i] # Null => <<"device", handler[head[i]]>> \in Delivery!Listening(i)
  <2> SUFFICES ASSUME head[i] # Null PROVE <<"device", handler[head[i]]>> \in Delivery!Listening(i)
    OBVIOUS
  <2>1. head[i] \in Linked(i)  BY LinkedIs
  <2>2. handler[head[i]] \in Device[i]  BY <1>1, <2>1
  <2> QED  BY <1>2, <2>2
<1> QED  BY <1>1, <1>2, <1>3, <1>4

LEMMA NotifyMaps ==
  ASSUME Typing, Locked, NEW t \in Threads, NEW i \in NotifyTypes, AcpiEvQueueNotifyRequest(t, i)
  PROVE  Delivery!Quiet /\ Delivery!Notify(t, i)
<1>1. Untouched(t)  BY MethodUntouched DEF MethodStep
<1>2. thread'[t] = [pc |-> "queued", fn |-> Null, types |-> {i}, cursor |-> head[i]]
  BY DEF AcpiEvQueueNotifyRequest, Typing, TypeOK
<1>3. First({i}) = i  BY FirstIsOne
<1>4. /\ thread'[t].pc = "queued" /\ First(thread'[t].types) = i /\ thread'[t].cursor = head[i]
      /\ next' = next /\ handler' = handler
  BY <1>2, <1>3 DEF AcpiEvQueueNotifyRequest, lists
<1>5. ToCall(t)' = Linked(i)
  <2>1. ToCall(t)' = {o \in Reachable(head[i], Succ(i)) : TRUE}
    BY <1>4 DEF ToCall, Succ, At
  <2> QED  BY <2>1, LinkedIs
<1>6. thread[t].pc = "method"  BY DEF AcpiEvQueueNotifyRequest, At
<1>7. Due'[t] = Delivery!Listening(i)
  <2>1. Due'[t] = ({"root"} \X {fn \in Root'[i] : At(t, "queued")'})
                  \cup ({"device"} \X {handler'[o] : o \in ToCall(t)'})
    BY <1>4, DueIsNext DEF Dispatching
  <2>2. {fn \in Root'[i] : At(t, "queued")'} = Root[i]  BY <1>1, <1>4 DEF Untouched, At
  <2>3. {handler'[o] : o \in ToCall(t)'} = {handler[o] : o \in Linked(i)}  BY <1>4, <1>5
  <2> QED  BY <2>1, <2>2, <2>3, RequestDue
<1>8. Runs'[t] = Null /\ Runs[t] = Null /\ t \notin Stuck /\ t \notin Stuck'
  BY <1>4, <1>6 DEF Runs, Stuck, At
<1>9. Due' = [Due EXCEPT ![t] = Delivery!Listening(i)] /\ Runs' = Runs
  <2>1. Runs' = [Runs EXCEPT ![t] = Null] /\ Runs = [Runs EXCEPT ![t] = Null]
    BY <1>1, <1>7, <1>8, MovesOne DEF Runs
  <2> QED  BY <1>1, <1>7, <1>8, <2>1, MovesOne
<1>10. Stuck' = Stuck  BY <1>1, <1>8, StuckSame
<1>11. Delivery!Listening(i) # {}  BY RequestDue DEF AcpiEvQueueNotifyRequest
<1>12. Delivery!Quiet  BY <1>6, QuietWhen
<1> QED  BY <1>1, <1>9, <1>10, <1>11, <1>12 DEF Delivery!Notify, Untouched

LEMMA FailMaps ==
  ASSUME Typing, DeliveryInv, NEW t \in Threads, RequestFails(t)
  PROVE  \E i \in NotifyTypes : Delivery!Fail(t, i)
<1>1. Untouched(t)  BY MethodUntouched DEF MethodStep
<1>2. PICK i \in NotifyTypes : i = First(thread[t].types)
  BY FirstIsOne DEF RequestFails, At, Typing, TypeOK, Shape
<1>3. thread[t].pc = "queued" /\ thread[t].cursor = head[i]
  BY <1>2 DEF RequestFails, At, DeliveryInv, AtHead
<1>4. ToCall(t) = Linked(i)
  <2>1. ToCall(t) = {o \in Reachable(head[i], Succ(i)) : TRUE}
    BY <1>2, <1>3 DEF ToCall, Succ, At
  <2> QED  BY <2>1, LinkedIs
<1>5. Due[t] = Delivery!Listening(i)
  <2>1. {fn \in Root[i] : At(t, "queued")} = Root[i]  BY <1>3 DEF At
  <2> QED  BY <1>2, <1>3, <1>4, <2>1, DueIs, RequestDue DEF Dispatching
<1>6. thread'[t].pc = "exit"  BY DEF RequestFails, Typing, TypeOK, Idle
<1>7. Due'[t] = {} /\ Runs'[t] = Null /\ t \notin Stuck'
  BY <1>6, NothingDueNext DEF Dispatching
<1>8. Runs[t] = Null /\ t \notin Stuck  BY <1>3 DEF Runs, Stuck, At
<1>9. Due' = [Due EXCEPT ![t] = {}] /\ Runs' = Runs
  <2>1. Runs' = [Runs EXCEPT ![t] = Null] /\ Runs = [Runs EXCEPT ![t] = Null]
    BY <1>1, <1>7, <1>8, MovesOne DEF Runs
  <2> QED  BY <1>1, <1>7, <2>1, MovesOne
<1>10. Stuck' = Stuck  BY <1>1, <1>7, <1>8, StuckSame
<1> QED  BY <1>1, <1>5, <1>8, <1>9, <1>10 DEF Delivery!Fail, Untouched

LEMMA CallGlobalMaps ==
  ASSUME Typing, ListInv, RunningIsInstalled, NEW t \in Threads, CallGlobal(t)
  PROVE  (\E x \in Due[t] : Delivery!Call(t, x)) \/ UNCHANGED Delivery!deliveryVars
<1>1. Untouched(t)  BY MethodUntouched DEF MethodStep
<1>2. PICK i \in NotifyTypes : i = First(thread[t].types)
  BY FirstIsOne DEF CallGlobal, At, Typing, TypeOK, Shape
<1>3. PICK fn : fn = global[i]  OBVIOUS
<1>4. /\ thread[t].pc = "queued" /\ thread'[t].pc = IF fn = Null THEN "walk" ELSE "global"
      /\ thread'[t].fn = fn /\ thread'[t].types = thread[t].types
      /\ thread'[t].cursor = thread[t].cursor /\ next' = next /\ handler' = handler
  BY <1>2, <1>3 DEF CallGlobal, At, Typing, TypeOK, lists
<1>5. ToCall(t)' = ToCall(t)
  <2>1. ToCall(t)' = {o \in Reachable(thread[t].cursor, Succ(i)) : TRUE}
    BY <1>2, <1>4, ToCallNext
  <2> QED  BY <1>2, <1>4, <2>1, ToCallIs DEF Dispatching
<1>6. PICK D : D = {"device"} \X {handler[o] : o \in ToCall(t)}  OBVIOUS
<1>7. Root[i] = {fn} \ {Null}  BY <1>3 DEF Root
<1>8. Due[t] = ({"root"} \X ({fn} \ {Null})) \cup D
  <2>1. {f \in Root[i] : At(t, "queued")} = {fn} \ {Null}  BY <1>4, <1>7 DEF At
  <2> QED  BY <1>2, <1>4, <1>6, <2>1, DueIs DEF Dispatching
<1>9. Due'[t] = D
  <2>1. {f \in Root'[First(thread'[t].types)] : At(t, "queued")'} = {}  BY <1>4 DEF At
  <2>2. {handler'[o] : o \in ToCall(t)'} = {handler[o] : o \in ToCall(t)}  BY <1>4, <1>5
  <2>3. thread'[t].pc \in Dispatching  BY <1>4 DEF Dispatching
  <2>4. {"root"} \X {} = {}  OBVIOUS
  <2> QED  BY <1>6, <2>1, <2>2, <2>3, <2>4, DueIsNext
<1>10. Runs[t] = Null /\ t \notin Stuck /\ t \notin Stuck'  BY <1>4 DEF Runs, Stuck, At
<1>11. CASE fn = Null
  <2>1. Runs'[t] = Null  BY <1>4, <1>11 DEF Runs
  <2>2. Due'[t] = Due[t]  BY <1>8, <1>9, <1>11
  <2> QED  BY <1>1, <1>10, <2>1, <2>2, SeesNothing
<1>12. CASE fn # Null
  <2>1. Runs'[t] = fn  BY <1>4, <1>12 DEF Runs
  <2> DEFINE x == <<"root", fn>>
  <2>2. x \in Due[t] /\ Due'[t] = Due[t] \ {x}
    <3>1. {"root"} \X ({fn} \ {Null}) = {x}  BY <1>12
    <3>2. x \notin D  BY <1>6
    <3> QED  BY <1>8, <1>9, <3>1, <3>2
  <2>3. Due' = [Due EXCEPT ![t] = Due[t] \ {x}] /\ Runs' = [Runs EXCEPT ![t] = x[2]]
    <3>1. x[2] = fn  OBVIOUS
    <3> HIDE DEF x
    <3> QED  BY <1>1, <2>1, <2>2, <3>1, MovesOne
  <2>4. Stuck' = Stuck  BY <1>1, <1>10, StuckSame
  <2>5. Delivery!Call(t, x)
    <3>1. x[1] # "device"  OBVIOUS
    <3> HIDE DEF x
    <3> QED  BY <1>1, <1>10, <2>2, <2>3, <2>4, <3>1 DEF Delivery!Call, Untouched
  <2> QED  BY <2>2, <2>5
<1> QED  BY <1>11, <1>12

LEMMA CallLocalMaps ==
  ASSUME Typing, ListInv, RunningIsInstalled, NEW t \in Threads, CallLocal(t)
  PROVE  \E x \in Due[t] : Delivery!Call(t, x)
<1>1. Untouched(t)  BY MethodUntouched DEF MethodStep
<1>2. PICK i \in NotifyTypes : i = First(thread[t].types)
  BY FirstIsOne DEF CallLocal, At, Typing, TypeOK, Shape
<1>3. PICK c : c = thread[t].cursor  OBVIOUS
<1>4. /\ thread[t].pc = "walk" /\ c # Null /\ thread'[t].pc = "local"
      /\ thread'[t].fn = handler[c] /\ thread'[t].types = thread[t].types
      /\ thread'[t].cursor = c /\ next' = next /\ handler' = handler
  BY <1>3 DEF CallLocal, At, Typing, TypeOK, lists
<1>5. PICK X : X = Reachable(c, Succ(i))  OBVIOUS
<1>6. ToCall(t) = X /\ c \in X /\ X \subseteq Linked(i)
  BY <1>2, <1>3, <1>4, <1>5, ToCallIs DEF Dispatching
<1>7. ToCall(t)' = X \ {c}
  <2>1. ToCall(t)' = {o \in X : o # c}  BY <1>2, <1>4, <1>5, ToCallNext
  <2> QED  BY <2>1
<1>8. Due[t] = {"device"} \X {handler[o] : o \in X}
  <2>1. {f \in Root[First(thread[t].types)] : At(t, "queued")} = {}  BY <1>4 DEF At
  <2>2. {"root"} \X {} = {}  OBVIOUS
  <2> QED  BY <1>4, <1>6, <2>1, <2>2, DueIs DEF Dispatching
<1>9. Due'[t] = {"device"} \X {handler[o] : o \in X \ {c}}
  <2>1. {f \in Root'[First(thread'[t].types)] : At(t, "queued")'} = {}  BY <1>4 DEF At
  <2>2. {handler'[o] : o \in ToCall(t)'} = {handler[o] : o \in X \ {c}}  BY <1>4, <1>7
  <2>3. thread'[t].pc \in Dispatching  BY <1>4 DEF Dispatching
  <2>4. {"root"} \X {} = {}  OBVIOUS
  <2> QED  BY <2>1, <2>2, <2>3, <2>4, DueIsNext
<1>10. /\ Runs[t] = Null /\ t \notin Stuck /\ t \notin Stuck' /\ Runs'[t] = handler[c]
  BY <1>4 DEF Runs, Stuck, At
<1> DEFINE x == <<"device", handler[c]>>
<1>11. x \in Due[t] /\ Due'[t] = Due[t] \ {x}
  <2>1. \A o \in X : handler[o] = handler[c] => o = c
    BY <1>2, <1>6 DEF ListInv, OneObjectPerHandler
  <2>2. {handler[o] : o \in X \ {c}} = {handler[o] : o \in X} \ {handler[c]}
    BY <1>6, <2>1
  <2>3. handler[c] \in {handler[o] : o \in X}  BY <1>6
  <2>4. PICK H : H = {handler[o] : o \in X}  OBVIOUS
  <2>5. {"device"} \X (H \ {handler[c]}) = ({"device"} \X H) \ {x}  OBVIOUS
  <2> QED  BY <1>8, <1>9, <2>2, <2>3, <2>4, <2>5
<1>12. Due' = [Due EXCEPT ![t] = Due[t] \ {x}] /\ Runs' = [Runs EXCEPT ![t] = x[2]]
  <2>1. x[2] = handler[c]  OBVIOUS
  <2> HIDE DEF x
  <2> QED  BY <1>1, <1>10, <1>11, <2>1, MovesOne
<1>13. Stuck' = Stuck  BY <1>1, <1>10, StuckSame
<1>14. \A y \in Due[t] : y[1] = "device"  BY <1>8
<1>15. Delivery!Call(t, x)
  <2> HIDE DEF x
  <2> QED  BY <1>1, <1>10, <1>11, <1>12, <1>13, <1>14 DEF Delivery!Call, Untouched
<1> QED  BY <1>11, <1>15

LEMMA ReturnMaps ==
  ASSUME Typing, ListInv, RunningIsInstalled, DeliveryInv, NEW t \in Threads, HandlerReturns(t)
  PROVE  Delivery!Return(t)
<1>1. Untouched(t)  BY MethodUntouched DEF MethodStep
<1>2. PICK i \in NotifyTypes : i = First(thread[t].types)
  BY FirstIsOne DEF HandlerReturns, At, Typing, TypeOK, Shape
<1>3. PICK c : c = thread[t].cursor  OBVIOUS
<1>4. /\ thread[t].pc \in {"global", "local"} /\ thread'[t].pc = "walk"
      /\ thread'[t].types = thread[t].types
      /\ thread'[t].cursor = IF thread[t].pc = "local" THEN next[c][i] ELSE c
      /\ next' = next /\ handler' = handler
  <2>1. thread \in [Threads -> Threadlike]  BY DEF Typing, TypeOK, Threadlike
  <2>2. next' = next /\ handler' = handler  BY DEF HandlerReturns, lists
  <2>3. CASE At(t, "global")
    <3>1. thread' = [thread EXCEPT ![t].pc = "walk", ![t].fn = Null]
      BY <2>3 DEF HandlerReturns, At
    <3> QED  BY <1>3, <2>1, <2>2, <2>3, <3>1 DEF At, Threadlike
  <2>4. CASE At(t, "local")
    <3>1. thread' = [thread EXCEPT ![t].pc = "walk", ![t].fn = Null, ![t].cursor = next[c][i]]
      BY <1>2, <1>3, <2>4 DEF HandlerReturns, At
    <3> QED  BY <2>1, <2>2, <2>4, <3>1 DEF At, Threadlike
  <2> QED  BY <2>3, <2>4 DEF HandlerReturns
<1>5. ToCall(t)' = ToCall(t)
  <2>1. ToCall(t)' = {o \in Reachable(thread'[t].cursor, Succ(i)) : TRUE}
    BY <1>2, <1>4, ToCallNext
  <2>2. thread[t].pc \in Dispatching  BY <1>4 DEF Dispatching
  <2>3. CASE thread[t].pc = "global"
    BY <1>2, <1>3, <1>4, <2>1, <2>2, <2>3, ToCallIs
  <2>4. CASE thread[t].pc = "local"
    <3>1. ToCall(t) = Reachable(c, Succ(i)) \ {c}  BY <1>2, <1>3, <2>2, <2>4, ToCallIs
    <3>2. c # Null  BY <1>3, <2>4 DEF Typing, Shape
    <3>3. c \in Linked(i)  BY <1>2, <1>3, <2>2, <3>2, ToCallIs
    <3>4. /\ head[i] \in Objects \cup {Null} /\ Succ(i) \in Successors /\ Path(head[i], Succ(i))
          /\ c \in Reachable(head[i], Succ(i)) /\ Succ(i)[c] = next[c][i]
      BY <3>3, LinkedIs DEF ListInv, Paths
    <3>5. Reachable(Succ(i)[c], Succ(i)) = Reachable(c, Succ(i)) \ {c}
      BY <3>4, ReachableRest
    <3> QED  BY <1>4, <2>1, <2>4, <3>1, <3>4, <3>5
  <2> QED  BY <1>4, <2>3, <2>4
<1>6. Due'[t] = Due[t]
  <2>1. {f \in Root[First(thread[t].types)] : At(t, "queued")} = {}  BY <1>4 DEF At
  <2>2. {f \in Root'[First(thread'[t].types)] : At(t, "queued")'} = {}  BY <1>4 DEF At
  <2>3. thread[t].pc \in Dispatching /\ thread'[t].pc \in Dispatching  BY <1>4 DEF Dispatching
  <2>4. {handler'[o] : o \in ToCall(t)'} = {handler[o] : o \in ToCall(t)}  BY <1>4, <1>5
  <2>5. PICK a : a = {handler[o] : o \in ToCall(t)}  OBVIOUS
  <2>6. Due[t] = ({"root"} \X {}) \cup ({"device"} \X a)
    <3>1. Due[t] = ({"root"} \X {fn \in Root[First(thread[t].types)] : At(t, "queued")})
                   \cup ({"device"} \X {handler[o] : o \in ToCall(t)})
      BY <2>3, DueIs
    <3> QED  BY ONLY <2>1, <2>5, <3>1
  <2>7. Due'[t] = ({"root"} \X {}) \cup ({"device"} \X a)
    <3>1. Due'[t] = ({"root"} \X {fn \in Root'[First(thread'[t].types)] : At(t, "queued")'})
                    \cup ({"device"} \X {handler'[o] : o \in ToCall(t)'})
      BY <2>3, DueIsNext
    <3> QED  BY ONLY <2>2, <2>4, <2>5, <3>1
  <2> QED  BY <2>6, <2>7
<1>7. Runs[t] # Null /\ Runs'[t] = Null /\ t \notin Stuck /\ t \notin Stuck'
  <2>1. thread[t].fn # Null  BY <1>4 DEF DeliveryInv, HasHandler
  <2> QED  BY <1>4, <2>1 DEF Runs, Stuck, At
<1>8. Due' = Due /\ Runs' = [Runs EXCEPT ![t] = Null]
  <2>1. Due' = [Due EXCEPT ![t] = Due[t]] /\ Due = [Due EXCEPT ![t] = Due[t]]
    BY <1>1, <1>6, <1>7, MovesOne DEF Due
  <2> QED  BY <1>1, <1>6, <1>7, <2>1, MovesOne
<1>9. Stuck' = Stuck  BY <1>1, <1>7, StuckSame
<1> QED  BY <1>1, <1>7, <1>8, <1>9 DEF Delivery!Return, Untouched

LEMMA HangMaps ==
  ASSUME Typing, DeliveryInv, NEW t \in Threads, HandlerWaitsForItself(t)
  PROVE  Delivery!Hang(t)
<1>1. Untouched(t)  BY MethodUntouched DEF MethodStep
<1>2. /\ thread[t].pc \in {"global", "local"} /\ thread'[t].pc = "stuck"
      /\ thread'[t].fn = thread[t].fn
  BY DEF HandlerWaitsForItself, Goto, At, Typing, TypeOK
<1>3. Runs[t] # Null /\ Runs'[t] = Runs[t]
  <2>1. thread[t].fn # Null  BY <1>2 DEF DeliveryInv, HasHandler
  <2> QED  BY <1>2, <2>1 DEF Runs
<1>4. Due'[t] = {} /\ t \in Stuck'  BY <1>2 DEF Due, Stuck, At, Dispatching
<1>5. Due' = [Due EXCEPT ![t] = {}] /\ Runs' = Runs
  <2>1. Runs' = [Runs EXCEPT ![t] = Runs[t]] /\ Runs = [Runs EXCEPT ![t] = Runs[t]]
    BY <1>1, <1>3, <1>4, MovesOne DEF Runs
  <2> QED  BY <1>1, <1>3, <1>4, <2>1, MovesOne
<1>6. Stuck' = Stuck \cup {t}  BY <1>1, <1>4, StuckMore
<1> QED  BY <1>1, <1>3, <1>5, <1>6 DEF Delivery!Hang, Untouched

\* At the end of its list a dispatch has nothing left to call.
LEMMA DoneMaps ==
  ASSUME Typing, ListInv, RunningIsInstalled, NEW t \in Threads, DispatchDone(t)
  PROVE  UNCHANGED Delivery!deliveryVars
<1>1. Untouched(t)  BY MethodUntouched DEF MethodStep
<1>2. thread[t].pc = "walk" /\ thread[t].cursor = Null /\ thread'[t].pc = "method"
  BY DEF DispatchDone, At, Idle, Typing, TypeOK
<1>3. Due[t] = {}
  <2>1. ToCall(t) = {}  BY <1>2, ToCallIs, NothingFollows DEF Dispatching
  <2>2. {f \in Root[First(thread[t].types)] : At(t, "queued")} = {}  BY <1>2 DEF At
  <2>3. {"root"} \X {} = {} /\ {"device"} \X {} = {} /\ {handler[o] : o \in {}} = {}  OBVIOUS
  <2> QED  BY <1>2, <2>1, <2>2, <2>3, DueIs DEF Dispatching
<1>4. Runs[t] = Null /\ t \notin Stuck  BY <1>2 DEF Runs, Stuck, At
<1>5. Due'[t] = {} /\ Runs'[t] = Null /\ t \notin Stuck'
  BY <1>2, NothingDueNext DEF Dispatching
<1> QED  BY <1>1, <1>3, <1>4, <1>5, SeesNothing

\* Into the interpreter and out of it.
LEMMA EnterExitMaps ==
  ASSUME Typing, NEW t \in Threads,
         AcpiExEnterInterpreter(t) \/ LockNamespace(t) \/ AcpiExExitInterpreter(t)
  PROVE  UNCHANGED Delivery!deliveryVars
<1>1. Untouched(t)  BY MethodUntouched DEF MethodStep
<1>2. /\ thread[t].pc \in {"idle", "enter", "method", "exit"}
      /\ thread'[t].pc \in {"idle", "enter", "method", "exit"}
  <2>1. CASE AcpiExEnterInterpreter(t) \/ LockNamespace(t)
    BY <2>1 DEF AcpiExEnterInterpreter, LockNamespace, Goto, At, Typing, TypeOK
  <2>2. CASE AcpiExExitInterpreter(t)
    BY <2>2 DEF AcpiExExitInterpreter, At, Idle, Typing, TypeOK
  <2> QED  BY <2>1, <2>2
<1>3. Due[t] = {} /\ Runs[t] = Null /\ t \notin Stuck  BY <1>2, NothingDue DEF Dispatching
<1>4. Due'[t] = {} /\ Runs'[t] = Null /\ t \notin Stuck'
  BY <1>2, NothingDueNext DEF Dispatching
<1> QED  BY <1>1, <1>3, <1>4, SeesNothing

LEMMA MethodMaps ==
  ASSUME Typing, Locked, ListInv, RunningIsInstalled, DeliveryInv, NEW t \in Threads,
         MethodStep(t)
  PROVE  Delivery!Next \/ UNCHANGED Delivery!deliveryVars
<1>1. ASSUME NEW i \in NotifyTypes, AcpiEvQueueNotifyRequest(t, i) PROVE Delivery!Next
  BY <1>1, NotifyMaps DEF Delivery!Next, Delivery!Change
<1>2. CASE RequestFails(t)  BY <1>2, FailMaps DEF Delivery!Next, Delivery!Deliver
<1>3. CASE CallGlobal(t)  BY <1>3, CallGlobalMaps DEF Delivery!Next, Delivery!Deliver
<1>4. CASE CallLocal(t)  BY <1>4, CallLocalMaps DEF Delivery!Next, Delivery!Deliver
<1>5. CASE HandlerReturns(t)  BY <1>5, ReturnMaps DEF Delivery!Next, Delivery!Deliver
<1>6. CASE HandlerWaitsForItself(t)  BY <1>6, HangMaps DEF Delivery!Next, Delivery!Deliver
<1> QED
  BY <1>1, <1>2, <1>3, <1>4, <1>5, <1>6, DoneMaps, EnterExitMaps DEF MethodStep

-----------------------------------------------------------------------------
\* While the namespace is free a step of a client changes no delivery: there is none.
LEMMA NoDelivery ==
  ASSUME Locked, Locked', namespace = Null, namespace' = Null, NEW t \in Threads
  PROVE  Delivery!Quiet /\ Due' = Due /\ Runs' = Runs /\ Stuck' = Stuck
<1>1. Delivery!Quiet  BY QuietWhen
<1>2. ASSUME NEW u \in Threads
      PROVE  /\ Due'[u] = Due[u] /\ Runs'[u] = Runs[u] /\ u \notin Stuck /\ u \notin Stuck'
  <2>1. /\ thread[u].pc \notin Dispatching \cup {"stuck"}
        /\ thread'[u].pc \notin Dispatching \cup {"stuck"}
    BY NotifyAssumption DEF Locked, Inside, Dispatching
  <2> QED  BY <2>1, NothingDue, NothingDueNext
<1>3. Due' = Due /\ Runs' = Runs  BY <1>2 DEF Due, Runs
<1>4. Stuck' = Stuck  BY <1>2 DEF Stuck
<1> QED  BY <1>1, <1>3, <1>4

LEMMA InstallGlobalMaps ==
  ASSUME Typing, Locked, Locked', NEW t \in Threads, NEW fn \in Handlers,
         NEW types \in HandlerTypes, InstallGlobal(t, fn, types)
  PROVE  Delivery!Next
<1>1. PICK free : free = {i \in types : \A j \in types : j <= i => global[j] = Null}
  OBVIOUS
<1>2. /\ free # {} /\ namespace = Null /\ namespace' = Null /\ UNCHANGED lists
      /\ global' = [i \in NotifyTypes |-> IF i \in free THEN fn ELSE global[i]]
  BY <1>1 DEF InstallGlobal
<1>3. free \in (SUBSET NotifyTypes) \ {{}} /\ \A i \in free : global[i] = Null
  <2>1. types \subseteq NotifyTypes  BY DEF HandlerTypes
  <2>2. \A i \in NotifyTypes : i <= i  BY DEF NotifyTypes
  <2> QED  BY <1>1, <1>2, <2>1, <2>2
<1>4. Delivery!Quiet /\ Due' = Due /\ Runs' = Runs /\ Stuck' = Stuck
  BY <1>2, NoDelivery
<1>5. Device' = Device
  <2>1. head' = head /\ next' = next /\ handler' = handler  BY <1>2 DEF lists
  <2>2. \A i : Linked(i)' = Linked(i)  BY <2>1 DEF Linked
  <2> QED  BY <2>1, <2>2 DEF Device
<1>6. Root' = [i \in NotifyTypes |-> IF i \in free THEN {fn} ELSE Root[i]]
  <2>1. fn # Null  BY NotifyAssumption
  <2>2. \A i \in NotifyTypes : {global'[i]} \ {Null} = IF i \in free THEN {fn} ELSE Root[i]
    BY <1>2, <2>1 DEF Root
  <2> QED  BY <2>2 DEF Root
<1>7. \A i \in free : Root[i] = {}  BY <1>3 DEF Root
<1>8. Delivery!InstallRoot(fn, free)  BY <1>4, <1>5, <1>6, <1>7 DEF Delivery!InstallRoot
<1> QED  BY <1>3, <1>4, <1>8 DEF Delivery!Next, Delivery!Change

LEMMA RemoveGlobalMaps ==
  ASSUME Typing, Locked, Locked', DeliveryInv, NEW t \in Threads, RemoveGlobal(t)
  PROVE  Delivery!Next
<1>1. PICK i \in NotifyTypes : i = First(thread[t].types)
  BY FirstIsOne DEF RemoveGlobal, At, Typing, TypeOK, Shape
<1>2. PICK fn : fn = thread[t].fn  OBVIOUS
<1>3. /\ namespace = Null /\ namespace' = Null /\ UNCHANGED lists /\ global[i] = fn
      /\ global' = [global EXCEPT ![i] = Null] /\ thread[t].pc = "removeRoot"
  BY <1>1, <1>2 DEF RemoveGlobal, At
<1>4. fn \in Handlers /\ fn # Null
  BY <1>2, <1>3 DEF DeliveryInv, HasHandler, Typing, TypeOK
<1>5. Delivery!Quiet /\ Due' = Due /\ Runs' = Runs /\ Stuck' = Stuck
  BY <1>3, NoDelivery
<1>6. Device' = Device
  <2>1. head' = head /\ next' = next /\ handler' = handler  BY <1>3 DEF lists
  <2>2. \A j : Linked(j)' = Linked(j)  BY <2>1 DEF Linked
  <2> QED  BY <2>1, <2>2 DEF Device
<1>7. fn \in Root[i] /\ Root' = [Root EXCEPT ![i] = {}]
  <2>1. \A j \in NotifyTypes : {global'[j]} \ {Null} = IF j = i THEN {} ELSE {global[j]} \ {Null}
    BY <1>3 DEF Typing, TypeOK
  <2> QED  BY <1>3, <1>4, <2>1 DEF Root
<1>8. Delivery!RemoveRoot(fn, i)  BY <1>5, <1>6, <1>7 DEF Delivery!RemoveRoot
<1> QED  BY <1>4, <1>5, <1>8 DEF Delivery!Next, Delivery!Change

LEMMA InstallLocalMaps ==
  ASSUME Typing, Typing', Locked, Locked', ListInv, NEW t \in Threads, NEW fn \in Handlers,
         NEW types \in HandlerTypes, InstallLocal(t, fn, types)
  PROVE  Delivery!Next
<1>1. PICK o \in Objects :
          /\ refs[o] = 0
          /\ handler' = [handler EXCEPT ![o] = fn]
          /\ next' = [next EXCEPT ![o] =
                         [i \in NotifyTypes |-> IF i \in types THEN head[i] ELSE Null]]
          /\ head' = [i \in NotifyTypes |-> IF i \in types THEN o ELSE head[i]]
  BY DEF InstallLocal
<1>2. \A i \in NotifyTypes :
          /\ o \notin Linked(i)
          /\ Linked(i)' = IF i \in types THEN Linked(i) \cup {o} ELSE Linked(i)
  BY <1>1, InstallLists
<1>3. /\ handler'[o] = fn /\ \A p \in Objects \ {o} : handler'[p] = handler[p]
      /\ namespace = Null /\ namespace' = Null /\ global' = global
      /\ types \in (SUBSET NotifyTypes) \ {{}}
  BY <1>1 DEF Typing, TypeOK, HandlerTypes, InstallLocal
<1>4. Delivery!Quiet /\ Due' = Due /\ Runs' = Runs /\ Stuck' = Stuck
  BY <1>3, NoDelivery
<1>5. Root' = Root  BY <1>3 DEF Root
<1>6. \A i \in types : fn \notin Device[i]
  BY <1>3 DEF Device, InstallLocal, Absent
<1>7. Device' = [i \in NotifyTypes |-> IF i \in types THEN Device[i] \cup {fn} ELSE Device[i]]
  <2> SUFFICES ASSUME NEW i \in NotifyTypes
               PROVE  {handler'[p] : p \in Linked(i)'}
                        = IF i \in types THEN Device[i] \cup {fn} ELSE Device[i]
    BY DEF Device
  <2>1. \A p \in Linked(i) : handler'[p] = handler[p]  BY <1>2, <1>3, LinkedIs
  <2>2. Device[i] = {handler[p] : p \in Linked(i)}  BY DEF Device
  <2>3. {handler'[p] : p \in Linked(i)} = Device[i]  BY <2>1, <2>2
  <2>4. {handler'[p] : p \in Linked(i) \cup {o}} = {handler'[p] : p \in Linked(i)} \cup {fn}
    BY <1>3
  <2> QED  BY <1>2, <2>3, <2>4
<1>8. Delivery!Install(fn, types)  BY <1>4, <1>5, <1>6, <1>7 DEF Delivery!Install
<1> QED  BY <1>3, <1>4, <1>8 DEF Delivery!Next, Delivery!Change

LEMMA RemoveLocalMaps ==
  ASSUME Typing, Typing', Locked, Locked', ListInv, DeliveryInv, NEW t \in Threads,
         RemoveLocal(t)
  PROVE  Delivery!Next
<1>1. PICK k \in NotifyTypes : k = First(thread[t].types)
  BY FirstIsOne DEF Typing, TypeOK, Shape, RemoveLocal, At
<1>2. PICK fn : fn = thread[t].fn  OBVIOUS
<1>3. PICK o \in Objects \cap Linked(k) : handler[o] = fn /\ Unlink(k, o)
  BY <1>1, <1>2 DEF RemoveLocal
<1>4. \A i \in NotifyTypes : Linked(i)' = IF i = k THEN Linked(i) \ {o} ELSE Linked(i)
  BY <1>3, UnlinkLists
<1>5. /\ namespace = Null /\ namespace' = Null /\ handler' = handler /\ global' = global
      /\ thread[t].pc = "remove"
  BY DEF RemoveLocal, At
<1>6. fn \in Handlers
  BY <1>2, <1>5 DEF DeliveryInv, HasHandler, Typing, TypeOK
<1>7. Delivery!Quiet /\ Due' = Due /\ Runs' = Runs /\ Stuck' = Stuck
  BY <1>5, NoDelivery
<1>8. Root' = Root  BY <1>5 DEF Root
<1>9. fn \in Device[k] /\ Device' = [Device EXCEPT ![k] = Device[k] \ {fn}]
  <2>1. Device[k] = {handler[p] : p \in Linked(k)}  BY DEF Device
  <2>2. \A p \in Linked(k) : handler[p] = fn => p = o
    BY <1>3 DEF ListInv, OneObjectPerHandler
  <2>3. {handler[p] : p \in Linked(k) \ {o}} = Device[k] \ {fn}  BY <1>3, <2>1, <2>2
  <2>4. \A i \in NotifyTypes : {handler'[p] : p \in Linked(i)'}
                                 = IF i = k THEN Device[k] \ {fn} ELSE Device[i]
    BY <1>4, <1>5, <2>3 DEF Device
  <2>5. fn \in Device[k]  BY <1>3, <2>1
  <2> QED  BY <2>4, <2>5 DEF Device
<1>10. Delivery!Remove(fn, k)  BY <1>7, <1>8, <1>9 DEF Delivery!Remove
<1> QED  BY <1>6, <1>7, <1>10 DEF Delivery!Next, Delivery!Change

\* The reference that is given back is of no handler that a dispatch can reach.
LEMMA UnrefMaps ==
  ASSUME Typing, Typing', Locked, ListInv, RunningIsInstalled, NEW t \in Threads,
         AcpiUtRemoveReference(t)
  PROVE  UNCHANGED Delivery!deliveryVars
<1>1. \A i \in NotifyTypes :
          /\ Linked(i)' = Linked(i)
          /\ \A p \in Linked(i) : handler'[p] = handler[p] /\ next'[p][i] = next[p][i]
  BY UnrefLists
<1>2. global' = global /\ Root' = Root  BY DEF AcpiUtRemoveReference, Root
<1>3. Device' = Device
  <2>1. \A i \in NotifyTypes : {handler'[p] : p \in Linked(i)'} = {handler[p] : p \in Linked(i)}
    BY <1>1
  <2> QED  BY <2>1 DEF Device
<1>4. ASSUME NEW u \in Threads
      PROVE  Due'[u] = Due[u] /\ Runs'[u] = Runs[u] /\ (u \in Stuck' <=> u \in Stuck)
  <2>1. CASE thread[u].pc \notin Inside /\ thread'[u].pc \notin Inside
    <3>1. /\ thread[u].pc \notin Dispatching \cup {"stuck"}
          /\ thread'[u].pc \notin Dispatching \cup {"stuck"}
      BY <2>1 DEF Inside, Dispatching
    <3> QED  BY <3>1, NothingDue, NothingDueNext
  <2>2. CASE thread[u].pc \in Inside \/ thread'[u].pc \in Inside
    <3>1. thread'[u] = thread[u]  BY <2>2, ClientAround DEF ClientStep
    <3>2. Runs'[u] = Runs[u] /\ (u \in Stuck' <=> u \in Stuck)  BY <3>1 DEF Runs, Stuck, At
    <3>3. CASE thread[u].pc \notin Dispatching  BY <3>1, <3>2, <3>3 DEF Due
    <3>4. CASE thread[u].pc \in Dispatching
      <4>1. PICK i \in NotifyTypes : i = First(thread[u].types)  BY <3>4, ToCallIs
      <4>2. ToCall(u) \subseteq Linked(i)  BY <3>4, <4>1, ToCallIs
      <4>3. ToCall(u)' = ToCall(u)
        <5>1. PICK c, f, g : c = thread[u].cursor /\ f = Succ(i) /\ g = Succ(i)'  OBVIOUS
        <5>2. /\ c \in Linked(i) \cup {Null} /\ f \in Successors /\ g \in Successors
              /\ \A p \in Linked(i) : g[p] = f[p]
          BY <1>1, <3>4, <4>1, <5>1, ToCallIs, LinkedIs, LinkedIsNext
        <5>3. Reachable(c, f) \subseteq Linked(i) /\ c \in Objects \cup {Null}
          <6>1. CASE c = Null  BY <6>1, NothingFollows
          <6>2. CASE c # Null
            <7>1. /\ head[i] \in Objects \cup {Null} /\ Path(head[i], f)
                  /\ c \in Reachable(head[i], f) /\ Reachable(head[i], f) = Linked(i)
              BY <5>1, <5>2, <6>2, LinkedIs DEF ListInv, Paths
            <7> QED  BY <5>2, <7>1, ReachableRest, LinkedIs
          <6> QED  BY <6>1, <6>2
        <5>4. Reachable(c, g) = Reachable(c, f)  BY <5>2, <5>3, ReachableSame
        <5>5. ToCall(u) = {o \in Reachable(c, f) : At(u, "local") => o # c}
          BY <4>1, <5>1 DEF ToCall, Succ
        <5>6. ToCall(u)' = {o \in Reachable(c, g) : At(u, "local") => o # c}
          BY <3>1, <4>1, <5>1 DEF ToCall, Succ, At
        <5> QED  BY <5>4, <5>5, <5>6
      <4>4. {handler'[o] : o \in ToCall(u)'} = {handler[o] : o \in ToCall(u)}
        BY <1>1, <4>2, <4>3
      <4>5. {fn \in Root'[First(thread'[u].types)] : At(u, "queued")'}
              = {fn \in Root[First(thread[u].types)] : At(u, "queued")}
        BY <1>2, <3>1 DEF At
      <4> QED  BY <3>1, <3>2, <3>4, <4>4, <4>5, DueIs, DueIsNext
    <3> QED  BY <3>3, <3>4
  <2> QED  BY <2>1, <2>2
<1>5. Due' = Due /\ Runs' = Runs  BY <1>4 DEF Due, Runs
<1>6. Stuck' = Stuck  BY <1>4 DEF Stuck
<1> QED  BY <1>2, <1>3, <1>5, <1>6 DEF Delivery!deliveryVars

\* A removal that begins, or finds nothing, changes no list.
LEMMA ClientStutters ==
  ASSUME Typing, NEW t \in Threads,
         \/ NotInstalled(t)
         \/ \E fn \in Handlers, types \in HandlerTypes : BeginRemove(t, fn, types)
  PROVE  UNCHANGED Delivery!deliveryVars
<1>1. /\ UNCHANGED <<global, lists>>
      /\ \A u \in Threads : u # t => thread'[u] = thread[u]
      /\ thread[t].pc \in {"idle", "remove", "removeRoot"}
      /\ thread'[t].pc \in {"idle", "remove", "removeRoot"}
  <2>1. CASE NotInstalled(t)
    BY <2>1 DEF NotInstalled, At, Idle, Typing, TypeOK
  <2>2. CASE \E fn \in Handlers, types \in HandlerTypes : BeginRemove(t, fn, types)
    BY <2>2 DEF BeginRemove, At, Typing, TypeOK
  <2> QED  BY <2>1, <2>2
<1>2. Untouched(t)  BY <1>1, PartSame, RegistrySame DEF Untouched
<1>3. Due[t] = {} /\ Runs[t] = Null /\ t \notin Stuck  BY <1>1, NothingDue DEF Dispatching
<1>4. Due'[t] = {} /\ Runs'[t] = Null /\ t \notin Stuck'
  BY <1>1, NothingDueNext DEF Dispatching
<1> QED  BY <1>2, <1>3, <1>4, SeesNothing

LEMMA ClientMaps ==
  ASSUME Typing, Typing', Locked, Locked', ListInv, RunningIsInstalled, DeliveryInv,
         NEW t \in Threads, ClientStep(t)
  PROVE  Delivery!Next \/ UNCHANGED Delivery!deliveryVars
<1>1. CASE \E fn \in Handlers, types \in HandlerTypes :
              InstallGlobal(t, fn, types) \/ InstallLocal(t, fn, types)
  BY <1>1, InstallGlobalMaps, InstallLocalMaps
<1>2. CASE RemoveGlobal(t)  BY <1>2, RemoveGlobalMaps
<1>3. CASE RemoveLocal(t)  BY <1>3, RemoveLocalMaps
<1>4. CASE AcpiUtRemoveReference(t)  BY <1>4, UnrefMaps
<1>5. CASE \/ NotInstalled(t)
           \/ \E fn \in Handlers, types \in HandlerTypes : BeginRemove(t, fn, types)
  BY <1>5, ClientStutters
<1> QED  BY <1>1, <1>2, <1>3, <1>4, <1>5 DEF ClientStep

LEMMA DeliveryMapsInit == Init => Delivery!Init
<1> SUFFICES ASSUME Init PROVE Delivery!Init  OBVIOUS
<1>1. \A i \in NotifyTypes : Linked(i) = {}
  <2> SUFFICES ASSUME NEW i \in NotifyTypes PROVE Linked(i) = {}  OBVIOUS
  <2>1. head[i] = Null  BY DEF Init, NoLinks
  <2> QED  BY <2>1, NothingFollows DEF Linked
<1>2. Device = [i \in NotifyTypes |-> {}] /\ Root = [i \in NotifyTypes |-> {}]
  <2>1. \A i \in NotifyTypes : {handler[o] : o \in Linked(i)} = {}  BY <1>1
  <2>2. \A i \in NotifyTypes : {global[i]} \ {Null} = {}  BY DEF Init
  <2> QED  BY <2>1, <2>2 DEF Device, Root
<1>3. \A t \in Threads : thread[t].pc = "idle"  BY DEF Init, Idle
<1>4. /\ Due = [t \in Threads |-> {}] /\ Runs = [t \in Threads |-> Null] /\ Stuck = {}
  BY <1>3 DEF Due, Runs, Stuck, Dispatching, At
<1> QED  BY <1>2, <1>4 DEF Delivery!Init

LEMMA DeliveryMapsStep ==
  Typing /\ Typing' /\ Locked /\ Locked' /\ ListInv /\ RunningIsInstalled /\ DeliveryInv
    /\ [Next]_vars => [Delivery!Next]_(Delivery!deliveryVars)
<1> SUFFICES ASSUME Typing, Typing', Locked, Locked', ListInv, RunningIsInstalled,
                    DeliveryInv, [Next]_vars
             PROVE  Delivery!Next \/ UNCHANGED Delivery!deliveryVars
  OBVIOUS
<1>1. CASE UNCHANGED vars
  <2>1. thread' = thread /\ UNCHANGED <<global, lists>>  BY <1>1 DEF vars
  <2>2. \A u \in Threads : Due'[u] = Due[u] /\ Runs'[u] = Runs[u] /\ (u \in Stuck' <=> u \in Stuck)
    BY <2>1, PartSame
  <2>3. Due' = Due /\ Runs' = Runs  BY <2>2 DEF Due, Runs
  <2>4. Stuck' = Stuck  BY <2>2 DEF Stuck
  <2> QED  BY <2>1, <2>3, <2>4, RegistrySame DEF Delivery!deliveryVars
<1>2. ASSUME NEW t \in Threads, MethodStep(t) \/ ClientStep(t)
      PROVE  Delivery!Next \/ UNCHANGED Delivery!deliveryVars
  BY <1>2, MethodMaps, ClientMaps
<1> QED  BY <1>1, <1>2 DEF Next

\* A notification calls each handler that is installed when it is made, once, the global
\* one first, and no other, unless it cannot be queued or a handler hangs; handlers come
\* and go one at a time, and never while one is delivered.
THEOREM HandlersImplementDelivery == Spec => ImplementsDelivery
<1> QED  BY TypingInit, TypingStep, LockedInit, LockedStep, ListInvInit, ListInvStep,
            RunningInit, RunningStep, DeliveryInit, DeliveryInvStep, DeliveryMapsInit,
            DeliveryMapsStep, PTL DEF Spec, ImplementsDelivery, Delivery!Spec
=============================================================================
