--------------------------- MODULE AmlMutexProofs ---------------------------
(***************************************************************************)
(* Proofs about the AML mutexes and the interpreter lock, for any finite   *)
(* set of threads, any mutexes and both meanings of the deadline zero.     *)
(*                                                                         *)
(* The argument is about one lock at a time. What a thread may do to a     *)
(* semaphore is one of six moves: nothing, settle with a unit it was       *)
(* handed, take the unit, join the queue, signal, quit the queue. Each     *)
(* keeps what is said of the lock (Local), and each action is, on each     *)
(* lock, one of them.                                                      *)
(***************************************************************************)
EXTENDS AmlMutex, FiniteSetTheorems, TLAPS

In(x, q) == \E i \in DOMAIN q : q[i] = x
Once(q)  == \A i, j \in DOMAIN q : q[i] = q[j] => i = j

-----------------------------------------------------------------------------
(* Queues without repetitions                                              *)

LEMMA AppendQueue ==
  ASSUME NEW T, NEW q \in Seq(T), Once(q), NEW x \in T, ~In(x, q),
         NEW r, r = Append(q, x)
  PROVE  /\ r \in Seq(T) /\ r # <<>>
         /\ Once(r)
         /\ \A u : In(u, r) <=> In(u, q) \/ u = x
  <1>1. /\ r \in Seq(T) /\ r # <<>> /\ Len(q) \in Nat
        /\ DOMAIN q = 1..Len(q) /\ DOMAIN r = 1..(Len(q) + 1)
        /\ \A i \in 1..Len(q) : r[i] = q[i]
        /\ r[Len(q) + 1] = x
    OBVIOUS
  <1>2. \A i \in DOMAIN q : q[i] # x
    BY DEF In
  <1>3. Once(r)
    BY <1>1, <1>2 DEF Once
  <1>4. ASSUME NEW u, In(u, r) PROVE In(u, q) \/ u = x
    BY <1>1, <1>4 DEF In
  <1>5. ASSUME NEW u, In(u, q) PROVE In(u, r)
    <2>1. PICK i \in DOMAIN q : q[i] = u
      BY <1>5 DEF In
    <2>2. i \in DOMAIN r /\ r[i] = u
      BY <1>1, <2>1
    <2> QED BY <2>2 DEF In
  <1>6. In(x, r)
    <2>1. Len(q) + 1 \in DOMAIN r
      BY <1>1
    <2> QED BY <1>1, <2>1 DEF In
  <1> QED BY <1>1, <1>3, <1>4, <1>5, <1>6

LEMMA TailQueue ==
  ASSUME NEW T, NEW q \in Seq(T), Once(q), q # <<>>, NEW r, r = Tail(q)
  PROVE  /\ r \in Seq(T)
         /\ Once(r)
         /\ q[1] \in T /\ In(q[1], q)
         /\ \A u : In(u, r) <=> In(u, q) /\ u # q[1]
  <1>1. /\ r \in Seq(T) /\ Len(q) \in Nat \ {0}
        /\ DOMAIN q = 1..Len(q) /\ DOMAIN r = 1..(Len(q) - 1)
    OBVIOUS
  <1>2. \A i \in 1..(Len(q) - 1) : r[i] = q[i + 1]
    OBVIOUS
  <1>3. q[1] \in T /\ In(q[1], q)
    <2>1. 1 \in DOMAIN q
      BY <1>1
    <2> QED BY <2>1 DEF In
  <1>4. Once(r)
    <2> SUFFICES ASSUME NEW i \in DOMAIN r, NEW j \in DOMAIN r, r[i] = r[j] PROVE i = j
      BY DEF Once
    <2>1. i + 1 \in DOMAIN q /\ j + 1 \in DOMAIN q /\ q[i + 1] = q[j + 1]
      BY <1>1, <1>2
    <2>2. i + 1 = j + 1
      BY <2>1 DEF Once
    <2> QED BY <1>1, <2>2
  <1>5. ASSUME NEW u, In(u, r) PROVE In(u, q) /\ u # q[1]
    <2>1. PICK i \in DOMAIN r : r[i] = u
      BY <1>5 DEF In
    <2>2. i + 1 \in DOMAIN q /\ q[i + 1] = u /\ i + 1 # 1 /\ 1 \in DOMAIN q
      BY <1>1, <1>2, <2>1
    <2>3. u # q[1]
      BY <2>2 DEF Once
    <2> QED BY <2>2, <2>3 DEF In
  <1>6. ASSUME NEW u, In(u, q), u # q[1] PROVE In(u, r)
    <2>1. PICK i \in DOMAIN q : q[i] = u
      BY <1>6 DEF In
    <2>2. i - 1 \in DOMAIN r /\ r[i - 1] = u
      BY <1>1, <1>2, <1>6, <2>1
    <2> QED BY <2>2 DEF In
  <1> QED BY <1>1, <1>3, <1>4, <1>5, <1>6

LEMMA RemoveQueue ==
  ASSUME NEW T, NEW q \in Seq(T), Once(q), NEW k \in DOMAIN q, NEW r, r = RemoveAt(q, k)
  PROVE  /\ r \in Seq(T)
         /\ Once(r)
         /\ \A u : In(u, r) <=> In(u, q) /\ u # q[k]
  <1>1. k \in 1..Len(q) /\ Len(q) \in Nat /\ DOMAIN q = 1..Len(q)
    OBVIOUS
  <1> DEFINE a == SubSeq(q, 1, k - 1)
             b == SubSeq(q, k + 1, Len(q))
  <1>2. /\ a \in Seq(T) /\ Len(a) = k - 1
        /\ \A i \in 1..(k - 1) : a[i] = q[i]
    BY <1>1
  <1>3. /\ b \in Seq(T) /\ Len(b) = Len(q) - k
        /\ \A i \in 1..(Len(q) - k) : b[i] = q[k + i]
    BY <1>1
  <1>4. r = a \o b
    BY DEF RemoveAt
  <1> HIDE DEF a, b
  <1>5. /\ r \in Seq(T) /\ Len(r) = Len(a) + Len(b)
        /\ \A i \in 1..Len(a) : r[i] = a[i]
        /\ \A i \in (Len(a) + 1)..(Len(a) + Len(b)) : r[i] = b[i - Len(a)]
    BY ONLY <1>2, <1>3, <1>4
  <1>6. DOMAIN r = 1..(Len(q) - 1)
    BY <1>1, <1>2, <1>3, <1>5
  <1>7. \A i \in 1..(k - 1) : r[i] = q[i]
    BY <1>2, <1>5
  <1>8. ASSUME NEW i \in k..(Len(q) - 1) PROVE r[i] = q[i + 1]
    <2>1. i \in (Len(a) + 1)..(Len(a) + Len(b)) /\ i - Len(a) = i - k + 1
      BY <1>1, <1>2, <1>3
    <2>2. i - k + 1 \in 1..(Len(q) - k) /\ k + (i - k + 1) = i + 1
      BY <1>1
    <2> QED BY <1>3, <1>5, <2>1, <2>2
  <1>9. Once(r)
    <2> SUFFICES ASSUME NEW i \in DOMAIN r, NEW j \in DOMAIN r, r[i] = r[j] PROVE i = j
      BY DEF Once
    <2> DEFINE f(n) == IF n < k THEN n ELSE n + 1
    <2>1. /\ f(i) \in DOMAIN q /\ f(j) \in DOMAIN q
          /\ r[i] = q[f(i)] /\ r[j] = q[f(j)]
      BY <1>1, <1>6, <1>7, <1>8
    <2>2. f(i) = f(j)
      BY <2>1 DEF Once
    <2> QED BY <1>1, <1>6, <2>2
  <1>10. ASSUME NEW u, In(u, r) PROVE In(u, q) /\ u # q[k]
    <2>1. PICK i \in DOMAIN r : r[i] = u
      BY <1>10 DEF In
    <2>2. PICK j \in DOMAIN q : j # k /\ q[j] = u
      <3>1. CASE i < k
        BY <3>1, <2>1, <1>1, <1>6, <1>7
      <3>2. CASE ~(i < k)
        <4>1. i + 1 \in DOMAIN q /\ i + 1 # k /\ q[i + 1] = u
          BY <3>2, <2>1, <1>1, <1>6, <1>8
        <4> QED BY <4>1
      <3> QED BY <3>1, <3>2
    <2>3. u # q[k]
      BY <2>2 DEF Once
    <2> QED BY <2>2, <2>3 DEF In
  <1>11. ASSUME NEW u, In(u, q), u # q[k] PROVE In(u, r)
    <2>1. PICK i \in DOMAIN q : q[i] = u
      BY <1>11 DEF In
    <2>2. i # k
      BY <1>11, <2>1
    <2>3. CASE i < k
      <3>1. i \in DOMAIN r /\ r[i] = u
        BY <2>1, <2>3, <1>1, <1>6, <1>7
      <3> QED BY <3>1 DEF In
    <2>4. CASE ~(i < k)
      <3>1. i - 1 \in DOMAIN r /\ i - 1 \in k..(Len(q) - 1) /\ (i - 1) + 1 = i
        BY <2>1, <2>2, <2>4, <1>1, <1>6
      <3>2. r[i - 1] = u
        BY <3>1, <2>1, <1>8
      <3> QED BY <3>1, <3>2 DEF In
    <2> QED BY <2>3, <2>4
  <1> QED BY <1>5, <1>9, <1>10, <1>11

\* A queue without repetitions is no longer than there are threads.
LEMMA ShortQueue ==
  ASSUME NEW T, IsFiniteSet(T), NEW q \in Seq(T), Once(q)
  PROVE  Len(q) <= Cardinality(T)
  <1>1. Len(q) \in Nat /\ DOMAIN q = 1..Len(q) /\ q \in [1..Len(q) -> T]
    OBVIOUS
  <1>2. q \in Injection(1..Len(q), T)
    BY <1>1 DEF Once, Injection, IsInjective
  <1>3. Cardinality(1..Len(q)) <= Cardinality(T)
    BY <1>2, FS_Injection
  <1>4. Cardinality(1..Len(q)) = Len(q)
    BY <1>1, FS_Interval
  <1> QED BY <1>3, <1>4

-----------------------------------------------------------------------------
(* What is said of one lock                                                *)

\* The places at which a thread has the unit of a lock whatever its queue holds.
Keeps(t, l) == IF l = Interpreter
               THEN thread[t].pc \in {"inside", "try", "leave", "exit"}
               ELSE \/ owner[l] = t
                    \/ /\ thread[t].mutex = l
                       /\ thread[t].pc \in {"back", "reenter"}
                       /\ thread[t].ok

\* Those at which it has asked for the unit: it has it unless it is in the queue.
Wants(t, l) == IF l = Interpreter
               THEN thread[t].pc \in {"enter", "reenter"}
               ELSE thread[t].mutex = l /\ thread[t].pc \in {"wait", "try"}

Has(t, l) == \/ Keeps(t, l)
             \/ Wants(t, l) /\ ~Queued(t, l)

OneUnitOf(l) == \/ units[l] = 1 /\ \A u \in Threads : ~Has(u, l)
                \/ units[l] = 0 /\ \E t \in Threads : \A u \in Threads : Has(u, l) <=> u = t

Local(l) == /\ queue[l] \in Seq(Threads)
            /\ Once(queue[l])
            /\ \A u \in Threads : Queued(u, l) => Wants(u, l)
            /\ OneUnitOf(l)
            /\ queue[l] # <<>> => units[l] = 0

-----------------------------------------------------------------------------
(* The moves of a thread on a lock                                         *)

\* What the others keep and want of it is what it was.
Others(t, l) == \A u \in Threads \ {t} : /\ Keeps(u, l)' <=> Keeps(u, l)
                                         /\ Wants(u, l)' <=> Wants(u, l)

Still(t, l) == /\ queue'[l] = queue[l] /\ units'[l] = units[l]
               /\ Keeps(t, l)' <=> Keeps(t, l)
               /\ Wants(t, l)' <=> Wants(t, l)

\* The place changes, what it has does not: the wait is over, or the mutex its own.
Settles(t, l) == /\ queue'[l] = queue[l] /\ units'[l] = units[l]
                 /\ ~Queued(t, l)
                 /\ Has(t, l)
                 /\ Keeps(t, l)'

Takes(t, l) == /\ queue'[l] = queue[l]
               /\ units[l] > 0 /\ units'[l] = units[l] - 1
               /\ Keeps(t, l)' \/ Wants(t, l)'

Joins(t, l) == /\ units[l] = 0 /\ units'[l] = units[l]
               /\ queue'[l] = Append(queue[l], t)
               /\ ~Wants(t, l)
               /\ Wants(t, l)'
               /\ Keeps(t, l)' <=> Keeps(t, l)

Signals(t, l) == /\ Has(t, l) /\ ~Wants(t, l)
                 /\ ~Keeps(t, l)' /\ ~Wants(t, l)'
                 /\ IF queue[l] = <<>>
                    THEN queue'[l] = queue[l] /\ units'[l] = units[l] + 1
                    ELSE queue'[l] = Tail(queue[l]) /\ units'[l] = units[l]

Quits(t, l) == /\ units'[l] = units[l]
               /\ \E i \in DOMAIN queue[l] :
                     queue[l][i] = t /\ queue'[l] = RemoveAt(queue[l], i)
               /\ ~Wants(t, l)'
               /\ Keeps(t, l)' <=> Keeps(t, l)

Moves(t, l) == /\ Others(t, l)
               /\ \/ Still(t, l) \/ Settles(t, l) \/ Takes(t, l)
                  \/ Joins(t, l) \/ Signals(t, l) \/ Quits(t, l)

LEMMA QueuedIs == ASSUME NEW u, NEW l
                  PROVE  /\ Queued(u, l) <=> In(u, queue[l])
                         /\ Queued(u, l)' <=> In(u, queue'[l])
  BY DEF Queued, In

LEMMA EmptyQueue == \A u : ~In(u, <<>>)
  BY DEF In

LEMMA SettlesKeeps ==
  ASSUME NEW t \in Threads, NEW l \in Locks, Local(l), Others(t, l), Still(t, l) \/ Settles(t, l)
  PROVE  Local(l)'
  <1>1. queue'[l] = queue[l] /\ units'[l] = units[l]
    BY DEF Still, Settles
  <1>2. \A u : Queued(u, l)' <=> Queued(u, l)
    BY <1>1, QueuedIs
  <1>3. \A u \in Threads : Has(u, l)' <=> Has(u, l)
    BY <1>2 DEF Others, Still, Settles, Has
  <1>4. \A u \in Threads : Queued(u, l)' => Wants(u, l)'
    BY <1>2 DEF Local, Others, Still, Settles
  <1>5. OneUnitOf(l)'
    BY <1>1, <1>3 DEF Local, OneUnitOf
  <1> QED BY <1>1, <1>4, <1>5 DEF Local

LEMMA TakesKeeps ==
  ASSUME NEW t \in Threads, NEW l \in Locks, Local(l), Others(t, l), Takes(t, l)
  PROVE  Local(l)'
  <1>1. units[l] = 1 /\ units'[l] = 0 /\ queue'[l] = queue[l] /\ queue[l] = <<>>
    BY DEF Local, OneUnitOf, Takes
  <1>2. \A u : ~Queued(u, l) /\ ~Queued(u, l)'
    BY <1>1, QueuedIs, EmptyQueue
  <1>3. \A u \in Threads : ~Has(u, l)
    BY <1>1 DEF Local, OneUnitOf
  <1>4. \A u \in Threads : Has(u, l)' <=> u = t
    BY <1>2, <1>3 DEF Others, Takes, Has
  <1>5. OneUnitOf(l)'
    BY <1>1, <1>4 DEF OneUnitOf
  <1> QED BY <1>1, <1>2, <1>5 DEF Local

LEMMA JoinsKeeps ==
  ASSUME NEW t \in Threads, NEW l \in Locks, Local(l), Others(t, l), Joins(t, l)
  PROVE  Local(l)'
  <1>1. units[l] = 0 /\ units'[l] = 0 /\ ~Queued(t, l)
    BY DEF Local, Joins
  <1>2. ~In(t, queue[l])
    BY <1>1, QueuedIs
  <1>3. /\ queue'[l] \in Seq(Threads)
        /\ Once(queue'[l])
        /\ \A u : In(u, queue'[l]) <=> In(u, queue[l]) \/ u = t
    <2>1. queue[l] \in Seq(Threads) /\ Once(queue[l]) /\ queue'[l] = Append(queue[l], t)
      BY DEF Local, Joins
    <2> QED BY ONLY <1>2, <2>1, t \in Threads, AppendQueue
  <1>4. \A u : Queued(u, l)' <=> Queued(u, l) \/ u = t
    BY <1>3, QueuedIs
  <1>5. \A u \in Threads : Has(u, l)' <=> Has(u, l)
    BY <1>4 DEF Others, Joins, Has
  <1>6. OneUnitOf(l)'
    BY <1>1, <1>5 DEF Local, OneUnitOf
  <1>7. \A u \in Threads : Queued(u, l)' => Wants(u, l)'
    BY <1>4 DEF Local, Others, Joins
  <1> QED BY <1>1, <1>3, <1>6, <1>7 DEF Local

LEMMA QuitsKeeps ==
  ASSUME NEW t \in Threads, NEW l \in Locks, Local(l), Others(t, l), Quits(t, l)
  PROVE  Local(l)' /\ \A u : Queued(u, l)' <=> Queued(u, l) /\ u # t
  <1>1. PICK i \in DOMAIN queue[l] : queue[l][i] = t /\ queue'[l] = RemoveAt(queue[l], i)
    BY DEF Quits
  <1>2. /\ queue'[l] \in Seq(Threads)
        /\ Once(queue'[l])
        /\ \A u : In(u, queue'[l]) <=> In(u, queue[l]) /\ u # t
    BY <1>1, RemoveQueue DEF Local
  <1>3. In(t, queue[l])
    BY <1>1 DEF In
  <1>4. \A u : Queued(u, l)' <=> Queued(u, l) /\ u # t
    BY <1>2, QueuedIs
  <1>5. Queued(t, l) /\ units'[l] = units[l]
    BY <1>3, QueuedIs DEF Quits
  <1>6. \A u \in Threads : Has(u, l)' <=> Has(u, l)
    BY <1>4, <1>5 DEF Others, Quits, Has
  <1>7. OneUnitOf(l)'
    BY <1>5, <1>6 DEF Local, OneUnitOf
  <1>8. \A u \in Threads : Queued(u, l)' => Wants(u, l)'
    BY <1>4 DEF Local, Others, Quits
  <1>9. units[l] = 0
    <2>1. queue[l] # <<>>
      BY <1>1
    <2> QED BY <2>1 DEF Local
  <1> QED BY <1>2, <1>4, <1>5, <1>7, <1>8, <1>9 DEF Local

LEMMA SignalsKeeps ==
  ASSUME NEW t \in Threads, NEW l \in Locks, Local(l), Others(t, l), Signals(t, l)
  PROVE  Local(l)'
  <1>1. units[l] = 0 /\ \A u \in Threads : Has(u, l) <=> u = t
    BY DEF Local, OneUnitOf, Signals
  <1>2. CASE queue[l] = <<>>
    <2>1. queue'[l] = <<>> /\ units'[l] = 1
      BY <1>1, <1>2 DEF Signals
    <2>2. \A u : ~Queued(u, l) /\ ~Queued(u, l)'
      BY <1>2, <2>1, QueuedIs, EmptyQueue
    <2>3. \A u \in Threads : ~Has(u, l)'
      BY <1>1, <2>2 DEF Others, Signals, Has
    <2>4. OneUnitOf(l)'
      BY <2>1, <2>3 DEF OneUnitOf
    <2>5. queue'[l] \in Seq(Threads) /\ Once(queue'[l])
      BY <1>2, <2>1 DEF Local
    <2> QED BY <2>1, <2>2, <2>4, <2>5 DEF Local
  <1>3. CASE queue[l] # <<>>
    <2>1. queue'[l] = Tail(queue[l]) /\ units'[l] = 0
      BY <1>1, <1>3 DEF Signals
    <2>2. PICK h : h = queue[l][1]
      OBVIOUS
    <2>3. /\ queue'[l] \in Seq(Threads) /\ Once(queue'[l])
          /\ h \in Threads /\ In(h, queue[l])
          /\ \A u : In(u, queue'[l]) <=> In(u, queue[l]) /\ u # h
      BY <1>3, <2>1, <2>2, TailQueue DEF Local
    <2>4. Queued(h, l) /\ \A u : Queued(u, l)' <=> Queued(u, l) /\ u # h
      BY <2>3, QueuedIs
    <2>5. Wants(h, l) /\ h # t
      BY <2>3, <2>4 DEF Local, Signals
    <2>6. \A u \in Threads : Has(u, l)' <=> u = h
      BY <1>1, <2>3, <2>4, <2>5 DEF Others, Signals, Has
    <2>7. OneUnitOf(l)'
      BY <2>1, <2>3, <2>6 DEF OneUnitOf
    <2>8. \A u \in Threads : Queued(u, l)' => Wants(u, l)'
      BY <2>4 DEF Local, Others, Signals
    <2> QED BY <2>1, <2>3, <2>7, <2>8 DEF Local
  <1> QED BY <1>2, <1>3

LEMMA MovesKeep ==
  ASSUME NEW t \in Threads, NEW l \in Locks, Local(l), Moves(t, l)
  PROVE  Local(l)'
  BY SettlesKeeps, TakesKeeps, JoinsKeeps, SignalsKeeps, QuitsKeeps DEF Moves

-----------------------------------------------------------------------------
(* The inductive invariant                                                 *)

Types == /\ units \in [Locks -> Int]
         /\ queue \in [Locks -> Seq(Threads)]
         /\ owner \in [Mutexes -> Threads \cup {Nobody}]
         /\ depth \in [Mutexes -> 0..MaxDepth]
         /\ thread \in [Threads -> Thread]

\* What a thread's place says of its other fields and of what it owns.
ShapeOf(t) ==
    /\ thread[t].pc \in {"try", "leave", "left", "wait", "back", "reenter"}
          => thread[t].mutex \in Mutexes
    /\ thread[t].pc \in {"try", "leave", "left", "wait"} => ~thread[t].ok
    /\ thread[t].pc \in {"outside", "exit"} => \A m \in Mutexes : owner[m] # t

Shape == \A t \in Threads : ShapeOf(t)

OwnDepth == \A m \in Mutexes : owner[m] = Nobody <=> depth[m] = 0

TryQueued == \A t \in Threads : At(t, "try") => Queued(t, thread[t].mutex)

Inv == /\ Types
       /\ Shape
       /\ OwnDepth
       /\ TryQueued
       /\ \A l \in Locks : Local(l)

-----------------------------------------------------------------------------
(* Every action is a move on each lock                                     *)

LEMMA Mover ==
  ASSUME Types, NEW t \in Threads, NEW r, thread' = [thread EXCEPT ![t] = r],
         \A m \in Mutexes : \A u \in Threads \ {t} : owner'[m] = u <=> owner[m] = u
  PROVE  thread'[t] = r /\ \A l \in Locks : Others(t, l)
  <1>1. thread'[t] = r /\ \A u \in Threads \ {t} : thread'[u] = thread[u]
    BY DEF Types
  <1>2. ASSUME NEW l \in Locks, NEW u \in Threads \ {t}
        PROVE  (Keeps(u, l)' <=> Keeps(u, l)) /\ (Wants(u, l)' <=> Wants(u, l))
    BY <1>1, <1>2 DEF Keeps, Wants, Locks
  <1> QED BY <1>1, <1>2 DEF Others

\* A move of t that only changes its place.
LEMMA Goes ==
  ASSUME Types, NEW t \in Threads, NEW where, Goto(t, where), owner' = owner
  PROVE  /\ thread'[t] = [thread[t] EXCEPT !.pc = where]
         /\ thread'[t].pc = where
         /\ thread'[t].mutex = thread[t].mutex /\ thread'[t].ok = thread[t].ok
         /\ \A l \in Locks : Others(t, l)
  <1> DEFINE r == [thread[t] EXCEPT !.pc = where]
  <1>1. thread[t] \in Thread
    BY DEF Types
  <1>2. r.pc = where /\ r.mutex = thread[t].mutex /\ r.ok = thread[t].ok
    BY <1>1 DEF Thread
  <1>3. thread' = [thread EXCEPT ![t] = r]
    BY DEF Goto
  <1> HIDE DEF r
  <1>4. thread'[t] = r /\ \A l \in Locks : Others(t, l)
    BY <1>3, Mover
  <1>5. thread'[t].pc = where /\ thread'[t].mutex = thread[t].mutex /\ thread'[t].ok = thread[t].ok
    BY <1>2, <1>4
  <1>6. thread'[t] = [thread[t] EXCEPT !.pc = where]
    BY <1>4 DEF r
  <1> QED BY <1>4, <1>5, <1>6

\* The threads that have the unit of a lock are one at most.
LEMMA OnlyOne ==
  ASSUME Inv, NEW l \in Locks, NEW t \in Threads, Has(t, l)
  PROVE  units[l] = 0 /\ \A u \in Threads : Has(u, l) => u = t
  BY DEF Inv, Local, OneUnitOf

LEMMA SignalOn ==
  ASSUME Types, NEW ls \in SUBSET Locks, Signal(ls), NEW l \in Locks
  PROVE  /\ l \in ls =>
              IF queue[l] = <<>>
              THEN queue'[l] = queue[l] /\ units'[l] = units[l] + 1
              ELSE queue'[l] = Tail(queue[l]) /\ units'[l] = units[l]
         /\ l \notin ls => queue'[l] = queue[l] /\ units'[l] = units[l]
  BY DEF Signal, Types

\* A thread waits for the unit of lock k, and other locks do not change.
LEMMA WaitOn ==
  ASSUME Types, NEW t \in Threads, NEW k \in Locks, WaitFor(t, k), NEW l \in Locks
  PROVE  /\ l = k => \/ queue'[l] = queue[l] /\ units[l] > 0 /\ units'[l] = units[l] - 1
                     \/ queue'[l] = Append(queue[l], t) /\ units[l] = 0 /\ units'[l] = units[l]
         /\ l # k => queue'[l] = queue[l] /\ units'[l] = units[l]
  BY DEF WaitFor, TakeUnit, Enqueue, Types

LEMMA EnterMoves ==
  ASSUME Inv, NEW t \in Threads, AcpiExEnterInterpreter(t), NEW l \in Locks
  PROVE  Moves(t, l)
  <1>1. Types /\ Interpreter \in Locks
    BY DEF Inv, Locks
  <1>2. /\ thread[t].pc \in {"outside", "sleep"}
        /\ Goto(t, "enter") /\ owner' = owner /\ WaitFor(t, Interpreter)
    BY DEF AcpiExEnterInterpreter, At
  <1>3. /\ thread'[t].pc = "enter" /\ Others(t, l)
        /\ thread'[t].mutex = thread[t].mutex /\ thread'[t].ok = thread[t].ok
    BY <1>1, <1>2, Goes
  <1>4. CASE l = Interpreter
    <2>1. ~Wants(t, l) /\ Wants(t, l)' /\ ~Keeps(t, l) /\ ~Keeps(t, l)'
      BY <1>2, <1>3, <1>4 DEF Wants, Keeps
    <2>2. Takes(t, l) \/ Joins(t, l)
      BY <1>1, <1>2, <1>4, <2>1, WaitOn DEF Takes, Joins
    <2> QED BY <1>3, <2>2 DEF Moves
  <1>5. CASE l # Interpreter
    <2>1. queue'[l] = queue[l] /\ units'[l] = units[l]
      BY <1>1, <1>2, <1>5, WaitOn
    <2>2. (Keeps(t, l)' <=> Keeps(t, l)) /\ (Wants(t, l)' <=> Wants(t, l))
      BY <1>2, <1>3, <1>5 DEF Keeps, Wants
    <2> QED BY <1>3, <2>1, <2>2 DEF Still, Moves
  <1> QED BY <1>4, <1>5

LEMMA EnteredMoves ==
  ASSUME Inv, NEW t \in Threads, Entered(t), NEW l \in Locks
  PROVE  Moves(t, l)
  <1>1. Types
    BY DEF Inv
  <1>2. /\ thread[t].pc = "enter" /\ ~Queued(t, Interpreter)
        /\ Goto(t, "inside") /\ owner' = owner /\ queue' = queue /\ units' = units
    BY DEF Entered, At, Granted
  <1>3. /\ thread'[t].pc = "inside" /\ Others(t, l)
        /\ thread'[t].mutex = thread[t].mutex /\ thread'[t].ok = thread[t].ok
    BY <1>1, <1>2, Goes
  <1>4. CASE l = Interpreter
    <2>1. Settles(t, l)
      BY <1>2, <1>3, <1>4 DEF Settles, Has, Wants, Keeps
    <2> QED BY <1>3, <2>1 DEF Moves
  <1>5. CASE l # Interpreter
    <2>1. Still(t, l)
      BY <1>2, <1>3, <1>5 DEF Still, Keeps, Wants
    <2> QED BY <1>3, <2>1 DEF Moves
  <1> QED BY <1>4, <1>5

\* The thread gives the interpreter up, for a sleep or for a wait.
LEMMA GivesUpMoves ==
  ASSUME Inv, NEW t \in Threads, AcpiExSystemDoSleep(t) \/ LeaveToWait(t), NEW l \in Locks
  PROVE  Moves(t, l)
  <1>1. Types /\ {Interpreter} \in SUBSET Locks
    BY DEF Inv, Locks
  <1>2. /\ thread[t].pc \in {"inside", "leave"} /\ Signal({Interpreter}) /\ owner' = owner
        /\ Goto(t, "sleep") \/ Goto(t, "left")
    BY DEF AcpiExSystemDoSleep, LeaveToWait, At
  <1>3. /\ thread'[t].pc \in {"sleep", "left"} /\ Others(t, l)
        /\ thread'[t].mutex = thread[t].mutex /\ thread'[t].ok = thread[t].ok
    BY <1>1, <1>2, Goes
  <1>4. CASE l = Interpreter
    <2>1. Has(t, l) /\ ~Wants(t, l) /\ ~Keeps(t, l)' /\ ~Wants(t, l)'
      BY <1>2, <1>3, <1>4 DEF Has, Wants, Keeps
    <2>2. Signals(t, l)
      BY <1>1, <1>2, <1>4, <2>1, SignalOn DEF Signals
    <2> QED BY <1>3, <2>2 DEF Moves
  <1>5. CASE l # Interpreter
    <2>1. queue'[l] = queue[l] /\ units'[l] = units[l]
      BY <1>1, <1>2, <1>5, SignalOn
    <2>2. (Keeps(t, l)' <=> Keeps(t, l)) /\ (Wants(t, l)' <=> Wants(t, l))
      BY <1>2, <1>3, <1>5 DEF Keeps, Wants
    <2> QED BY <1>3, <2>1, <2>2 DEF Still, Moves
  <1> QED BY <1>4, <1>5

LEMMA ReleaseAllMoves ==
  ASSUME Inv, NEW t \in Threads, AcpiExReleaseAllMutexes(t), NEW l \in Locks
  PROVE  Moves(t, l)
  <1>1. Types /\ OwnedBy(t) \in SUBSET Locks /\ t # Nobody
    BY MutexAssumption DEF Inv, Locks, OwnedBy
  <1>2. /\ thread[t].pc = "inside" /\ Signal(OwnedBy(t)) /\ Goto(t, "exit")
        /\ owner' = [m \in Mutexes |-> IF owner[m] = t THEN Nobody ELSE owner[m]]
    BY DEF AcpiExReleaseAllMutexes, At
  <1>3. \A m \in Mutexes : \A u \in Threads \ {t} : owner'[m] = u <=> owner[m] = u
    BY <1>2, MutexAssumption
  <1>4. \A m \in Mutexes : owner'[m] # t
    BY <1>1, <1>2
  <1>5. PICK r : r = [thread[t] EXCEPT !.pc = "exit"]
    OBVIOUS
  <1>6. thread' = [thread EXCEPT ![t] = r]
    BY <1>2, <1>5 DEF Goto
  <1>7. thread'[t] = r /\ Others(t, l)
    BY <1>1, <1>3, <1>6, Mover
  <1>8. thread'[t].pc = "exit"
    BY <1>1, <1>5, <1>7 DEF Types, Thread
  <1>9. CASE l = Interpreter
    <2>1. l \notin OwnedBy(t)
      BY <1>9, MutexAssumption DEF OwnedBy
    <2>2. queue'[l] = queue[l] /\ units'[l] = units[l]
      BY <1>1, <1>2, <2>1, SignalOn
    <2>3. Still(t, l)
      BY <1>2, <1>8, <1>9, <2>2 DEF Still, Keeps, Wants
    <2> QED BY <1>7, <2>3 DEF Moves
  <1>10. CASE l # Interpreter /\ owner[l] = t
    <2>1. l \in OwnedBy(t)
      BY <1>10 DEF OwnedBy, Locks
    <2>2. Has(t, l) /\ ~Wants(t, l) /\ ~Keeps(t, l)' /\ ~Wants(t, l)'
      BY <1>2, <1>4, <1>8, <1>10 DEF Has, Wants, Keeps, Locks
    <2>3. Signals(t, l)
      BY <1>1, <1>2, <2>1, <2>2, SignalOn DEF Signals
    <2> QED BY <1>7, <2>3 DEF Moves
  <1>11. CASE l # Interpreter /\ owner[l] # t
    <2>1. l \notin OwnedBy(t)
      BY <1>11 DEF OwnedBy
    <2>2. queue'[l] = queue[l] /\ units'[l] = units[l]
      BY <1>1, <1>2, <2>1, SignalOn
    <2>3. Still(t, l)
      BY <1>2, <1>4, <1>8, <1>11, <2>2 DEF Still, Keeps, Wants, Locks
    <2> QED BY <1>7, <2>3 DEF Moves
  <1> QED BY <1>9, <1>10, <1>11

LEMMA ExitMoves ==
  ASSUME Inv, NEW t \in Threads, AcpiExExitInterpreter(t), NEW l \in Locks
  PROVE  Moves(t, l)
  <1>1. Types /\ {Interpreter} \in SUBSET Locks
    BY DEF Inv, Locks
  <1>2. /\ thread[t].pc = "exit" /\ Signal({Interpreter}) /\ owner' = owner
        /\ thread' = [thread EXCEPT ![t] = Free]
    BY DEF AcpiExExitInterpreter, At
  <1>3. thread'[t] = Free /\ Others(t, l)
    BY <1>1, <1>2, Mover
  <1>4. thread'[t].pc = "outside"
    BY <1>3 DEF Free
  <1>5. CASE l = Interpreter
    <2>1. Has(t, l) /\ ~Wants(t, l) /\ ~Keeps(t, l)' /\ ~Wants(t, l)'
      BY <1>2, <1>4, <1>5 DEF Has, Wants, Keeps
    <2>2. Signals(t, l)
      BY <1>1, <1>2, <1>5, <2>1, SignalOn DEF Signals
    <2> QED BY <1>3, <2>2 DEF Moves
  <1>6. CASE l # Interpreter
    <2>1. queue'[l] = queue[l] /\ units'[l] = units[l]
      BY <1>1, <1>2, <1>6, SignalOn
    <2>2. (Keeps(t, l)' <=> Keeps(t, l)) /\ (Wants(t, l)' <=> Wants(t, l))
      BY <1>2, <1>4, <1>6 DEF Keeps, Wants
    <2> QED BY <1>3, <2>1, <2>2 DEF Still, Moves
  <1> QED BY <1>5, <1>6

\* A thread that becomes the owner of m has its unit, or takes it: no other thread
\* loses what it owns.
LEMMA Owns ==
  ASSUME Inv, NEW t \in Threads, NEW m \in Mutexes, Own(t, m), units[m] = 1 \/ Has(t, m)
  PROVE  /\ thread'[t].pc = "inside"
         /\ owner'[m] = t
         /\ \A k \in Mutexes \ {m} : owner'[k] = owner[k]
         /\ \A l \in Locks : Others(t, l)
  <1>1. Types /\ m \in Locks
    BY DEF Inv, Locks
  <1>2. owner' = [owner EXCEPT ![m] = t]
    BY DEF Own
  <1>3. PICK r : r = [Free EXCEPT !.pc = "inside"]
    OBVIOUS
  <1>4. thread' = [thread EXCEPT ![t] = r]
    BY <1>3 DEF Own
  <1>5. \A u \in Threads \ {t} : ~Has(u, m)
    BY <1>1, OnlyOne DEF Inv, Local, OneUnitOf
  <1>6. \A u \in Threads \ {t} : owner[m] # u
    BY <1>5, MutexAssumption DEF Has, Keeps
  <1>7. \A k \in Mutexes : \A u \in Threads \ {t} : owner'[k] = u <=> owner[k] = u
    BY <1>1, <1>2, <1>6 DEF Types
  <1>8. thread'[t] = r /\ \A l \in Locks : Others(t, l)
    BY <1>1, <1>4, <1>7, Mover
  <1>9. thread'[t].pc = "inside"
    BY <1>3, <1>8 DEF Free
  <1>10. owner'[m] = t /\ \A k \in Mutexes \ {m} : owner'[k] = owner[k]
    BY <1>1, <1>2 DEF Types
  <1> QED BY <1>8, <1>9, <1>10

\* A step that leaves the threads, the owners of others and the semaphores alone.
LEMMA AcquireAgainMoves ==
  ASSUME Inv, NEW t \in Threads, NEW m \in Mutexes, AcquireAgain(t, m), NEW l \in Locks
  PROVE  Moves(t, l)
  <1>1. thread' = thread /\ owner' = owner /\ queue' = queue /\ units' = units
    BY DEF AcquireAgain
  <1> QED BY <1>1 DEF Moves, Others, Still, Keeps, Wants

LEMMA AcquireAtOnceMoves ==
  ASSUME Inv, NEW t \in Threads, NEW m \in Mutexes, AcquireAtOnce(t, m), NEW l \in Locks
  PROVE  Moves(t, l)
  <1>1. Types /\ m \in Locks /\ m # Interpreter
    BY MutexAssumption DEF Inv, Locks
  <1>2. /\ thread[t].pc = "inside" /\ TakeUnit(m) /\ Own(t, m) /\ queue' = queue
        /\ units[m] > 0 /\ units' = [units EXCEPT ![m] = @ - 1]
    BY DEF AcquireAtOnce, At, TakeUnit
  <1>3. units[m] = 1
    BY <1>1, <1>2 DEF Inv, Local, OneUnitOf
  <1>4. /\ thread'[t].pc = "inside" /\ owner'[m] = t /\ Others(t, l)
        /\ \A k \in Mutexes \ {m} : owner'[k] = owner[k]
    BY <1>2, <1>3, Owns
  <1>5. CASE l = m
    <2>1. Keeps(t, l)'
      BY <1>1, <1>4, <1>5 DEF Keeps
    <2>2. Takes(t, l)
      BY <1>1, <1>2, <1>5, <2>1 DEF Takes, Types
    <2> QED BY <1>4, <2>2 DEF Moves
  <1>6. CASE l # m
    <2>1. queue'[l] = queue[l] /\ units'[l] = units[l]
      BY <1>1, <1>2, <1>6 DEF Types
    <2>2. Still(t, l)
      BY <1>1, <1>2, <1>4, <1>6, <2>1 DEF Still, Keeps, Wants, Locks
    <2> QED BY <1>4, <2>2 DEF Moves
  <1> QED BY <1>5, <1>6

LEMMA TryFailsMoves ==
  ASSUME Inv, NEW t \in Threads, NEW m \in Mutexes, NEW timeout \in Timeouts,
         TryFails(t, m, timeout), NEW l \in Locks
  PROVE  Moves(t, l)
  <1>1. Types /\ m \in Locks /\ m # Interpreter
    BY MutexAssumption DEF Inv, Locks
  <1>2. PICK where \in {"leave", "try"} :
            /\ thread' = [thread EXCEPT ![t] =
                   [pc |-> where, mutex |-> m, timeout |-> timeout, ok |-> FALSE]]
            /\ where = "leave" => UNCHANGED <<units, queue>>
            /\ where = "try" => Enqueue(t, m)
    BY DEF TryFails
  <1>3. thread[t].pc = "inside" /\ owner' = owner /\ owner[m] # t /\ units[m] = 0
    BY DEF TryFails, At
  <1>4. /\ thread'[t] = [pc |-> where, mutex |-> m, timeout |-> timeout, ok |-> FALSE]
        /\ Others(t, l)
    BY <1>1, <1>2, <1>3, Mover
  <1>5. thread'[t].pc = where /\ thread'[t].mutex = m /\ thread'[t].ok = FALSE
    BY <1>4
  <1>6. (Keeps(t, l)' <=> Keeps(t, l)) /\ ~Wants(t, l)
    BY <1>3, <1>5 DEF Keeps, Wants
  <1>7. CASE where = "try" /\ l = m
    <2>1. Wants(t, l)'
      BY <1>1, <1>5, <1>7 DEF Wants
    <2>2. queue'[l] = Append(queue[l], t) /\ units[l] = 0 /\ units'[l] = units[l]
      BY <1>1, <1>2, <1>3, <1>7 DEF Enqueue, Types
    <2>3. Joins(t, l)
      BY <1>6, <2>1, <2>2 DEF Joins
    <2> QED BY <1>4, <2>3 DEF Moves
  <1>8. CASE ~(where = "try" /\ l = m)
    <2>1. queue'[l] = queue[l] /\ units'[l] = units[l]
      BY <1>1, <1>2, <1>8 DEF Enqueue, Types
    <2>2. ~Wants(t, l)'
      BY <1>5, <1>8 DEF Wants
    <2>3. Still(t, l)
      BY <1>6, <2>1, <2>2 DEF Still
    <2> QED BY <1>4, <2>3 DEF Moves
  <1> QED BY <1>7, <1>8

LEMMA WaitMoves ==
  ASSUME Inv, NEW t \in Threads, Wait(t), NEW l \in Locks
  PROVE  Moves(t, l)
  <1>1. Types /\ thread[t].pc = "left" /\ thread[t].mutex \in Mutexes
    BY DEF Inv, Shape, ShapeOf, Wait, At
  <1>2. PICK m \in Mutexes : m = thread[t].mutex
    BY <1>1
  <1>3. m \in Locks /\ m # Interpreter
    BY MutexAssumption DEF Locks
  <1>4. WaitFor(t, m) /\ Goto(t, "wait") /\ owner' = owner
    BY <1>2 DEF Wait
  <1>5. /\ thread'[t].pc = "wait" /\ thread'[t].mutex = m /\ thread'[t].ok = thread[t].ok
        /\ Others(t, l)
    BY <1>1, <1>2, <1>4, Goes
  <1>6. (Keeps(t, l)' <=> Keeps(t, l)) /\ ~Wants(t, l)
    BY <1>1, <1>4, <1>5 DEF Keeps, Wants
  <1>7. CASE l = m
    <2>1. Wants(t, l)'
      BY <1>3, <1>5, <1>7 DEF Wants
    <2>2. Takes(t, l) \/ Joins(t, l)
      BY <1>1, <1>3, <1>4, <1>6, <1>7, <2>1, WaitOn DEF Takes, Joins
    <2> QED BY <1>5, <2>2 DEF Moves
  <1>8. CASE l # m
    <2>1. queue'[l] = queue[l] /\ units'[l] = units[l]
      BY <1>1, <1>3, <1>4, <1>8, WaitOn
    <2>2. ~Wants(t, l)'
      BY <1>5, <1>8 DEF Wants
    <2>3. Still(t, l)
      BY <1>6, <2>1, <2>2 DEF Still
    <2> QED BY <1>5, <2>3 DEF Moves
  <1> QED BY <1>7, <1>8

LEMMA WokenMoves ==
  ASSUME Inv, NEW t \in Threads, Woken(t), NEW l \in Locks
  PROVE  Moves(t, l)
  <1>1. /\ Types /\ thread[t].pc = "wait" /\ thread[t].mutex \in Mutexes
        /\ thread[t] \in Thread
    BY DEF Inv, Shape, ShapeOf, Woken, At, Types
  <1>2. PICK m \in Mutexes : m = thread[t].mutex
    BY <1>1
  <1>3. m \in Locks /\ m # Interpreter
    BY MutexAssumption DEF Locks
  <1>4. ~Queued(t, m) /\ owner' = owner /\ queue' = queue /\ units' = units
    BY <1>2 DEF Woken
  <1>5. PICK r : r = [thread[t] EXCEPT !.pc = "back", !.ok = TRUE]
    OBVIOUS
  <1>6. r.pc = "back" /\ r.mutex = m /\ r.ok = TRUE
    BY <1>1, <1>2, <1>5 DEF Thread
  <1>7. thread' = [thread EXCEPT ![t] = r]
    BY <1>1, <1>5 DEF Woken, Types, Thread
  <1>8. thread'[t] = r /\ Others(t, l)
    BY <1>1, <1>4, <1>7, Mover
  <1>9. CASE l = m
    <2>1. Has(t, l) /\ Keeps(t, l)'
      BY <1>1, <1>2, <1>3, <1>4, <1>6, <1>8, <1>9 DEF Has, Keeps, Wants
    <2>2. Settles(t, l)
      BY <1>4, <1>9, <2>1 DEF Settles
    <2> QED BY <1>8, <2>2 DEF Moves
  <1>10. CASE l # m
    <2>1. Still(t, l)
      BY <1>1, <1>2, <1>4, <1>6, <1>8, <1>10 DEF Still, Keeps, Wants
    <2> QED BY <1>8, <2>1 DEF Moves
  <1> QED BY <1>9, <1>10

LEMMA TimedOutMoves ==
  ASSUME Inv, NEW t \in Threads, TimedOut(t), NEW l \in Locks
  PROVE  Moves(t, l)
  <1>1. /\ Types /\ thread[t].pc = "wait" /\ thread[t].mutex \in Mutexes
        /\ ~thread[t].ok
    BY DEF Inv, Shape, ShapeOf, TimedOut, At
  <1>2. PICK m \in Mutexes : m = thread[t].mutex
    BY <1>1
  <1>3. m \in Locks /\ m # Interpreter
    BY MutexAssumption DEF Locks
  <1>4. Dequeue(t, m) /\ Goto(t, "back") /\ owner' = owner /\ units' = units
    BY <1>2 DEF TimedOut, Dequeue
  <1>5. /\ thread'[t].pc = "back" /\ thread'[t].mutex = m /\ ~thread'[t].ok
        /\ Others(t, l)
    BY <1>1, <1>2, <1>4, Goes
  <1>6. (Keeps(t, l)' <=> Keeps(t, l)) /\ ~Wants(t, l)'
    BY <1>1, <1>4, <1>5 DEF Keeps, Wants
  <1>7. PICK i \in DOMAIN queue[m] :
            queue[m][i] = t /\ queue' = [queue EXCEPT ![m] = RemoveAt(@, i)]
    BY <1>4 DEF Dequeue
  <1>8. CASE l = m
    <2>1. queue'[l] = RemoveAt(queue[l], i)
      BY <1>1, <1>3, <1>7, <1>8 DEF Types
    <2>2. Quits(t, l)
      BY <1>4, <1>6, <1>7, <1>8, <2>1 DEF Quits
    <2> QED BY <1>5, <2>2 DEF Moves
  <1>9. CASE l # m
    <2>1. queue'[l] = queue[l]
      BY <1>1, <1>7, <1>9 DEF Types
    <2>2. ~Wants(t, l)
      BY <1>1, <1>2, <1>9 DEF Wants
    <2>3. Still(t, l)
      BY <1>4, <1>6, <2>1, <2>2 DEF Still
    <2> QED BY <1>5, <2>3 DEF Moves
  <1> QED BY <1>8, <1>9

LEMMA ComeBackMoves ==
  ASSUME Inv, NEW t \in Threads, ComeBack(t), NEW l \in Locks
  PROVE  Moves(t, l)
  <1>1. Types /\ Interpreter \in Locks
    BY DEF Inv, Locks
  <1>2. /\ thread[t].pc = "back" /\ Goto(t, "reenter") /\ owner' = owner
        /\ WaitFor(t, Interpreter)
    BY DEF ComeBack, At
  <1>3. /\ thread'[t].pc = "reenter" /\ Others(t, l)
        /\ thread'[t].mutex = thread[t].mutex /\ thread'[t].ok = thread[t].ok
    BY <1>1, <1>2, Goes
  <1>4. CASE l = Interpreter
    <2>1. ~Wants(t, l) /\ Wants(t, l)' /\ ~Keeps(t, l) /\ ~Keeps(t, l)'
      BY <1>2, <1>3, <1>4 DEF Wants, Keeps
    <2>2. Takes(t, l) \/ Joins(t, l)
      BY <1>1, <1>2, <1>4, <2>1, WaitOn DEF Takes, Joins
    <2> QED BY <1>3, <2>2 DEF Moves
  <1>5. CASE l # Interpreter
    <2>1. queue'[l] = queue[l] /\ units'[l] = units[l]
      BY <1>1, <1>2, <1>5, WaitOn
    <2>2. (Keeps(t, l)' <=> Keeps(t, l)) /\ (Wants(t, l)' <=> Wants(t, l))
      BY <1>2, <1>3, <1>5 DEF Keeps, Wants
    <2> QED BY <1>3, <2>1, <2>2 DEF Still, Moves
  <1> QED BY <1>4, <1>5

LEMMA ReenteredMoves ==
  ASSUME Inv, NEW t \in Threads, Reentered(t), NEW l \in Locks
  PROVE  Moves(t, l)
  <1>1. /\ Types /\ thread[t].pc = "reenter" /\ thread[t].mutex \in Mutexes
        /\ ~Queued(t, Interpreter) /\ queue' = queue /\ units' = units
    BY DEF Inv, Shape, ShapeOf, Reentered, At, Granted
  <1>2. PICK m \in Mutexes : m = thread[t].mutex
    BY <1>1
  <1>3. m \in Locks /\ m # Interpreter
    BY MutexAssumption DEF Locks
  <1>4. CASE thread[t].ok /\ Own(t, m)
    <2>1. Has(t, m)
      BY <1>1, <1>2, <1>3, <1>4 DEF Has, Keeps
    <2>2. /\ thread'[t].pc = "inside" /\ owner'[m] = t /\ Others(t, l)
          /\ \A k \in Mutexes \ {m} : owner'[k] = owner[k]
      BY <1>4, <2>1, Owns
    <2>3. CASE l = Interpreter
      <3>1. Has(t, l) /\ Keeps(t, l)'
        BY <1>1, <2>2, <2>3 DEF Has, Keeps, Wants
      <3>2. Settles(t, l)
        BY <1>1, <2>3, <3>1 DEF Settles
      <3> QED BY <2>2, <3>2 DEF Moves
    <2>4. CASE l = m
      <3>1. ~Wants(t, m)
        BY <1>1, <1>3 DEF Wants
      <3>2. ~Queued(t, m)
        BY <1>3, <3>1 DEF Inv, Local
      <3>3. Keeps(t, l)'
        BY <1>3, <2>2, <2>4 DEF Keeps
      <3>4. Settles(t, l)
        BY <1>1, <2>1, <2>4, <3>2, <3>3 DEF Settles
      <3> QED BY <2>2, <3>4 DEF Moves
    <2>5. CASE l # Interpreter /\ l # m
      <3>1. l \in Mutexes \ {m}
        BY <2>5 DEF Locks
      <3>2. Still(t, l)
        BY <1>1, <1>2, <2>2, <2>5, <3>1 DEF Still, Keeps, Wants
      <3> QED BY <2>2, <3>2 DEF Moves
    <2> QED BY <2>3, <2>4, <2>5
  <1>5. CASE /\ ~thread[t].ok /\ owner' = owner
             /\ thread' = [thread EXCEPT ![t] = [Free EXCEPT !.pc = "inside"]]
    <2>1. PICK r : r = [Free EXCEPT !.pc = "inside"]
      OBVIOUS
    <2>2. thread'[t] = r /\ Others(t, l)
      BY <1>1, <1>5, <2>1, Mover
    <2>3. thread'[t].pc = "inside"
      BY <2>1, <2>2 DEF Free
    <2>4. CASE l = Interpreter
      <3>1. Has(t, l) /\ Keeps(t, l)'
        BY <1>1, <2>3, <2>4 DEF Has, Keeps, Wants
      <3>2. Settles(t, l)
        BY <1>1, <2>4, <3>1 DEF Settles
      <3> QED BY <2>2, <3>2 DEF Moves
    <2>5. CASE l # Interpreter
      <3>1. Still(t, l)
        BY <1>1, <1>5, <2>3, <2>5 DEF Still, Keeps, Wants
      <3> QED BY <2>2, <3>1 DEF Moves
    <2> QED BY <2>4, <2>5
  <1> QED BY <1>2, <1>4, <1>5 DEF Reentered

LEMMA ReleaseMoves ==
  ASSUME Inv, NEW t \in Threads, NEW m \in Mutexes, AcpiExReleaseMutexObject(t, m),
         NEW l \in Locks
  PROVE  Moves(t, l)
  <1>1. /\ Types /\ {m} \in SUBSET Locks /\ m # Interpreter /\ t # Nobody
        /\ thread' = thread /\ thread[t].pc = "inside" /\ owner[m] = t
    BY MutexAssumption DEF Inv, Locks, AcpiExReleaseMutexObject, At
  <1>2. CASE Signal({m}) /\ owner' = [owner EXCEPT ![m] = Nobody]
    <2>1. owner'[m] = Nobody /\ \A k \in Mutexes \ {m} : owner'[k] = owner[k]
      BY <1>1, <1>2 DEF Types
    <2>2. \A u \in Threads : u # Nobody
      BY MutexAssumption
    <2>3. ASSUME NEW u \in Threads \ {t}
          PROVE  (Keeps(u, l)' <=> Keeps(u, l)) /\ (Wants(u, l)' <=> Wants(u, l))
      BY <1>1, <2>1, <2>2, <2>3 DEF Keeps, Wants, Locks
    <2>4. Others(t, l)
      BY <2>3 DEF Others
    <2>5. CASE l = m
      <3>1. Has(t, l) /\ ~Wants(t, l) /\ ~Keeps(t, l)' /\ ~Wants(t, l)'
        BY <1>1, <2>1, <2>5 DEF Has, Wants, Keeps
      <3>2. Signals(t, l)
        BY <1>1, <1>2, <2>5, <3>1, SignalOn DEF Signals
      <3> QED BY <2>4, <3>2 DEF Moves
    <2>6. CASE l # m
      <3>1. queue'[l] = queue[l] /\ units'[l] = units[l]
        BY <1>1, <1>2, <2>6, SignalOn
      <3>2. Still(t, l)
        BY <1>1, <2>1, <2>6, <3>1 DEF Still, Keeps, Wants, Locks
      <3> QED BY <2>4, <3>2 DEF Moves
    <2> QED BY <2>5, <2>6
  <1>3. CASE UNCHANGED <<units, queue, owner>>
    BY <1>1, <1>3 DEF Moves, Others, Still, Keeps, Wants
  <1> QED BY <1>2, <1>3 DEF AcpiExReleaseMutexObject

-----------------------------------------------------------------------------
(* The invariant is kept                                                   *)

\* The steps of one thread.
Step(t) ==
    \/ AcpiExEnterInterpreter(t) \/ AcpiExSystemDoSleep(t) \/ AcpiExReleaseAllMutexes(t)
    \/ Entered(t) \/ AcpiExExitInterpreter(t) \/ LeaveToWait(t) \/ Wait(t)
    \/ Woken(t) \/ TimedOut(t) \/ ComeBack(t) \/ Reentered(t)
    \/ \E m \in Mutexes : \/ AcquireAgain(t, m) \/ AcquireAtOnce(t, m)
                          \/ AcpiExReleaseMutexObject(t, m)
                          \/ \E timeout \in Timeouts : TryFails(t, m, timeout)

LEMMA Cases == ASSUME [Next]_vars
               PROVE  UNCHANGED vars \/ \E t \in Threads : Step(t)
  BY DEF Next, OnTheWay, Step

LEMMA LocalStep ==
  ASSUME Inv, NEW t \in Threads, Step(t), NEW l \in Locks
  PROVE  Local(l)'
  <1>1. Local(l)
    BY DEF Inv
  <1>2. CASE AcpiExEnterInterpreter(t) \/ Entered(t) \/ AcpiExSystemDoSleep(t) \/ LeaveToWait(t)
    BY <1>1, <1>2, EnterMoves, EnteredMoves, GivesUpMoves, MovesKeep
  <1>3. CASE AcpiExReleaseAllMutexes(t) \/ AcpiExExitInterpreter(t) \/ Wait(t) \/ Woken(t)
    BY <1>1, <1>3, ReleaseAllMoves, ExitMoves, WaitMoves, WokenMoves, MovesKeep
  <1>4. CASE TimedOut(t) \/ ComeBack(t) \/ Reentered(t)
    BY <1>1, <1>4, TimedOutMoves, ComeBackMoves, ReenteredMoves, MovesKeep
  <1>5. ASSUME NEW m \in Mutexes,
               AcquireAgain(t, m) \/ AcquireAtOnce(t, m) \/ AcpiExReleaseMutexObject(t, m)
        PROVE  Local(l)'
    BY <1>1, <1>5, AcquireAgainMoves, AcquireAtOnceMoves, ReleaseMoves, MovesKeep
  <1>6. ASSUME NEW m \in Mutexes, NEW timeout \in Timeouts, TryFails(t, m, timeout)
        PROVE  Local(l)'
    BY <1>1, <1>6, TryFailsMoves, MovesKeep
  <1> QED BY <1>2, <1>3, <1>4, <1>5, <1>6 DEF Step

Semaphores == units \in [Locks -> Int] /\ queue \in [Locks -> Seq(Threads)]

\* What a semaphore's operations leave are semaphores.
LEMMA SignalTypes == ASSUME Types, NEW ls, Signal(ls)
                     PROVE  Semaphores'
  <1>1. \A l \in Locks : queue[l] \in Seq(Threads) /\ units[l] \in Int
    BY DEF Types
  <1>2. \A l \in Locks : queue[l] # <<>> => Tail(queue[l]) \in Seq(Threads)
    BY <1>1
  <1>3. queue' \in [Locks -> Seq(Threads)]
    BY <1>1, <1>2 DEF Signal
  <1>4. units' \in [Locks -> Int]
    BY <1>1 DEF Signal
  <1> QED BY <1>3, <1>4 DEF Semaphores

LEMMA TakeTypes == ASSUME Types, NEW l \in Locks, TakeUnit(l)
                   PROVE  Semaphores'
  BY DEF Types, TakeUnit, Semaphores

LEMMA EnqueueTypes == ASSUME Types, NEW l \in Locks, NEW t \in Threads, Enqueue(t, l)
                      PROVE  Semaphores'
  <1>1. Append(queue[l], t) \in Seq(Threads)
    BY DEF Types
  <1> QED BY <1>1 DEF Types, Enqueue, Semaphores

LEMMA DequeueTypes == ASSUME Inv, NEW l \in Locks, NEW t \in Threads, Dequeue(t, l)
                      PROVE  Semaphores'
  <1>1. Types /\ queue[l] \in Seq(Threads) /\ Once(queue[l])
    BY DEF Inv, Local
  <1>2. PICK i \in DOMAIN queue[l] :
            queue' = [queue EXCEPT ![l] = RemoveAt(@, i)] /\ units' = units
    BY DEF Dequeue
  <1>3. RemoveAt(queue[l], i) \in Seq(Threads)
    BY <1>1, RemoveQueue
  <1> QED BY <1>1, <1>2, <1>3 DEF Types, Semaphores

\* A step of t that changes its own record, and no owner but itself.
LEMMA Moved ==
  ASSUME Inv, NEW t \in Threads, NEW r \in Thread, thread' = [thread EXCEPT ![t] = r],
         \A m \in Mutexes : \A u \in Threads \ {t} : owner'[m] = u <=> owner[m] = u,
         Semaphores', owner' \in [Mutexes -> Threads \cup {Nobody}],
         depth' \in [Mutexes -> 0..MaxDepth], ShapeOf(t)'
  PROVE  Types' /\ Shape'
  <1>1. Types'
    BY DEF Inv, Types, Semaphores
  <1>2. \A u \in Threads \ {t} : thread'[u] = thread[u]
    BY DEF Inv, Types
  <1>3. ASSUME NEW u \in Threads \ {t} PROVE ShapeOf(u)'
    <2>1. ShapeOf(u)
      BY DEF Inv, Shape
    <2> QED BY <1>2, <2>1 DEF ShapeOf
  <1> QED BY <1>1, <1>3 DEF Shape

\* The same when only the place changes.
LEMMA MovedTo ==
  ASSUME Inv, NEW t \in Threads,
         NEW where \in {"enter", "inside", "sleep", "left", "wait", "back", "reenter", "exit"},
         Goto(t, where), Semaphores',
         \A m \in Mutexes : \A u \in Threads \ {t} : owner'[m] = u <=> owner[m] = u,
         owner' \in [Mutexes -> Threads \cup {Nobody}],
         depth' \in [Mutexes -> 0..MaxDepth],
         where \in {"left", "wait", "back", "reenter"} => thread[t].mutex \in Mutexes,
         where \in {"left", "wait"} => ~thread[t].ok,
         where = "exit" => \A m \in Mutexes : owner'[m] # t
  PROVE  Types' /\ Shape'
  <1> DEFINE r == [thread[t] EXCEPT !.pc = where]
  <1>1. thread[t] \in Thread
    BY DEF Inv, Types
  <1>2. r \in Thread /\ r.pc = where /\ r.mutex = thread[t].mutex /\ r.ok = thread[t].ok
    BY <1>1 DEF Thread
  <1>3. thread' = [thread EXCEPT ![t] = r]
    BY DEF Goto
  <1> HIDE DEF r
  <1>4. thread'[t] = r
    BY <1>3 DEF Inv, Types
  <1>5. ShapeOf(t)'
    BY <1>2, <1>4 DEF ShapeOf
  <1> QED BY <1>2, <1>3, <1>5, Moved

LEMMA OwnTypes ==
  ASSUME Inv, NEW t \in Threads, NEW m \in Mutexes, Own(t, m), units[m] = 1 \/ Has(t, m),
         Semaphores'
  PROVE  Types' /\ Shape' /\ OwnDepth'
  <1>1. /\ thread'[t].pc = "inside" /\ owner'[m] = t
        /\ \A k \in Mutexes \ {m} : owner'[k] = owner[k]
    BY Owns
  <1>2. owner' = [owner EXCEPT ![m] = t] /\ depth' = [depth EXCEPT ![m] = 1]
    BY DEF Own
  <1>3. /\ owner' \in [Mutexes -> Threads \cup {Nobody}]
        /\ depth' \in [Mutexes -> 0..MaxDepth]
    BY <1>2, MutexAssumption DEF Inv, Types
  <1>4. PICK r : r = [Free EXCEPT !.pc = "inside"]
    OBVIOUS
  <1>5. r \in Thread /\ thread' = [thread EXCEPT ![t] = r]
    BY <1>4 DEF Free, Thread, Own, AnyTimeout
  <1>6. ShapeOf(t)'
    BY <1>1 DEF ShapeOf
  <1>7. m \in Locks /\ \A u \in Threads \ {t} : ~Has(u, m)
    BY OnlyOne DEF Inv, Local, OneUnitOf, Locks
  <1>8. \A u \in Threads \ {t} : owner[m] # u
    BY <1>7, MutexAssumption DEF Has, Keeps
  <1>9. \A k \in Mutexes : \A u \in Threads \ {t} : owner'[k] = u <=> owner[k] = u
    BY <1>1, <1>8
  <1>10. Types' /\ Shape'
    BY <1>3, <1>5, <1>6, <1>9, Moved
  <1>11. OwnDepth'
    <2>1. \A k \in Mutexes : depth'[k] = IF k = m THEN 1 ELSE depth[k]
      BY <1>2 DEF Inv, Types
    <2> QED BY <1>1, <2>1, MutexAssumption DEF Inv, OwnDepth
  <1> QED BY <1>10, <1>11

LEMMA KeepsOwnDepth == ASSUME OwnDepth, UNCHANGED <<owner, depth>>
                       PROVE  OwnDepth'
  BY DEF OwnDepth

Sound == Types /\ Shape /\ OwnDepth

\* The steps that wait for a unit, or give one up.
LEMMA WalkSound ==
  ASSUME Inv, NEW t \in Threads,
         \/ AcpiExEnterInterpreter(t) \/ Entered(t) \/ AcpiExSystemDoSleep(t) \/ LeaveToWait(t)
         \/ Wait(t) \/ TimedOut(t) \/ ComeBack(t)
  PROVE  Sound'
  <1>1. /\ Types /\ ShapeOf(t) /\ OwnDepth /\ Interpreter \in Locks /\ Mutexes \subseteq Locks
        /\ owner \in [Mutexes -> Threads \cup {Nobody}] /\ depth \in [Mutexes -> 0..MaxDepth]
    BY DEF Inv, Shape, Locks, Types
  <1>2. owner' = owner /\ depth' = depth
    BY DEF AcpiExEnterInterpreter, Entered, AcpiExSystemDoSleep, LeaveToWait, Wait, TimedOut,
           ComeBack
  <1>3. OwnDepth'
    BY <1>1, <1>2, KeepsOwnDepth
  <1>4. ASSUME NEW where \in {"enter", "inside", "sleep", "left", "wait", "back", "reenter", "exit"},
               Goto(t, where), Semaphores', where # "exit",
               where \in {"left", "wait", "back", "reenter"} => thread[t].mutex \in Mutexes,
               where \in {"left", "wait"} => ~thread[t].ok
        PROVE  Sound'
    <2>1. Types' /\ Shape'
      BY <1>1, <1>2, <1>4, MovedTo
    <2> QED BY <1>3, <2>1 DEF Sound
  <1>5. ASSUME NEW l \in Locks, WaitFor(t, l) PROVE Semaphores'
    BY <1>1, <1>5, TakeTypes, EnqueueTypes DEF WaitFor
  <1>6. CASE AcpiExEnterInterpreter(t)
    <2>1. Semaphores' /\ Goto(t, "enter")
      BY <1>1, <1>5, <1>6 DEF AcpiExEnterInterpreter
    <2> QED BY <1>4, <2>1
  <1>7. CASE Entered(t)
    <2>1. Semaphores' /\ Goto(t, "inside")
      BY <1>1, <1>7 DEF Entered, Types, Semaphores
    <2> QED BY <1>4, <2>1
  <1>8. CASE AcpiExSystemDoSleep(t)
    <2>1. Semaphores' /\ Goto(t, "sleep")
      BY <1>1, <1>8, SignalTypes DEF AcpiExSystemDoSleep
    <2> QED BY <1>4, <2>1
  <1>9. CASE LeaveToWait(t)
    <2>1. Semaphores' /\ Goto(t, "left") /\ thread[t].mutex \in Mutexes /\ ~thread[t].ok
      BY <1>1, <1>9, SignalTypes DEF LeaveToWait, At, ShapeOf
    <2> QED BY <1>4, <2>1
  <1>10. CASE Wait(t)
    <2>1. thread[t].mutex \in Mutexes /\ ~thread[t].ok
      BY <1>1, <1>10 DEF Wait, At, ShapeOf
    <2>2. Semaphores' /\ Goto(t, "wait")
      BY <1>1, <1>5, <1>10, <2>1 DEF Wait
    <2> QED BY <1>4, <2>1, <2>2
  <1>11. CASE TimedOut(t)
    <2>1. thread[t].mutex \in Mutexes
      BY <1>1, <1>11 DEF TimedOut, At, ShapeOf
    <2>2. Semaphores' /\ Goto(t, "back")
      BY <1>1, <1>11, <2>1, DequeueTypes DEF TimedOut
    <2> QED BY <1>4, <2>1, <2>2
  <1>12. CASE ComeBack(t)
    <2>1. Semaphores' /\ Goto(t, "reenter") /\ thread[t].mutex \in Mutexes
      BY <1>1, <1>5, <1>12 DEF ComeBack, At, ShapeOf
    <2> QED BY <1>4, <2>1
  <1> QED BY <1>6, <1>7, <1>8, <1>9, <1>10, <1>11, <1>12

\* The others: the mutexes, and the ways in and out with them.
LEMMA MutexSound ==
  ASSUME Inv, NEW t \in Threads,
         \/ AcpiExReleaseAllMutexes(t) \/ AcpiExExitInterpreter(t) \/ Woken(t) \/ Reentered(t)
         \/ \E m \in Mutexes : \/ AcquireAgain(t, m) \/ AcquireAtOnce(t, m)
                               \/ AcpiExReleaseMutexObject(t, m)
                               \/ \E timeout \in Timeouts : TryFails(t, m, timeout)
  PROVE  Sound'
  <1>1. /\ Types /\ ShapeOf(t) /\ OwnDepth /\ thread[t] \in Thread /\ Mutexes \subseteq Locks
        /\ owner \in [Mutexes -> Threads \cup {Nobody}] /\ depth \in [Mutexes -> 0..MaxDepth]
        /\ t # Nobody
    BY MutexAssumption DEF Inv, Shape, Locks, Types
  <1>2. CASE AcpiExReleaseAllMutexes(t)
    <2>1. /\ owner' = [m \in Mutexes |-> IF owner[m] = t THEN Nobody ELSE owner[m]]
          /\ depth' = [m \in Mutexes |-> IF owner[m] = t THEN 0 ELSE depth[m]]
          /\ Goto(t, "exit") /\ Semaphores'
      BY <1>1, <1>2, SignalTypes DEF AcpiExReleaseAllMutexes
    <2>2. owner' \in [Mutexes -> Threads \cup {Nobody}]
      BY <1>1, <2>1
    <2>3. depth' \in [Mutexes -> 0..MaxDepth]
      BY <1>1, <2>1, MutexAssumption
    <2>4. /\ \A m \in Mutexes : \A u \in Threads \ {t} : owner'[m] = u <=> owner[m] = u
          /\ \A m \in Mutexes : owner'[m] # t
      BY <1>1, <2>1, MutexAssumption
    <2>5. Types' /\ Shape'
      BY <2>1, <2>2, <2>3, <2>4, MovedTo
    <2>6. OwnDepth'
      BY <1>1, <2>1 DEF OwnDepth
    <2> QED BY <2>5, <2>6 DEF Sound
  <1>3. CASE AcpiExExitInterpreter(t)
    <2>1. /\ owner' = owner /\ depth' = depth /\ Semaphores'
          /\ thread' = [thread EXCEPT ![t] = Free] /\ thread[t].pc = "exit"
      BY <1>1, <1>3, SignalTypes DEF AcpiExExitInterpreter, At
    <2>2. Free \in Thread
      BY DEF Free, Thread, AnyTimeout
    <2>3. thread'[t] = Free
      BY <1>1, <2>1 DEF Types
    <2>4. ShapeOf(t)'
      BY <1>1, <2>1, <2>3 DEF ShapeOf, Free
    <2>5. Types' /\ Shape'
      BY <1>1, <2>1, <2>2, <2>4, Moved
    <2> QED BY <1>1, <2>1, <2>5, KeepsOwnDepth DEF Sound
  <1>4. CASE Woken(t)
    <2>1. /\ owner' = owner /\ depth' = depth /\ units' = units /\ queue' = queue
          /\ thread[t].pc = "wait" /\ thread[t].mutex \in Mutexes
      BY <1>1, <1>4 DEF Woken, At, ShapeOf
    <2>2. PICK r : r = [thread[t] EXCEPT !.pc = "back", !.ok = TRUE]
      OBVIOUS
    <2>3. r \in Thread /\ r.pc = "back" /\ r.mutex = thread[t].mutex
      BY <1>1, <2>2 DEF Thread
    <2>4. thread' = [thread EXCEPT ![t] = r]
      BY <1>1, <1>4, <2>2 DEF Woken, Types, Thread
    <2>5. thread'[t] = r
      BY <1>1, <2>4 DEF Types
    <2>6. ShapeOf(t)'
      BY <2>1, <2>3, <2>5 DEF ShapeOf
    <2>7. Semaphores'
      BY <1>1, <2>1 DEF Semaphores, Types
    <2>8. Types' /\ Shape'
      BY <1>1, <2>1, <2>3, <2>4, <2>6, <2>7, Moved
    <2> QED BY <1>1, <2>1, <2>8, KeepsOwnDepth DEF Sound
  <1>5. CASE Reentered(t)
    <2>1. /\ units' = units /\ queue' = queue /\ Semaphores'
          /\ thread[t].pc = "reenter" /\ thread[t].mutex \in Mutexes
      BY <1>1, <1>5 DEF Reentered, At, ShapeOf, Semaphores, Types
    <2>2. CASE thread[t].ok /\ Own(t, thread[t].mutex)
      <3>1. PICK m \in Mutexes : m = thread[t].mutex
        BY <2>1
      <3>2. m # Interpreter
        BY MutexAssumption
      <3>3. Has(t, m)
        BY <2>1, <2>2, <3>1, <3>2 DEF Has, Keeps
      <3> QED BY <2>1, <2>2, <3>1, <3>3, OwnTypes DEF Sound
    <2>3. CASE /\ ~thread[t].ok /\ owner' = owner /\ depth' = depth
               /\ thread' = [thread EXCEPT ![t] = [Free EXCEPT !.pc = "inside"]]
      <3>1. PICK r : r = [Free EXCEPT !.pc = "inside"]
        OBVIOUS
      <3>2. r \in Thread /\ r.pc = "inside"
        BY <3>1 DEF Free, Thread, AnyTimeout
      <3>3. thread' = [thread EXCEPT ![t] = r]
        BY <2>3, <3>1
      <3>4. thread'[t] = r
        BY <1>1, <3>3 DEF Types
      <3>5. ShapeOf(t)'
        BY <3>2, <3>4 DEF ShapeOf
      <3>6. Types' /\ Shape'
        BY <1>1, <2>1, <2>3, <3>2, <3>3, <3>5, Moved
      <3> QED BY <1>1, <2>3, <3>6, KeepsOwnDepth DEF Sound
    <2> QED BY <1>5, <2>2, <2>3 DEF Reentered
  <1>6. ASSUME NEW m \in Mutexes, AcquireAgain(t, m) PROVE Sound'
    <2>1. /\ owner' = owner /\ thread' = thread /\ units' = units /\ queue' = queue
          /\ depth' = [depth EXCEPT ![m] = @ + 1] /\ owner[m] = t /\ depth[m] < MaxDepth
      BY <1>6 DEF AcquireAgain
    <2>2. depth[m] \in 0..MaxDepth /\ depth[m] + 1 \in 0..MaxDepth /\ depth[m] + 1 # 0
      BY <1>1, <2>1, MutexAssumption
    <2>3. depth' \in [Mutexes -> 0..MaxDepth]
      BY <1>1, <2>1, <2>2
    <2>4. Types'
      BY <1>1, <2>1, <2>3 DEF Types
    <2>5. Shape'
      BY <2>1 DEF Inv, Shape, ShapeOf
    <2>6. OwnDepth'
      <3>1. \A k \in Mutexes : depth'[k] = IF k = m THEN depth[m] + 1 ELSE depth[k]
        BY <1>1, <2>1
      <3> QED BY <1>1, <2>1, <2>2, <3>1 DEF OwnDepth
    <2> QED BY <2>4, <2>5, <2>6 DEF Sound
  <1>7. ASSUME NEW m \in Mutexes, AcquireAtOnce(t, m) PROVE Sound'
    <2>1. TakeUnit(m) /\ Own(t, m) /\ units[m] > 0 /\ m \in Locks
      BY <1>1, <1>7 DEF AcquireAtOnce, TakeUnit
    <2>2. units[m] = 1
      BY <2>1 DEF Inv, Local, OneUnitOf
    <2>3. Semaphores'
      BY <1>1, <2>1, TakeTypes
    <2> QED BY <2>1, <2>2, <2>3, OwnTypes DEF Sound
  <1>8. ASSUME NEW m \in Mutexes, AcpiExReleaseMutexObject(t, m) PROVE Sound'
    <2>1. /\ owner[m] = t /\ depth' = [depth EXCEPT ![m] = @ - 1] /\ thread' = thread
          /\ thread[t].pc = "inside"
      BY <1>8 DEF AcpiExReleaseMutexObject, At
    <2>2. depth[m] \in 0..MaxDepth /\ depth[m] # 0 /\ depth[m] - 1 \in 0..MaxDepth
      <3>1. depth[m] \in 0..MaxDepth /\ depth[m] # 0
        BY <1>1, <2>1 DEF OwnDepth
      <3> QED BY <3>1, MutexAssumption
    <2>3. depth' \in [Mutexes -> 0..MaxDepth]
      BY <1>1, <2>1, <2>2
    <2>4. \A k \in Mutexes : depth'[k] = IF k = m THEN depth[m] - 1 ELSE depth[k]
      BY <1>1, <2>1
    <2>5. CASE depth[m] = 1
      <3>1. Signal({m}) /\ owner' = [owner EXCEPT ![m] = Nobody]
        BY <1>8, <2>5 DEF AcpiExReleaseMutexObject
      <3>2. Semaphores'
        BY <1>1, <3>1, SignalTypes
      <3>3. owner' \in [Mutexes -> Threads \cup {Nobody}]
        BY <1>1, <3>1
      <3>4. Types'
        BY <1>1, <2>1, <2>3, <3>2, <3>3 DEF Types, Semaphores
      <3>5. \A k \in Mutexes : owner'[k] = IF k = m THEN Nobody ELSE owner[k]
        BY <1>1, <3>1
      <3>6. Shape'
        BY <2>1, <3>5, MutexAssumption DEF Inv, Shape, ShapeOf
      <3>7. OwnDepth'
        BY <1>1, <2>4, <2>5, <3>5 DEF OwnDepth
      <3> QED BY <3>4, <3>6, <3>7 DEF Sound
    <2>6. CASE depth[m] # 1
      <3>1. owner' = owner /\ units' = units /\ queue' = queue
        BY <1>8, <2>6 DEF AcpiExReleaseMutexObject
      <3>2. Types'
        BY <1>1, <2>1, <2>3, <3>1 DEF Types
      <3>3. Shape'
        BY <2>1, <3>1 DEF Inv, Shape, ShapeOf
      <3>4. depth[m] - 1 # 0
        BY <2>2, <2>6
      <3>5. OwnDepth'
        BY <1>1, <2>1, <2>4, <3>1, <3>4 DEF OwnDepth
      <3> QED BY <3>2, <3>3, <3>5 DEF Sound
    <2> QED BY <2>5, <2>6
  <1>9. ASSUME NEW m \in Mutexes, NEW timeout \in Timeouts, TryFails(t, m, timeout) PROVE Sound'
    <2>1. PICK where \in {"leave", "try"} :
              /\ thread' = [thread EXCEPT ![t] =
                     [pc |-> where, mutex |-> m, timeout |-> timeout, ok |-> FALSE]]
              /\ where = "leave" => UNCHANGED <<units, queue>>
              /\ where = "try" => Enqueue(t, m)
      BY <1>9 DEF TryFails
    <2>2. owner' = owner /\ depth' = depth
      BY <1>9 DEF TryFails
    <2>3. PICK r : r = [pc |-> where, mutex |-> m, timeout |-> timeout, ok |-> FALSE]
      OBVIOUS
    <2>4. r \in Thread /\ r.pc = where /\ r.mutex = m /\ r.ok = FALSE
      BY <2>3, MutexAssumption DEF Thread
    <2>5. thread' = [thread EXCEPT ![t] = r] /\ thread'[t] = r
      BY <1>1, <2>1, <2>3 DEF Types
    <2>6. ShapeOf(t)'
      BY <2>4, <2>5 DEF ShapeOf
    <2>7. Semaphores'
      <3>1. CASE where = "leave"
        BY <1>1, <2>1, <3>1 DEF Semaphores, Types
      <3>2. CASE where = "try"
        BY <1>1, <2>1, <3>2, EnqueueTypes
      <3> QED BY <3>1, <3>2
    <2>8. Types' /\ Shape'
      BY <1>1, <2>2, <2>4, <2>5, <2>6, <2>7, Moved
    <2> QED BY <1>1, <2>2, <2>8, KeepsOwnDepth DEF Sound
  <1> QED BY <1>2, <1>3, <1>4, <1>5, <1>6, <1>7, <1>8, <1>9

\* While a thread waits in the interpreter, no other is there; those that are not
\* there wake nobody.
LEMMA OutsideSteps ==
  ASSUME Inv, NEW t \in Threads, Step(t), ~Has(t, Interpreter)
  PROVE  \/ AcpiExEnterInterpreter(t) \/ Wait(t) \/ Woken(t) \/ TimedOut(t) \/ ComeBack(t)
  <1>1. ~Keeps(t, Interpreter) /\ (Wants(t, Interpreter) => Queued(t, Interpreter))
    BY DEF Has
  <1>2. thread[t].pc \notin {"inside", "try", "leave", "exit"}
    BY <1>1 DEF Keeps
  <1>3. thread[t].pc \in {"enter", "reenter"} => Queued(t, Interpreter)
    BY <1>1 DEF Wants
  <1> QED BY <1>2, <1>3 DEF Step, At, Granted, AcpiExSystemDoSleep, AcpiExReleaseAllMutexes,
            Entered, AcpiExExitInterpreter, LeaveToWait, Reentered, AcquireAgain,
            AcquireAtOnce, AcpiExReleaseMutexObject, TryFails

LEMMA StaysQueued ==
  ASSUME Inv, NEW t \in Threads, NEW u \in Threads \ {t}, NEW l \in Locks, Queued(u, l),
         queue'[l] = queue[l] \/ queue'[l] = Append(queue[l], t)
  PROVE  Queued(u, l)'
  <1>1. In(u, queue[l]) /\ queue[l] \in Seq(Threads) /\ Once(queue[l])
    BY QueuedIs DEF Inv, Local
  <1>2. CASE queue'[l] = queue[l]
    BY <1>1, <1>2, QueuedIs
  <1>3. CASE queue'[l] = Append(queue[l], t)
    <2>1. PICK i \in DOMAIN queue[l] : queue[l][i] = u
      BY <1>1 DEF In
    <2>2. i \in DOMAIN queue'[l] /\ queue'[l][i] = u
      BY <1>1, <1>3, <2>1
    <2> QED BY <2>2 DEF Queued
  <1> QED BY <1>2, <1>3

\* A thread's step changes no other thread's place.
LEMMA StepOfOne ==
  ASSUME Inv, NEW t \in Threads, Step(t), NEW u \in Threads \ {t}
  PROVE  thread'[u] = thread[u]
  BY DEF Inv, Step, Goto, Types, AcpiExEnterInterpreter, AcpiExSystemDoSleep,
        AcpiExReleaseAllMutexes, Entered, AcpiExExitInterpreter, LeaveToWait, Wait, Woken,
        TimedOut, ComeBack, Reentered, Own, AcquireAgain, AcquireAtOnce,
        AcpiExReleaseMutexObject, TryFails

\* A thread comes to wait in the interpreter only by a try that fails.
LEMMA OnlyTryFails ==
  ASSUME Inv, NEW t \in Threads, Step(t), At(t, "try")'
  PROVE  \E k \in Mutexes, timeout \in Timeouts : TryFails(t, k, timeout)
  <1>1. Types /\ thread'[t].pc = "try" /\ thread[t] \in Thread
    BY DEF Inv, At, Types
  <1>2. ASSUME NEW where, where # "try", Goto(t, where) PROVE FALSE
    <2>1. thread'[t].pc = where
      BY <1>1, <1>2 DEF Goto, Types, Thread
    <2> QED BY <1>1, <1>2, <2>1
  <1>3. ASSUME NEW r, r.pc # "try", thread' = [thread EXCEPT ![t] = r] PROVE FALSE
    <2>1. thread'[t] = r
      BY <1>1, <1>3 DEF Types
    <2> QED BY <1>1, <1>3, <2>1
  <1>4. [Free EXCEPT !.pc = "inside"].pc # "try" /\ Free.pc # "try"
    BY DEF Free
  <1>5. ASSUME NEW n, Own(t, n) PROVE FALSE
    BY <1>3, <1>4, <1>5 DEF Own
  <1>6. ASSUME Woken(t) PROVE FALSE
    <2>1. PICK r : r = [thread[t] EXCEPT !.pc = "back", !.ok = TRUE]
      OBVIOUS
    <2>2. r.pc = "back"
      BY <1>1, <2>1 DEF Thread
    <2>3. thread' = [thread EXCEPT ![t] = r]
      BY <1>1, <1>6, <2>1 DEF Woken, Types, Thread
    <2> QED BY <1>3, <2>2, <2>3
  <1>7. ASSUME Reentered(t) PROVE FALSE
    BY <1>3, <1>4, <1>5, <1>7 DEF Reentered
  <1>8. ASSUME AcpiExExitInterpreter(t) PROVE FALSE
    BY <1>3, <1>4, <1>8 DEF AcpiExExitInterpreter
  <1>9. ASSUME \/ AcpiExEnterInterpreter(t) \/ AcpiExSystemDoSleep(t)
               \/ AcpiExReleaseAllMutexes(t) \/ Entered(t) \/ LeaveToWait(t) \/ Wait(t)
               \/ TimedOut(t) \/ ComeBack(t)
        PROVE  FALSE
    BY <1>2, <1>9 DEF AcpiExEnterInterpreter, AcpiExSystemDoSleep,
          AcpiExReleaseAllMutexes, Entered, LeaveToWait, Wait, TimedOut, ComeBack
  <1>10. ASSUME NEW n \in Mutexes,
               AcquireAgain(t, n) \/ AcquireAtOnce(t, n) \/ AcpiExReleaseMutexObject(t, n)
        PROVE  FALSE
    BY <1>1, <1>5, <1>10 DEF AcquireAgain, AcquireAtOnce, AcpiExReleaseMutexObject, At
  <1> QED BY <1>6, <1>7, <1>8, <1>9, <1>10 DEF Step

LEMMA TryStep ==
  ASSUME Inv, NEW t \in Threads, Step(t), Types', Shape', \A l \in Locks : Local(l)'
  PROVE  TryQueued'
  <1>1. Types /\ TryQueued /\ Interpreter \in Locks /\ Mutexes \subseteq Locks
    BY DEF Inv, Locks
  <1>2. \A u \in Threads \ {t} : thread'[u] = thread[u]
    BY StepOfOne
  <1>3. ASSUME NEW u \in Threads \ {t}, At(u, "try")'
        PROVE  \E m \in Mutexes : thread'[u].mutex = m /\ Queued(u, m)'
    <2>1. thread'[u] = thread[u] /\ thread[u].pc = "try"
      BY <1>2, <1>3 DEF At
    <2>2. PICK m \in Mutexes : m = thread[u].mutex
      BY <2>1 DEF Inv, Shape, ShapeOf
    <2>3. m \in Locks /\ m # Interpreter /\ Queued(u, m)
      BY <1>1, <2>1, <2>2, MutexAssumption DEF TryQueued, At
    <2>4. Has(u, Interpreter)
      BY <2>1 DEF Has, Keeps
    <2>5. ~Has(t, Interpreter)
      BY <1>1, <2>4, OnlyOne
    <2>6. CASE AcpiExEnterInterpreter(t) \/ ComeBack(t)
      <3>1. WaitFor(t, Interpreter)
        BY <2>6 DEF AcpiExEnterInterpreter, ComeBack
      <3>2. queue'[m] = queue[m]
        BY <1>1, <2>3, <3>1, WaitOn
      <3>3. Queued(u, m)'
        BY <2>3, <3>2, StaysQueued
      <3> QED BY <2>1, <2>2, <3>3
    <2>7. CASE Wait(t)
      <3>1. PICK k \in Mutexes : k = thread[t].mutex
        BY <2>7 DEF Inv, Shape, ShapeOf, Wait, At
      <3>2. WaitFor(t, k) /\ k \in Locks
        BY <1>1, <2>7, <3>1 DEF Wait
      <3>3. queue'[m] = queue[m] \/ queue'[m] = Append(queue[m], t)
        BY <1>1, <2>3, <3>2, WaitOn
      <3>4. Queued(u, m)'
        BY <2>3, <3>3, StaysQueued
      <3> QED BY <2>1, <2>2, <3>4
    <2>8. CASE Woken(t)
      <3>1. queue'[m] = queue[m]
        BY <2>8 DEF Woken
      <3>2. Queued(u, m)'
        BY <2>3, <3>1, StaysQueued
      <3> QED BY <2>1, <2>2, <3>2
    <2>9. CASE TimedOut(t)
      <3>1. PICK k \in Mutexes : k = thread[t].mutex
        BY <2>9 DEF Inv, Shape, ShapeOf, TimedOut, At
      <3>2. PICK i \in DOMAIN queue[k] :
                queue[k][i] = t /\ queue' = [queue EXCEPT ![k] = RemoveAt(@, i)]
        BY <2>9, <3>1 DEF TimedOut, Dequeue
      <3>3. CASE k = m
        <4>1. queue'[m] = RemoveAt(queue[m], i) /\ i \in DOMAIN queue[m] /\ queue[m][i] = t
          BY <1>1, <2>3, <3>2, <3>3 DEF Types
        <4>2. queue[m] \in Seq(Threads) /\ Once(queue[m])
          BY <2>3 DEF Inv, Local
        <4>3. \A v : In(v, queue'[m]) <=> In(v, queue[m]) /\ v # t
          BY <4>1, <4>2, RemoveQueue
        <4>4. Queued(u, m)'
          BY <2>3, <4>3, QueuedIs
        <4> QED BY <2>1, <2>2, <4>4
      <3>4. CASE k # m
        <4>1. queue'[m] = queue[m]
          BY <1>1, <2>3, <3>2, <3>4 DEF Types
        <4>2. Queued(u, m)'
          BY <2>3, <4>1, StaysQueued
        <4> QED BY <2>1, <2>2, <4>2
      <3> QED BY <3>3, <3>4
    <2> QED BY <2>5, <2>6, <2>7, <2>8, <2>9, OutsideSteps
  <1>4. ASSUME At(t, "try")'
        PROVE  \E m \in Mutexes : thread'[t].mutex = m /\ Queued(t, m)'
    <2>1. thread'[t].pc = "try" /\ thread[t] \in Thread
      BY <1>1, <1>4 DEF At, Types
    <2>2. PICK m \in Mutexes : m = thread'[t].mutex
      BY <2>1 DEF Shape, ShapeOf
    <2>3. PICK k \in Mutexes, timeout \in Timeouts : TryFails(t, k, timeout)
      BY <1>4, OnlyTryFails
    <2>4. PICK where \in {"leave", "try"} :
              /\ thread' = [thread EXCEPT ![t] =
                     [pc |-> where, mutex |-> k, timeout |-> timeout, ok |-> FALSE]]
              /\ where = "leave" => UNCHANGED <<units, queue>>
              /\ where = "try" => Enqueue(t, k)
      BY <2>3 DEF TryFails
    <2>5. thread'[t].pc = where /\ thread'[t].mutex = k
      BY <1>1, <2>4 DEF Types
    <2>6. Enqueue(t, k) /\ k \in Locks /\ m = k
      BY <1>1, <2>1, <2>2, <2>4, <2>5
    <2>7. queue'[k] = Append(queue[k], t) /\ queue[k] \in Seq(Threads)
      BY <1>1, <2>6 DEF Enqueue, Types
    <2>8. Len(queue[k]) + 1 \in DOMAIN queue'[k] /\ queue'[k][Len(queue[k]) + 1] = t
      BY <2>7
    <2>9. Queued(t, k)'
      BY <2>8 DEF Queued
    <2> QED BY <2>2, <2>6, <2>9
  <1>5. ASSUME NEW u \in Threads, At(u, "try")' PROVE Queued(u, thread[u].mutex)'
    <2>1. PICK m \in Mutexes : thread'[u].mutex = m /\ Queued(u, m)'
      BY <1>3, <1>4, <1>5
    <2> QED BY <2>1 DEF Queued
  <1> QED BY <1>5 DEF TryQueued

LEMMA InvInit == Init => Inv
  <1> SUFFICES ASSUME Init PROVE Inv
    OBVIOUS
  <1>1. \A t \in Threads : thread[t] = Free
    BY DEF Init
  <1>2. Free \in Thread /\ Free.pc = "outside"
    BY DEF Free, Thread, AnyTimeout
  <1>3. Types
    <2>1. thread \in [Threads -> Thread]
      BY <1>2 DEF Init
    <2>2. depth \in [Mutexes -> 0..MaxDepth]
      BY MutexAssumption DEF Init
    <2>3. units \in [Locks -> Int] /\ queue \in [Locks -> Seq(Threads)]
      BY DEF Init
    <2>4. owner \in [Mutexes -> Threads \cup {Nobody}]
      BY DEF Init
    <2> QED BY <2>1, <2>2, <2>3, <2>4 DEF Types
  <1>4. Shape
    BY <1>1, <1>2, MutexAssumption DEF Init, Shape, ShapeOf
  <1>5. OwnDepth
    BY DEF Init, OwnDepth
  <1>6. TryQueued
    BY <1>1, <1>2 DEF TryQueued, At
  <1>7. ASSUME NEW l \in Locks PROVE Local(l)
    <2>1. queue[l] = <<>> /\ units[l] = 1
      BY DEF Init
    <2>2. \A u : ~Queued(u, l)
      BY <2>1, QueuedIs, EmptyQueue
    <2>3. \A u \in Threads : ~Has(u, l)
      BY <1>1, <1>2, MutexAssumption DEF Init, Has, Keeps, Wants, Locks
    <2>4. OneUnitOf(l)
      BY <2>1, <2>3 DEF OneUnitOf
    <2>5. queue[l] \in Seq(Threads) /\ Once(queue[l])
      BY <2>1 DEF Once
    <2> QED BY <2>1, <2>2, <2>4, <2>5 DEF Local
  <1> QED BY <1>3, <1>4, <1>5, <1>6, <1>7 DEF Inv

LEMMA InvStep == Inv /\ [Next]_vars => Inv'
  <1> SUFFICES ASSUME Inv, [Next]_vars PROVE Inv'
    OBVIOUS
  <1>1. CASE UNCHANGED vars
    BY <1>1 DEF vars, Inv, Types, Shape, ShapeOf, OwnDepth, TryQueued, At, Queued, Local,
          OneUnitOf, Has, Keeps, Wants
  <1>2. ASSUME NEW t \in Threads, Step(t) PROVE Inv'
    <2>1. Sound'
      BY <1>2, WalkSound, MutexSound DEF Step
    <2>2. Types' /\ Shape' /\ OwnDepth'
      BY <2>1 DEF Sound
    <2>3. \A l \in Locks : Local(l)'
      BY <1>2, LocalStep
    <2>4. TryQueued'
      BY <1>2, <2>2, <2>3, TryStep
    <2> QED BY <2>2, <2>3, <2>4 DEF Inv, Locks
  <1> QED BY <1>1, <1>2, Cases

LEMMA InvAlways == Spec => []Inv
  BY InvInit, InvStep, PTL DEF Spec

-----------------------------------------------------------------------------
(* Theorems                                                                *)

\* InInterpreter and Holds are the Has of a lock.
LEMMA InterpreterIs ==
  ASSUME Inv, NEW t \in Threads
  PROVE  InInterpreter(t) <=> Has(t, Interpreter)
  BY DEF InInterpreter, Granted, Has, Keeps, Wants

LEMMA HoldsIs ==
  ASSUME Inv, NEW t \in Threads, NEW m \in Mutexes
  PROVE  Holds(t, m) <=> Has(t, m)
  <1>1. m # Interpreter
    BY MutexAssumption
  <1>2. ~(thread[t].pc = "try" /\ thread[t].mutex = m /\ ~Queued(t, m))
    BY DEF Inv, TryQueued, At
  <1> QED BY <1>1, <1>2 DEF Holds, Has, Keeps, Wants

\* A unit and the threads that have it make one.
LEMMA UnitCount ==
  ASSUME NEW u, NEW S, \/ u = 1 /\ S = {}
                       \/ u = 0 /\ \E t : S = {t}
  PROVE  u + Cardinality(S) = 1
  <1>1. CASE u = 1 /\ S = {}
    <2>1. Cardinality(S) = 0
      BY <1>1, FS_EmptySet
    <2> QED BY <1>1, <2>1
  <1>2. ASSUME u = 0, NEW t, S = {t} PROVE u + Cardinality(S) = 1
    <2>1. Cardinality(S) = 1
      BY <1>2, FS_Singleton
    <2> QED BY <1>2, <2>1
  <1> QED BY <1>1, <1>2

LEMMA OneUnitIs ==
  ASSUME Inv, NEW l \in Locks
  PROVE  units[l] + Cardinality({t \in Threads : Has(t, l)}) = 1
  <1> DEFINE S == {t \in Threads : Has(t, l)}
  <1>1. OneUnitOf(l)
    BY DEF Inv, Local
  <1>2. CASE units[l] = 1 /\ \A u \in Threads : ~Has(u, l)
    <2>1. S = {}
      BY <1>2
    <2> HIDE DEF S
    <2> QED BY <1>2, <2>1, UnitCount DEF S
  <1>3. ASSUME units[l] = 0, NEW t \in Threads, \A u \in Threads : Has(u, l) <=> u = t
        PROVE  units[l] + Cardinality(S) = 1
    <2>1. S = {t}
      BY <1>3
    <2> HIDE DEF S
    <2> QED BY <1>3, <2>1, UnitCount
  <1> QED BY <1>1, <1>2, <1>3 DEF OneUnitOf

\* The variables keep their types: whatever threads signal, and whatever waits end
\* early, no semaphore has a second unit, and none is waited for twice by a thread.
THEOREM TypeCorrect == Spec => []TypeOK
  <1>1. Inv => TypeOK
    <2> SUFFICES ASSUME Inv PROVE TypeOK
      OBVIOUS
    <2>1. Types
      BY DEF Inv
    <2>2. \A l \in Locks : units[l] \in 0..1
      BY DEF Inv, Local, OneUnitOf
    <2>3. units \in [Locks -> 0..1]
      BY <2>1, <2>2 DEF Types
    <2>4. \A l \in Locks : Len(queue[l]) <= Cardinality(Threads)
      BY MutexAssumption, ShortQueue DEF Inv, Local
    <2> QED BY <2>1, <2>3, <2>4 DEF Types, TypeOK
  <1> QED BY InvAlways, <1>1, PTL

\* The unit of the interpreter's and of each mutex's semaphore is free or with one
\* thread, and nobody waits for a free one, for any threads and mutexes, whichever
\* waits end and whatever the deadline zero means.
THEOREM UnitsAreKept == Spec => []OneUnit
  <1>1. Inv => OneUnit
    <2> SUFFICES ASSUME Inv PROVE OneUnit
      OBVIOUS
    <2>1. ASSUME NEW m \in Mutexes
          PROVE  units[m] + Cardinality({t \in Threads : Holds(t, m)}) = 1
      <3>1. {t \in Threads : Holds(t, m)} = {t \in Threads : Has(t, m)}
        BY HoldsIs
      <3> QED BY <3>1, OneUnitIs DEF Locks
    <2>2. units[Interpreter] + Cardinality({t \in Threads : InInterpreter(t)}) = 1
      <3>1. {t \in Threads : InInterpreter(t)} = {t \in Threads : Has(t, Interpreter)}
        BY InterpreterIs
      <3> QED BY <3>1, OneUnitIs DEF Locks
    <2>3. \A l \in Locks : queue[l] # <<>> => units[l] = 0
      BY DEF Inv, Local
    <2>4. \A t \in Threads : At(t, "try") => Queued(t, thread[t].mutex)
      BY DEF Inv, TryQueued
    <2> QED BY <2>1, <2>2, <2>3, <2>4 DEF OneUnit
  <1> QED BY InvAlways, <1>1, PTL

\* A thread that is outside, after its method, has no unit and waits for none: the
\* release of all mutexes leaves nothing, however deep and by which ways acquired.
THEOREM LeavesNothing == Spec => []NothingLeftBehind
  <1>1. Inv => NothingLeftBehind
    <2> SUFFICES ASSUME Inv, NEW t \in Threads, At(t, "outside")
                 PROVE  /\ \A m \in Mutexes : ~Holds(t, m)
                        /\ \A l \in Locks : ~Queued(t, l)
      BY DEF NothingLeftBehind
    <2>1. thread[t].pc = "outside" /\ \A m \in Mutexes : owner[m] # t
      BY DEF At, Inv, Shape, ShapeOf
    <2>2. \A m \in Mutexes : ~Holds(t, m)
      BY <2>1 DEF Holds
    <2>3. \A l \in Locks : ~Wants(t, l)
      BY <2>1 DEF Wants
    <2> QED BY <2>2, <2>3 DEF Inv, Local
  <1> QED BY InvAlways, <1>1, PTL

\* The owner and the depth of a mutex object change only by the one thread that is
\* in the interpreter, which was or becomes its owner: so AcpiExReleaseMutexObject
\* may signal before it clears the owner.
THEOREM OwnersUnderInterpreter == Spec => OwnerUnderInterpreter
  <1> DEFINE Changes(m) == <<owner[m], depth[m]>>' # <<owner[m], depth[m]>>
             Rightly(m) == \E t \in Threads : /\ {u \in Threads : InInterpreter(u)} = {t}
                                              /\ t \in {owner[m], owner'[m]}
             A == \A m \in Mutexes : Changes(m) => Rightly(m)
  <1>1. ASSUME Inv, NEW t \in Threads, Has(t, Interpreter)
        PROVE  {u \in Threads : InInterpreter(u)} = {t}
    <2>1. \A u \in Threads : Has(u, Interpreter) <=> u = t
      BY <1>1, OnlyOne DEF Locks
    <2> QED BY <1>1, <2>1, InterpreterIs
  <1>2. ASSUME Inv, NEW t \in Threads, Step(t), NEW m \in Mutexes, Changes(m)
        PROVE  Has(t, Interpreter) /\ t \in {owner[m], owner'[m]}
    <2>1. Types
      BY <1>2 DEF Inv
    <2>2. ASSUME At(t, "inside") PROVE Has(t, Interpreter)
      BY <2>2 DEF At, Has, Keeps
    <2>3. owner'[m] # owner[m] \/ depth'[m] # depth[m]
      BY <1>2
    <2>4. CASE AcpiExReleaseAllMutexes(t)
      BY <2>2, <2>3, <2>4 DEF AcpiExReleaseAllMutexes
    <2>5. ASSUME NEW k \in Mutexes,
                 AcquireAgain(t, k) \/ AcpiExReleaseMutexObject(t, k)
          PROVE  Has(t, Interpreter) /\ t \in {owner[m], owner'[m]}
      BY <2>1, <2>2, <2>3, <2>5 DEF AcquireAgain, AcpiExReleaseMutexObject, Types
    <2>6. ASSUME NEW k \in Mutexes, Own(t, k) PROVE t \in {owner[m], owner'[m]}
      BY <2>1, <2>3, <2>6 DEF Own, Types
    <2>7. ASSUME NEW k \in Mutexes, AcquireAtOnce(t, k)
          PROVE  Has(t, Interpreter) /\ t \in {owner[m], owner'[m]}
      BY <2>2, <2>6, <2>7 DEF AcquireAtOnce
    <2>8. CASE Reentered(t)
      <3>1. Has(t, Interpreter) /\ thread[t].mutex \in Mutexes
        BY <1>2, <2>8 DEF Reentered, At, Granted, Has, Wants, Inv, Shape, ShapeOf
      <3>2. Own(t, thread[t].mutex)
        BY <2>3, <2>8 DEF Reentered
      <3> QED BY <2>6, <3>1, <3>2
    <2>9. ASSUME UNCHANGED <<owner, depth>> PROVE FALSE
      BY <2>3, <2>9
    <2>10. CASE \/ AcpiExEnterInterpreter(t) \/ Entered(t) \/ AcpiExSystemDoSleep(t)
                \/ AcpiExExitInterpreter(t) \/ LeaveToWait(t) \/ Wait(t) \/ Woken(t)
                \/ TimedOut(t) \/ ComeBack(t)
                \/ \E k \in Mutexes, timeout \in Timeouts : TryFails(t, k, timeout)
      BY <2>9, <2>10 DEF AcpiExEnterInterpreter, Entered, AcpiExSystemDoSleep,
            AcpiExExitInterpreter, LeaveToWait, Wait, Woken, TimedOut, ComeBack, TryFails
    <2> QED BY <1>2, <2>4, <2>5, <2>7, <2>8, <2>10 DEF Step
  <1>3. Inv /\ [Next]_vars => [A]_vars
    <2> SUFFICES ASSUME Inv, [Next]_vars, ~UNCHANGED vars, NEW m \in Mutexes, Changes(m)
                 PROVE  Rightly(m)
      OBVIOUS
    <2>1. PICK t \in Threads : Step(t)
      BY Cases
    <2>2. Has(t, Interpreter) /\ t \in {owner[m], owner'[m]}
      BY <1>2, <2>1
    <2>3. {u \in Threads : InInterpreter(u)} = {t}
      BY <1>1, <2>2
    <2> QED BY <2>2, <2>3
  <1> QED BY InvAlways, <1>3, PTL DEF Spec, OwnerUnderInterpreter

\* If the kernel takes the deadline zero as one that has passed, the comment of
\* AcpiExSystemWaitMutex is right: no thread waits for a mutex in the interpreter.
\* What contradicts it is that meaning of the deadline alone.
THEOREM WaitersLeave ==
  ASSUME "none" \notin ZeroDeadline
  PROVE  Spec => []WaitersLeaveInterpreter
  <1> DEFINE NoTry == \A t \in Threads : ~At(t, "try")
  <1>1. Init => NoTry
    BY DEF Init, Free, At
  <1>2. Inv /\ NoTry /\ [Next]_vars => NoTry'
    <2> SUFFICES ASSUME Inv, NoTry, [Next]_vars, NEW u \in Threads, At(u, "try")' PROVE FALSE
      OBVIOUS
    <2>1. CASE UNCHANGED vars
      BY <2>1 DEF vars, At
    <2>2. ASSUME NEW t \in Threads, Step(t) PROVE FALSE
      <3>1. CASE u = t
        <4>1. PICK k \in Mutexes, timeout \in Timeouts : TryFails(t, k, timeout)
          BY <2>2, <3>1, OnlyTryFails
        <4>2. thread' = [thread EXCEPT ![t] =
                  [pc |-> "leave", mutex |-> k, timeout |-> timeout, ok |-> FALSE]]
          BY <4>1 DEF TryFails
        <4>3. thread'[t].pc = "leave"
          BY <4>2 DEF Inv, Types
        <4> QED BY <3>1, <4>3 DEF At
      <3>2. CASE u # t
        <4>1. thread'[u] = thread[u]
          BY <2>2, <3>2, StepOfOne
        <4> QED BY <4>1 DEF At
      <3> QED BY <3>1, <3>2
    <2> QED BY <2>1, <2>2, Cases
  <1>3. Inv /\ NoTry => WaitersLeaveInterpreter
    <2> SUFFICES ASSUME Inv, NoTry, NEW t \in Threads, NEW m \in Mutexes, Queued(t, m),
                        InInterpreter(t)
                 PROVE  FALSE
      BY DEF WaitersLeaveInterpreter
    <2>1. Wants(t, m) /\ m # Interpreter
      BY MutexAssumption DEF Inv, Local, Locks
    <2>2. thread[t].pc = "wait"
      BY <2>1 DEF Wants, At
    <2> QED BY <2>2 DEF InInterpreter
  <1> HIDE DEF NoTry
  <1> QED BY InvAlways, <1>1, <1>2, <1>3, PTL DEF Spec
=============================================================================
