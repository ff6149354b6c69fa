------------------------ MODULE MethodExecutionProofs ------------------------
(***************************************************************************)
(* Theorems of MethodExecution, for any finite set of threads, any mutexes *)
(* and methods with any sync levels, any nesting, and any number of        *)
(* entries that fail half way.                                             *)
(*                                                                         *)
(* First the types (Typing). Then exclusion: the inductive invariant, Inv, *)
(* says where the unit of each lock is, how the depth of a method's mutex  *)
(* and its thread count follow the frames on the stacks, and that a        *)
(* thread's list names the mutexes it owns.                                *)
(*                                                                         *)
(* Last the levels, the order of waiting and the objects (FurtherInv). For *)
(* the levels, Chain relates a thread's stack of methods, its list of      *)
(* mutexes, its current level and the levels it is going to restore: each  *)
(* step of a thread is classified by what it does to these (Classes), and  *)
(* a lemma on sequences says that a chain stays one: ChainLink when a      *)
(* mutex is acquired, ChainRemove when one is released from anywhere in    *)
(* the list, ChainPush and ChainCall when a method is entered, ChainPop    *)
(* when it is left.                                                        *)
(***************************************************************************)
EXTENDS MethodExecution, FiniteSetTheorems, TLAPS

\* What a thread's place says of its stack and of the lock it waits for.
Places ==
    \A t \in Threads :
        /\ pc[t] \notin {"outside", "wait", "woken"} => frames[t] # <<>>
        /\ pc[t] \in {"wait", "woken"} =>
               /\ wants[t] \in Locks
               /\ wants[t] \in Mutexes => frames[t] # <<>>
               /\ wants[t] \in Methods => HasMutex(wants[t])

Typing == TypeOK /\ Places

\* The top of a stack is a frame.
LEMMA TopIsFrame ==
  ASSUME frames \in [Threads -> Seq(Frame)], NEW t \in Threads, frames[t] # <<>>
  PROVE  /\ Len(frames[t]) \in DOMAIN frames[t]
         /\ Len(frames[t]) \in Nat \ {0}
         /\ Top(t) \in Frame
         /\ Top(t).method \in Methods
<1>1. frames[t] \in Seq(Frame)  OBVIOUS
<1>2. Len(frames[t]) \in Nat \ {0} /\ Len(frames[t]) \in DOMAIN frames[t]  BY <1>1
<1>3. frames[t][Len(frames[t])] \in Frame  BY <1>1, <1>2
<1> QED  BY <1>2, <1>3 DEF Top, Frame

\* A pushed frame leaves a stack of frames, and so does a popped one.
LEMMA PushedIsFrames ==
  ASSUME Typing, NEW t \in Threads, NEW m \in Methods, NEW took \in BOOLEAN
  PROVE  Append(frames[t], [method |-> m, took |-> took, held |-> Len(acquired[t]),
                            made |-> FALSE]) \in Seq(Frame) \ {<<>>}
<1>1. [method |-> m, took |-> took, held |-> Len(acquired[t]), made |-> FALSE] \in Frame
  <2>1. Len(acquired[t]) \in Nat  BY DEF Typing, TypeOK
  <2> QED  BY <2>1 DEF Frame
<1>2. frames[t] \in Seq(Frame)  BY DEF Typing, TypeOK
<1> DEFINE f == [method |-> m, took |-> took, held |-> Len(acquired[t]), made |-> FALSE]
<1> HIDE DEF f
<1>3. Append(frames[t], f) \in Seq(Frame) \ {<<>>}  BY <1>1, <1>2 DEF f
<1> QED  BY <1>3 DEF f

LEMMA PoppedIsFrames ==
  ASSUME Typing, NEW t \in Threads, frames[t] # <<>>
  PROVE  /\ Front(frames[t]) \in Seq(Frame)
         /\ Len(Front(frames[t])) = Len(frames[t]) - 1
         /\ \A i \in 1..(Len(frames[t]) - 1) : Front(frames[t])[i] = frames[t][i]
         /\ Len(frames[t]) # 1 => Front(frames[t]) # <<>>
<1>1. frames[t] \in Seq(Frame)  BY DEF Typing, TypeOK
<1>2. Len(frames[t]) \in Nat \ {0}  BY <1>1
<1>3. Front(frames[t]) = SubSeq(frames[t], 1, Len(frames[t]) - 1)  BY DEF Front
<1>4. Front(frames[t]) \in Seq(Frame)  BY <1>1, <1>2, <1>3
<1>5. Len(Front(frames[t])) = Len(frames[t]) - 1  BY <1>1, <1>2, <1>3
<1>6. \A i \in 1..(Len(frames[t]) - 1) : Front(frames[t])[i] = frames[t][i]
  BY <1>1, <1>2, <1>3
<1>7. Len(frames[t]) # 1 => Front(frames[t]) # <<>>
  <2> SUFFICES ASSUME Len(frames[t]) # 1 PROVE Len(Front(frames[t])) # 0
    BY Len(<<>>) = 0
  <2> QED  BY <1>2, <1>5
<1> QED  BY <1>4, <1>5, <1>6, <1>7

\* What a mutex's removal leaves of the list.
LEMMA ListRemoval ==
  ASSUME NEW s \in Seq(Mutexes), NEW i \in DOMAIN s
  PROVE  /\ RemoveAt(s, i) \in Seq(Mutexes)
         /\ Len(RemoveAt(s, i)) = Len(s) - 1
         /\ \A j \in 1..(Len(s) - 1) : RemoveAt(s, i)[j] = IF j < i THEN s[j] ELSE s[j + 1]
<1>1. Len(s) \in Nat /\ i \in 1..Len(s)  OBVIOUS
<1>2. SubSeq(s, 1, i - 1) \in Seq(Mutexes) /\ SubSeq(s, i + 1, Len(s)) \in Seq(Mutexes)
  BY <1>1
<1>3. /\ Len(SubSeq(s, 1, i - 1)) = i - 1
      /\ Len(SubSeq(s, i + 1, Len(s))) = Len(s) - i
  BY <1>1
<1>4. \A j \in 1..(i - 1) : SubSeq(s, 1, i - 1)[j] = s[j]
  BY <1>1
<1>5. \A j \in 1..(Len(s) - i) : SubSeq(s, i + 1, Len(s))[j] = s[i + j]
  BY <1>1
<1> DEFINE a == SubSeq(s, 1, i - 1)
           b == SubSeq(s, i + 1, Len(s))
<1>6. RemoveAt(s, i) = a \o b  BY DEF RemoveAt
<1> HIDE DEF a, b
<1>7. /\ a \in Seq(Mutexes) /\ b \in Seq(Mutexes)
      /\ Len(a) = i - 1 /\ Len(b) = Len(s) - i
      /\ \A j \in 1..(i - 1) : a[j] = s[j]
      /\ \A j \in 1..(Len(s) - i) : b[j] = s[i + j]
  BY <1>2, <1>3, <1>4, <1>5 DEF a, b
<1>8. /\ a \o b \in Seq(Mutexes)
      /\ Len(a \o b) = Len(s) - 1
  BY <1>1, <1>7
<1>9. ASSUME NEW j \in 1..(Len(s) - 1)
      PROVE  (a \o b)[j] = IF j < i THEN s[j] ELSE s[j + 1]
  <2>1. CASE j < i  BY <1>1, <1>7, <2>1
  <2>2. CASE ~(j < i)
    <3>1. j - (i - 1) \in 1..(Len(s) - i)  BY <1>1, <2>2
    <3>2. (a \o b)[j] = b[j - (i - 1)]
      <4>1. Len(a) = i - 1 /\ i - 1 \in Nat /\ j > Len(a) /\ j \in 1..(Len(a) + Len(b))
        BY <1>1, <1>7, <2>2
      <4>2. a \in Seq(Mutexes) /\ b \in Seq(Mutexes)  BY <1>7
      <4>3. (a \o b)[j] = b[j - Len(a)]  BY ONLY <4>1, <4>2
      <4> QED  BY <4>1, <4>3
    <3>3. b[j - (i - 1)] = s[i + (j - (i - 1))]  BY <1>7, <3>1
    <3>4. i + (j - (i - 1)) = j + 1  BY <1>1
    <3> QED  BY <2>2, <3>2, <3>3, <3>4
  <2> QED  BY <2>1, <2>2
<1> QED  BY <1>6, <1>8, <1>9

\* The list with a new head.
LEMMA ListLink ==
  ASSUME NEW s \in Seq(Mutexes), NEW x \in Mutexes
  PROVE  /\ <<x>> \o s \in Seq(Mutexes)
         /\ Len(<<x>> \o s) = Len(s) + 1
         /\ (<<x>> \o s)[1] = x
         /\ \A j \in 1..Len(s) : (<<x>> \o s)[j + 1] = s[j]
OBVIOUS

THEOREM TypingInit == Init => Typing
<1> SUFFICES ASSUME Init PROVE Typing  OBVIOUS
<1>1. kind \in [Methods -> {"plain", "pending", "ignored", "serialized"}]
  BY DEF Init
<1>2. TypeOK
  BY <1>1 DEF Init, TypeOK, Pc, Status
<1> QED  BY <1>2 DEF Init, Typing, Places

\* A step that moves no thread and serializes no method keeps the places; one that
\* moves a thread has to show them for that thread.
LEMMA PlacesSame ==
  ASSUME Places, UNCHANGED <<pc, wants, frames, kind>>
  PROVE  Places'
BY DEF Places, HasMutex

LEMMA PlacesMove ==
  ASSUME Typing, NEW t \in Threads,
         \A u \in Threads \ {t} : pc'[u] = pc[u] /\ wants'[u] = wants[u] /\ frames'[u] = frames[u],
         \A m \in Methods : kind[m] \in {"serialized", "ignored"}
                             => kind'[m] \in {"serialized", "ignored"},
         pc'[t] \notin {"outside", "wait", "woken"} => frames'[t] # <<>>,
         pc'[t] \in {"wait", "woken"} =>
             /\ wants'[t] \in Locks
             /\ wants'[t] \in Mutexes => frames'[t] # <<>>
             /\ wants'[t] \in Methods => kind'[wants'[t]] \in {"serialized", "ignored"}
  PROVE  Places'
<1> SUFFICES ASSUME NEW u \in Threads
             PROVE  /\ pc'[u] \notin {"outside", "wait", "woken"} => frames'[u] # <<>>
                    /\ pc'[u] \in {"wait", "woken"} =>
                           /\ wants'[u] \in Locks
                           /\ wants'[u] \in Mutexes => frames'[u] # <<>>
                           /\ wants'[u] \in Methods =>
                                  kind'[wants'[u]] \in {"serialized", "ignored"}
  BY DEF Places, HasMutex
<1>1. CASE u = t  BY <1>1
<1>2. CASE u # t  BY <1>2 DEF Typing, Places, HasMutex
<1> QED  BY <1>1, <1>2

\* Marking the aborted method serializes none, and undoes none that is.
LEMMA MarkedIsKind ==
  ASSUME Typing, NEW t \in Threads
  PROVE  /\ Marked(t) \in [Methods -> {"plain", "pending", "ignored", "serialized"}]
         /\ \A m \in Methods : kind[m] \in {"serialized", "ignored"} <=>
                                Marked(t)[m] \in {"serialized", "ignored"}
BY DEF Marked, HasMutex, Typing, TypeOK

\* One step of one thread keeps the types: each action, the variables it changes.
LEMMA TypingMutex ==
  ASSUME Typing, NEW t \in Threads, NEW x \in Mutexes, MutexStep(t, x)
  PROVE  Typing'
<1> USE MethodAssumption
<1>1. x \in Locks /\ SyncLevel[x] \in 0..15  BY DEF Locks
<1>2. CASE AcquireRefused(t, x) \/ ReleaseRefused(t, x)
  <2>1. Fails(t, "error") /\ UNCHANGED methodVars /\ frames[t] # <<>>
    BY <1>2 DEF AcquireRefused, ReleaseRefused, Inside, Typing, Places
  <2>2. Places'
    BY <2>1, PlacesMove DEF Fails, Leave, Typing, TypeOK, methodVars
  <2>3. pc' \in [Threads -> Pc] /\ status' \in [Threads -> Status]
    BY <2>1 DEF Fails, Leave, Typing, TypeOK, Pc, Status
  <2> QED  BY <2>1, <2>2, <2>3 DEF Fails, Leave, Typing, TypeOK, lockVars, methodVars, history
<1>3. CASE AcquireAgain(t, x) \/ ReleaseOnce(t, x)
  <2>1. depth' \in [Locks -> Int]
    BY <1>1, <1>3 DEF Typing, TypeOK, AcquireAgain, ReleaseOnce
  <2>2. Places'
    BY <1>3, PlacesSame DEF Typing, AcquireAgain, ReleaseOnce, threadVars, methodVars
  <2> QED  BY <1>3, <2>1, <2>2 DEF Typing, TypeOK, AcquireAgain, ReleaseOnce, threadVars,
     methodVars, history
<1>4. CASE AcquireAtOnce(t, x)
  <2>1. <<x>> \o acquired[t] \in Seq(Mutexes)  BY ListLink DEF Typing, TypeOK
  <2>2. units' \in [Locks -> Nat]
    BY <1>1, <1>4 DEF Typing, TypeOK, AcquireAtOnce, Available
  <2>3. Places'
    BY <1>4, PlacesSame DEF Typing, AcquireAtOnce, Link, methodVars
  <2>4. owner' \in [Locks -> Threads \cup {Nobody}] /\ depth' \in [Locks -> Int]
    BY <1>1, <1>4 DEF Typing, TypeOK, AcquireAtOnce, Link
  <2>5. original' \in [Locks -> 0..15] /\ level' \in [Threads -> 0..15]
    BY <1>1, <1>4 DEF Typing, TypeOK, AcquireAtOnce, Link
  <2>6. acquired' \in [Threads -> Seq(Mutexes)]
    BY <1>4, <2>1 DEF Typing, TypeOK, AcquireAtOnce, Link
  <2> QED  BY <1>4, <2>2, <2>3, <2>4, <2>5, <2>6 DEF Typing, TypeOK, AcquireAtOnce, Link,
     methodVars, history
<1>5. CASE AcquireWaits(t, x)
  BY <1>1, <1>5 DEF Typing, TypeOK, Places, AcquireWaits, WaitOutside, Leave, Inside, lockVars,
     methodVars, history, Pc, HasMutex
<1>6. CASE AcquireDone(t, x)
  <2>1. <<x>> \o acquired[t] \in Seq(Mutexes)  BY ListLink DEF Typing, TypeOK
  <2> QED  BY <1>1, <1>6, <2>1 DEF Typing, TypeOK, Places, AcquireDone, Link, Come, Run,
     methodVars, history, Pc, HasMutex
<1>7. CASE Release(t, x)
  <2>1. PICK i \in DOMAIN acquired[t] :
          /\ level' = [level EXCEPT ![t] = original[acquired[t][1]]]
          /\ Migrate(t, i)
          /\ acquired' = [acquired EXCEPT ![t] = RemoveAt(@, i)]
          /\ units' = [units EXCEPT ![x] = @ + 1]
          /\ owner' = [owner EXCEPT ![x] = Nobody]
          /\ depth' = [depth EXCEPT ![x] = 0]
          /\ skewed' = IF Outer(t, i) THEN skewed \cup {t} ELSE skewed
          /\ UNCHANGED <<interpreter, threadVars, methodVars, damaged>>
    BY <1>7 DEF Release
  <2>2. acquired[t] \in Seq(Mutexes) /\ RemoveAt(acquired[t], i) \in Seq(Mutexes)
    BY <2>1, ListRemoval DEF Typing, TypeOK
  <2>3. acquired[t][1] \in Locks  BY <2>1, <2>2 DEF Locks
  <2>4. level' \in [Threads -> 0..15]  BY <2>1, <2>3 DEF Typing, TypeOK
  <2>5. original' \in [Locks -> 0..15]  
    <3>1. CASE i = 1  BY <2>1, <3>1 DEF Typing, TypeOK, Migrate
    <3>2. CASE i # 1
      <4>1. acquired[t][i] \in Locks /\ acquired[t][i - 1] \in Locks
        <5>1. i \in 1..Len(acquired[t]) /\ Len(acquired[t]) \in Nat  BY <2>2
        <5>2. i - 1 \in 1..Len(acquired[t])  BY <3>2, <5>1
        <5> QED  BY <2>2, <5>1, <5>2 DEF Locks
      <4> QED  BY <2>1, <3>2, <4>1 DEF Typing, TypeOK, Migrate
    <3> QED  BY <3>1, <3>2
  <2>6. acquired' \in [Threads -> Seq(Mutexes)]  BY <2>1, <2>2 DEF Typing, TypeOK
  <2>7. Places'  BY <2>1, PlacesSame DEF Typing, threadVars, methodVars
  <2>8. units' \in [Locks -> Nat] /\ depth' \in [Locks -> Int]
    BY <1>1, <2>1 DEF Typing, TypeOK
  <2>9. owner' \in [Locks -> Threads \cup {Nobody}] /\ skewed' \in SUBSET Threads
    BY <1>1, <2>1 DEF Typing, TypeOK
  <2> QED  BY <2>1, <2>4, <2>5, <2>6, <2>7, <2>8, <2>9 DEF Typing, TypeOK, threadVars, methodVars
<1> QED  BY <1>2, <1>3, <1>4, <1>5, <1>6, <1>7 DEF MutexStep

\* Entering a method: the frame that is pushed, or the failure.
LEMMA TypingPush ==
  ASSUME Typing, NEW t \in Threads, NEW m \in Methods, NEW took \in BOOLEAN,
         Push(t, m, took), level' \in [Threads -> 0..15], units' \in [Locks -> Nat],
         owner' \in [Locks -> Threads \cup {Nobody}], depth' \in [Locks -> Int],
         original' \in [Locks -> 0..15]
  PROVE  Typing'
<1>1. frames' \in [Threads -> Seq(Frame)] /\ frames'[t] # <<>>
  BY PushedIsFrames DEF Typing, TypeOK, Push
<1>2. \A u \in Threads \ {t} : frames'[u] = frames[u]
  BY DEF Typing, TypeOK, Push
<1>3. Places'
  BY <1>1, <1>2, PlacesMove DEF Push, Run, Typing, TypeOK, HasMutex
<1>4. skewed' \in SUBSET Threads /\ count' \in [Methods -> Nat]
  BY DEF Typing, TypeOK, Push
<1> QED  BY <1>1, <1>3, <1>4 DEF Typing, TypeOK, Push, Run, Pc

LEMMA TypingFailure ==
  ASSUME Typing, NEW t \in Threads, EntryFails(t),
         level' \in [Threads -> 0..15], units' \in [Locks -> Nat],
         owner' \in [Locks -> Threads \cup {Nobody}], depth' \in [Locks -> Int],
         original' \in [Locks -> 0..15], count' \in [Methods -> Nat],
         skewed' \in SUBSET Threads, damaged' \in SUBSET Methods, UNCHANGED <<kind, object>>
  PROVE  Typing'
<1>1. Places'
  BY PlacesMove DEF Typing, TypeOK, EntryFails, Leave, Nested, HasMutex
<1>2. pc' \in [Threads -> Pc] /\ status' \in [Threads -> Status]
  BY DEF Typing, TypeOK, EntryFails, Leave, Nested, Pc, Status
<1> QED  BY <1>1, <1>2 DEF Typing, TypeOK, EntryFails, Leave

LEMMA TypingMethod ==
  ASSUME Typing, NEW t \in Threads, NEW m \in Methods, MethodStep(t, m)
  PROVE  Typing'
<1> USE MethodAssumption
<1>1. m \in Locks /\ SyncLevel[m] \in 0..15  BY DEF Locks
<1>2. EntryLevel(t, m) \in [Threads -> 0..15]
  BY <1>1 DEF Typing, TypeOK, EntryLevel
<1>3. CASE MethodRefused(t, m)
  BY <1>3, TypingFailure DEF MethodRefused, Typing, TypeOK, lockVars, methodVars, history
<1>4. ASSUME NoWalkState(t, m)
      PROVE  /\ EntryFails(t) /\ UNCHANGED <<kind, object>> /\ count' \in [Methods -> Nat]
             /\ skewed' \in SUBSET Threads /\ damaged' \in SUBSET Methods
  BY <1>4 DEF NoWalkState, Typing, TypeOK
<1>5. CASE BeginPlain(t, m)
  <2>1. CASE Push(t, m, FALSE) /\ level' = EntryLevel(t, m)
    BY <1>2, <1>5, <2>1, TypingPush DEF BeginPlain, Typing, TypeOK, lockVars
  <2>2. CASE NoWalkState(t, m) /\ UNCHANGED level
    BY <1>4, <1>5, <2>2, TypingFailure DEF BeginPlain, Typing, TypeOK, lockVars
  <2> QED  BY <1>5, <2>1, <2>2 DEF BeginPlain
<1>6. CASE BeginAgain(t, m)
  <2>1. depth' \in [Locks -> Int]  BY <1>1, <1>6 DEF BeginAgain, CountEntry, Typing, TypeOK
  <2>2. CASE Push(t, m, FALSE)
    BY <1>6, <2>1, <2>2, TypingPush DEF BeginAgain, Typing, TypeOK
  <2>3. CASE NoWalkState(t, m)
    BY <1>4, <1>6, <2>1, <2>3, TypingFailure DEF BeginAgain, Typing, TypeOK
  <2> QED  BY <1>6, <2>2, <2>3 DEF BeginAgain
<1>7. CASE BeginWaits(t, m)
  <2>1. HasMutex(m)  BY <1>7 DEF BeginWaits, NeedsUnit
  <2> QED  BY <1>1, <1>7, <2>1 DEF Typing, TypeOK, Places, BeginWaits, WaitOutside, Leave, lockVars,
     methodVars, history, Pc, HasMutex
<1>8. ASSUME NEW left \in Nat, Obtain(t, m, left)
      PROVE  Typing'
  <2>1. /\ owner' \in [Locks -> Threads \cup {Nobody}]
        /\ depth' \in [Locks -> Int]
        /\ original' \in [Locks -> 0..15]
    BY <1>1, <1>8 DEF Obtain, Take, CountEntry, Typing, TypeOK
  <2>2. CASE Push(t, m, TRUE) /\ level' = EntryLevel(t, m) /\ units' = [units EXCEPT ![m] = left]
    <3>1. units' \in [Locks -> Nat]  BY <2>2, <1>8 DEF Typing, TypeOK
    <3> QED  BY <1>2, <2>1, <2>2, <3>1, TypingPush
  <2>3. CASE NoWalkState(t, m) /\ level' = (IF Nested(t) THEN EntryLevel(t, m) ELSE level)
                               /\ units' = [units EXCEPT ![m] = left]
    <3>1. units' \in [Locks -> Nat] /\ level' \in [Threads -> 0..15]
      BY <1>2, <2>3, <1>8 DEF Typing, TypeOK
    <3> QED  BY <1>4, <2>1, <2>3, <3>1, TypingFailure
  <2>4. CASE NoOwnerId(t, m) /\ level' = (IF Nested(t) THEN EntryLevel(t, m) ELSE level)
                             /\ units' = [units EXCEPT ![m] = left + 1]
    <3>1. units' \in [Locks -> Nat] /\ level' \in [Threads -> 0..15]
      <4>1. left + 1 \in Nat  BY <1>8
      <4> QED  BY <1>2, <2>4, <4>1 DEF Typing, TypeOK
    <3>2. /\ EntryFails(t) /\ UNCHANGED <<kind, object>> /\ count' \in [Methods -> Nat]
          /\ skewed' \in SUBSET Threads /\ damaged' \in SUBSET Methods
      BY <2>4 DEF NoOwnerId, Typing, TypeOK, methodVars
    <3> QED  BY <2>1, <3>1, <3>2, TypingFailure
  <2> QED  BY <1>8, <2>2, <2>3, <2>4 DEF Obtain
<1>9. CASE BeginAtOnce(t, m)
  <2>1. units[m] - 1 \in Nat  BY <1>1, <1>9 DEF BeginAtOnce, Available, Typing, TypeOK
  <2> QED  BY <1>8, <1>9, <2>1 DEF BeginAtOnce
<1>10. CASE BeginDone(t, m)
  <2>1. units[m] \in Nat  BY <1>1 DEF Typing, TypeOK
  <2> QED  BY <1>8, <1>10, <2>1 DEF BeginDone
<1> QED  BY <1>3, <1>5, <1>6, <1>7, <1>9, <1>10 DEF MethodStep

THEOREM TypingStep == Typing /\ [Next]_vars => Typing'
<1> USE MethodAssumption
<1> SUFFICES ASSUME Typing, [Next]_vars PROVE Typing'  OBVIOUS
<1>1. CASE UNCHANGED vars
  BY <1>1, PlacesSame DEF Typing, TypeOK, vars, threadVars, lockVars, methodVars, history
<1>2. ASSUME NEW t \in Threads, Sleep(t) \/ WakeUp(t) \/ TimedOut(t) \/ EndLast(t)
      PROVE  Typing'
  <2>1. frames[t] # <<>>
    BY <1>2 DEF Typing, Places, TypeOK, Sleep, WakeUp, TimedOut, EndLast, Ending, Inside, Nested
  <2>2. kind' = kind \/ kind' = Marked(t)
    BY <1>2 DEF Sleep, WakeUp, TimedOut, EndLast, methodVars
  <2>3. /\ kind' \in [Methods -> {"plain", "pending", "ignored", "serialized"}]
        /\ \A m \in Methods : kind[m] \in {"serialized", "ignored"}
                              => kind'[m] \in {"serialized", "ignored"}
    BY <2>2, MarkedIsKind DEF Typing, TypeOK
  <2>4. Places'
    <3>1. /\ \A u \in Threads \ {t} : pc'[u] = pc[u] /\ wants'[u] = wants[u]
          /\ UNCHANGED frames
      BY <1>2 DEF Typing, TypeOK, Sleep, WakeUp, TimedOut, EndLast, Leave, Run
    <3>2. pc'[t] \in {"asleep", "inside", "delete"}
      BY <1>2 DEF Typing, TypeOK, Sleep, WakeUp, TimedOut, EndLast, Leave, Run
    <3> QED  BY <2>1, <2>3, <3>1, <3>2, PlacesMove
  <2>5. pc' \in [Threads -> Pc]
    BY <1>2 DEF Typing, TypeOK, Sleep, WakeUp, TimedOut, EndLast, Leave, Run, Pc
  <2>6. wants' \in [Threads -> Locks \cup {Nobody}]
    BY <1>2 DEF Typing, TypeOK, Sleep, WakeUp, TimedOut, EndLast
  <2>7. /\ interpreter' \in Threads \cup {Nobody}
        /\ UNCHANGED <<status, frames, level, acquired, lockVars, count, object, history>>
    BY <1>2 DEF Sleep, WakeUp, TimedOut, EndLast, Leave, Come, methodVars
  <2> QED  BY <2>3, <2>4, <2>5, <2>6, <2>7 DEF Typing, TypeOK, lockVars, history
<1>3. ASSUME NEW t \in Threads, Woken(t)
      PROVE  Typing'
  <2>1. wants[t] \in Locks  BY <1>3 DEF Typing, Places, Woken
  <2>2. units[wants[t]] - 1 \in Nat  BY <1>3, <2>1 DEF Woken, Available, Typing, TypeOK
  <2>3. units' \in [Locks -> Nat]  BY <1>3, <2>1, <2>2 DEF Woken, Typing, TypeOK
  <2>4. Places'
    BY <1>3, PlacesMove DEF Typing, TypeOK, Places, Woken, methodVars, HasMutex
  <2> QED  BY <1>3, <2>3, <2>4 DEF Typing, TypeOK, Woken, Pc, methodVars, history
<1>4. ASSUME NEW t \in Threads, CreateObject(t)
      PROVE  Typing'
  <2> DEFINE n == Len(frames[t])
             f == [frames[t][n] EXCEPT !.made = TRUE]
  <2>1. frames[t] # <<>> /\ frames[t] \in Seq(Frame)
    BY <1>4 DEF CreateObject, Nested, Typing, TypeOK
  <2>2. n \in DOMAIN frames[t] /\ frames[t][n] \in Frame
    BY <2>1, TopIsFrame DEF Typing, TypeOK, Top
  <2>3. f \in Frame  BY <2>2 DEF Frame
  <2>4. frames' = [frames EXCEPT ![t] = [frames[t] EXCEPT ![n] = f]]
    BY <1>4 DEF CreateObject, Typing, TypeOK
  <2> HIDE DEF f, n
  <2>5. [frames[t] EXCEPT ![n] = f] \in Seq(Frame)
    BY <2>1, <2>2, <2>3
  <2>6. [frames[t] EXCEPT ![n] = f] # <<>>
    BY <2>1, <2>2
  <2>7. frames' \in [Threads -> Seq(Frame)] /\ frames'[t] # <<>>
    BY <2>4, <2>5, <2>6 DEF Typing, TypeOK
  <2>8. Places'
    BY <1>4, <2>4, <2>7, PlacesMove DEF Typing, TypeOK, CreateObject, Inside
  <2>9. object' \in [Methods -> BOOLEAN]
    BY <1>4 DEF CreateObject, Typing, TypeOK
  <2> QED  BY <1>4, <2>7, <2>8, <2>9 DEF Typing, TypeOK, CreateObject, lockVars, history
<1>5. ASSUME NEW t \in Threads, AlreadyExists(t)
      PROVE  Typing'
  <2>1. Places'
    BY <1>5, PlacesMove DEF Typing, TypeOK, AlreadyExists, Fails, Leave, Nested, methodVars
  <2>2. pc' \in [Threads -> Pc] /\ status' \in [Threads -> Status]
    BY <1>5 DEF Typing, TypeOK, AlreadyExists, Fails, Leave, Pc, Status
  <2> QED  BY <1>5, <2>1, <2>2 DEF Typing, TypeOK, AlreadyExists, Fails, Leave, lockVars,
     methodVars, history
<1>6. ASSUME NEW t \in Threads, DeleteObjects(t)
      PROVE  Typing'
  <2>1. Places'
    BY <1>6, PlacesMove DEF Typing, TypeOK, Places, DeleteObjects
  <2>2. object' \in [Methods -> BOOLEAN] /\ pc' \in [Threads -> Pc]
    BY <1>6 DEF DeleteObjects, Typing, TypeOK, Pc
  <2> QED  BY <1>6, <2>1, <2>2 DEF Typing, TypeOK, DeleteObjects, lockVars, history
<1>7. ASSUME NEW t \in Threads, AcpiDsTerminateControlMethod(t)
      PROVE  Typing'
  <2> DEFINE m == Top(t).method
  <2>1. frames[t] # <<>>
    BY <1>7 DEF AcpiDsTerminateControlMethod, Ending, Nested, Typing, Places
  <2>2. m \in Methods /\ m \in Locks
    BY <2>1, TopIsFrame DEF Typing, TypeOK, Locks
  <2> HIDE DEF m
  <2>3. /\ Unlock(t, m)
        /\ count' = [count EXCEPT ![m] = IF @ > 0 THEN @ - 1 ELSE @]
        /\ kind' = [Marked(t) EXCEPT ![m] = IF count'[m] = 0 /\ @ = "pending" THEN "ignored" ELSE @]
        /\ frames' = [frames EXCEPT ![t] = Front(@)]
        /\ IF Len(frames[t]) = 1
           THEN /\ Leave(t, "outside")
                /\ acquired' = [acquired EXCEPT ![t] = <<>>]
                /\ status' = [status EXCEPT ![t] = "ok"]
           ELSE /\ UNCHANGED <<acquired, status>>
                /\ IF status[t] # "ok" THEN Leave(t, "report") ELSE interpreter' = t /\ Run(t)
        /\ UNCHANGED <<wants, object, damaged>>
    BY <1>7 DEF AcpiDsTerminateControlMethod, m
  <2>4. /\ units' \in [Locks -> Nat] /\ owner' \in [Locks -> Threads \cup {Nobody}]
        /\ depth' \in [Locks -> Int] /\ original' \in [Locks -> 0..15]
        /\ level' \in [Threads -> 0..15] /\ skewed' \in SUBSET Threads
    <3>1. Unlock(t, m)  BY <2>3
    <3>2. units' \in [Locks -> Nat]  BY <3>1 DEF Unlock, Typing, TypeOK
    <3>3. owner' \in [Locks -> Threads \cup {Nobody}]  BY <3>1 DEF Unlock, Typing, TypeOK
    <3>4. depth' \in [Locks -> Int]  BY <3>1 DEF Unlock, Typing, TypeOK
    <3>5. original' \in [Locks -> 0..15]  BY <3>1 DEF Unlock, Typing, TypeOK
    <3>6. level' \in [Threads -> 0..15]
      <4>1. level \in [Threads -> 0..15] /\ original[m] \in 0..15 /\ 0 \in 0..15
        <5>1. level \in [Threads -> 0..15] /\ original \in [Locks -> 0..15]
          BY DEF Typing, TypeOK
        <5> QED  BY ONLY <2>2, <5>1
      <4>2. PICK l \in 0..15 : level' = [level EXCEPT ![t] = l]
        <5>1. CASE Len(frames[t]) = 1
          <6>1. level' = [level EXCEPT ![t] = 0]  BY <3>1, <5>1 DEF Unlock
          <6> QED  BY <4>1, <6>1
        <5>2. CASE Len(frames[t]) # 1
          <6>1. \/ level' = [level EXCEPT ![t] = original[m]]
                \/ level' = [level EXCEPT ![t] = level[t]]
            BY <3>1, <5>2 DEF Unlock
          <6> QED  BY <4>1, <6>1
        <5> QED  BY <5>1, <5>2
      <4> QED  BY <4>1, <4>2
    <3>7. skewed' \in SUBSET Threads  BY <3>1 DEF Unlock, Typing, TypeOK
    <3> QED  BY <3>2, <3>3, <3>4, <3>5, <3>6, <3>7
  <2>5. count' \in [Methods -> Nat]  BY <2>2, <2>3 DEF Typing, TypeOK
  <2>6. kind' \in [Methods -> {"plain", "pending", "ignored", "serialized"}]
    BY <2>2, <2>3, MarkedIsKind
  <2>7. /\ frames' \in [Threads -> Seq(Frame)]
        /\ Len(frames[t]) # 1 => frames'[t] # <<>>
        /\ \A u \in Threads \ {t} : frames'[u] = frames[u]
    BY <2>1, <2>3, PoppedIsFrames DEF Typing, TypeOK
  <2>8. acquired' \in [Threads -> Seq(Mutexes)] /\ status' \in [Threads -> Status]
    <3>1. CASE Len(frames[t]) = 1
      <4>1. acquired' = [acquired EXCEPT ![t] = <<>>] /\ status' = [status EXCEPT ![t] = "ok"]
        BY <2>3, <3>1
      <4>2. acquired \in [Threads -> Seq(Mutexes)] /\ status \in [Threads -> Status]
        BY DEF Typing, TypeOK
      <4>3. <<>> \in Seq(Mutexes)  OBVIOUS
      <4> QED  BY <4>1, <4>2, <4>3 DEF Status
    <3>2. CASE Len(frames[t]) # 1
      <4>1. UNCHANGED <<acquired, status>>  BY <2>3, <3>2
      <4> QED  BY <4>1 DEF Typing, TypeOK
    <3> QED  BY <3>1, <3>2
  <2>9. /\ pc' \in [Threads -> Pc] /\ interpreter' \in Threads \cup {Nobody}
        /\ pc'[t] \in {"outside", "report", "inside"}
        /\ Len(frames[t]) = 1 => pc'[t] = "outside"
        /\ \A u \in Threads \ {t} : pc'[u] = pc[u]
    BY <2>3 DEF Leave, Run, Typing, TypeOK, Pc
  <2>10. \A n \in Methods : kind[n] \in {"serialized", "ignored"}
                            => kind'[n] \in {"serialized", "ignored"}
    BY <2>2, <2>3, MarkedIsKind
  <2>11. Places'
    BY <2>3, <2>7, <2>9, <2>10, PlacesMove
  <2> QED  BY <2>3, <2>4, <2>5, <2>6, <2>7, <2>8, <2>9, <2>11 DEF Typing, TypeOK
<1> QED  BY <1>1, <1>2, <1>3, <1>4, <1>5, <1>6, <1>7, TypingMutex, TypingMethod DEF Next

\* The variables keep their types, whatever threads, methods and failures there are:
\* a thread is only in a place of AcpiPsParseAml when it has a method to return from.
THEOREM TypeCorrect == Spec => []TypeOK
<1>1. Typing => TypeOK  BY DEF Typing
<1> QED  BY <1>1, TypingInit, TypingStep, PTL DEF Spec

-----------------------------------------------------------------------------
(* Exclusion                                                               *)

\* The thread has the unit of the lock, and is on its way back into the interpreter.
Coming(t, l) == pc[t] = "woken" /\ wants[t] = l

\* The unit of a lock is free, with its owner, or with one thread that comes.
UnitInOnePlace(l) ==
    /\ units[l] \in {0, 1}
    /\ units[l] = 1 => owner[l] = Nobody
    /\ \A t \in Threads : Coming(t, l) =>
           /\ units[l] = 0
           /\ owner[l] = Nobody
           /\ \A u \in Threads : Coming(u, l) => t = u

Counted(m) == /\ IsFiniteSet(Entries(m))
              /\ count[m] = Cardinality(Entries(m))
              /\ count[m] <= MethodLimit

\* A method's mutex is its only executor's, and as deep as that thread is in the method.
\* Before a method has a mutex, nobody has it.
MutexFollows(m) ==
    /\ owner[m] = Nobody => depth[m] = 0
    /\ ~HasMutex(m) => owner[m] = Nobody
    /\ \A t \in Threads : HasMutex(m) =>
           /\ owner[m] = t => depth[m] = Cardinality(FramesOf(t, m))
           /\ Executes(t, m) => owner[m] = t

Listed(t) ==
    /\ \A x \in Mutexes : owner[x] = t <=> Contains(acquired[t], x)
    /\ \A i, j \in DOMAIN acquired[t] : acquired[t][i] = acquired[t][j] => i = j

Inv == /\ Typing
       /\ \A l \in Locks \ damaged : UnitInOnePlace(l)
       /\ \A m \in Methods \ damaged : Counted(m) /\ MutexFollows(m)
       /\ \A t \in Threads : Listed(t)

\* The frames of a method on a stack are finitely many.
LEMMA FramesFinite ==
  ASSUME Typing, NEW t \in Threads, NEW m \in Methods
  PROVE  /\ IsFiniteSet(FramesOf(t, m))
         /\ FramesOf(t, m) \subseteq 1..Len(frames[t])
         /\ Cardinality(FramesOf(t, m)) \in Nat
<1>1. frames[t] \in Seq(Frame)  BY DEF Typing, TypeOK
<1>2. Len(frames[t]) \in Nat /\ DOMAIN frames[t] = 1..Len(frames[t])  BY <1>1
<1>3. FramesOf(t, m) \subseteq 1..Len(frames[t])  BY <1>2 DEF FramesOf
<1>4. IsFiniteSet(1..Len(frames[t]))
  <2>1. 1 \in Int /\ Len(frames[t]) \in Int  BY <1>2
  <2> QED  BY <2>1, FS_Interval
<1>5. IsFiniteSet(FramesOf(t, m))  BY <1>3, <1>4, FS_Subset
<1> QED  BY <1>3, <1>5, FS_CardinalityType

\* What a stack that grows or shrinks by one frame makes of the frames of each method.
LEMMA FrameAppended ==
  ASSUME Typing, NEW t \in Threads, NEW m \in Methods, NEW took \in BOOLEAN,
         Push(t, m, took), NEW n \in Nat, n = Len(frames[t]) + 1
  PROVE  /\ DOMAIN frames[t] = 1..(n - 1) /\ DOMAIN frames'[t] = 1..n
         /\ frames'[t][n].method = m
         /\ \A i \in 1..(n - 1) : frames'[t][i] = frames[t][i]
         /\ \A u \in Threads \ {t} : frames'[u] = frames[u]
<1> DEFINE f == [method |-> m, took |-> took, held |-> Len(acquired[t]), made |-> FALSE]
           s == frames[t]
<1>1. frames \in [Threads -> Seq(Frame)]  BY DEF Typing, TypeOK
<1>2. frames' = [frames EXCEPT ![t] = Append(frames[t], f)] /\ f.method = m
  BY DEF Push
<1>3. s \in Seq(Frame) /\ frames'[t] = Append(s, f)  BY <1>1, <1>2
<1>4. \A u \in Threads \ {t} : frames'[u] = frames[u]  BY <1>1, <1>2
<1> HIDE DEF f
<1>5. /\ DOMAIN s = 1..Len(s) /\ Len(s) \in Nat
      /\ DOMAIN Append(s, f) = 1..(Len(s) + 1)
      /\ Append(s, f)[Len(s) + 1] = f
      /\ \A i \in 1..Len(s) : Append(s, f)[i] = s[i]
  <2> HIDE DEF s
  <2> QED  BY ONLY <1>3
<1>6. n - 1 = Len(s)  BY <1>5
<1> QED  BY <1>2, <1>3, <1>4, <1>5, <1>6

LEMMA PushedElsewhere ==
  ASSUME Typing, NEW t \in Threads, NEW m \in Methods, NEW took \in BOOLEAN,
         Push(t, m, took)
  PROVE  /\ \A k \in Methods \ {m} : /\ Entries(k)' = Entries(k)
                                    /\ \A u \in Threads : FramesOf(u, k)' = FramesOf(u, k)
         /\ \A u \in Threads \ {t} : FramesOf(u, m)' = FramesOf(u, m)
<1>1. PICK n \in Nat : n = Len(frames[t]) + 1  BY DEF Typing, TypeOK
<1>2. /\ DOMAIN frames[t] = 1..(n - 1) /\ DOMAIN frames'[t] = 1..n
      /\ frames'[t][n].method = m
      /\ \A i \in 1..(n - 1) : frames'[t][i] = frames[t][i]
      /\ \A u \in Threads \ {t} : frames'[u] = frames[u]
  BY <1>1, FrameAppended
<1>3. \A u \in Threads \ {t}, k \in Methods : FramesOf(u, k)' = FramesOf(u, k)
  BY <1>2 DEF FramesOf
<1>4. \A k \in Methods \ {m} : FramesOf(t, k)' = FramesOf(t, k)
  BY <1>2 DEF FramesOf
<1>5. \A k \in Methods \ {m} : Entries(k)' = Entries(k)
  BY <1>3, <1>4 DEF Entries
<1> QED  BY <1>3, <1>4, <1>5

LEMMA FramesPushed ==
  ASSUME Typing, NEW t \in Threads, NEW m \in Methods, NEW took \in BOOLEAN,
         Push(t, m, took), NEW n \in Nat, n = Len(frames[t]) + 1
  PROVE  /\ n \notin FramesOf(t, m)
         /\ FramesOf(t, m)' = FramesOf(t, m) \cup {n}
         /\ <<t, n>> \notin Entries(m)
         /\ Entries(m)' = Entries(m) \cup {<<t, n>>}
<1>1. /\ DOMAIN frames[t] = 1..(n - 1) /\ DOMAIN frames'[t] = 1..n
      /\ frames'[t][n].method = m
      /\ \A i \in 1..(n - 1) : frames'[t][i] = frames[t][i]
  BY FrameAppended
<1>2. n \in 1..n
  <2>1. Len(frames[t]) \in Nat  BY DEF Typing, TypeOK
  <2> QED  BY <2>1
<1>3. n \notin FramesOf(t, m)  BY <1>1 DEF FramesOf
<1>4. FramesOf(t, m)' = FramesOf(t, m) \cup {n}
  BY <1>1, <1>2 DEF FramesOf
<1>5. <<t, n>> \notin Entries(m)  BY <1>3 DEF Entries
<1>6. \A u \in Threads \ {t} : FramesOf(u, m)' = FramesOf(u, m)  BY PushedElsewhere
<1>7. Entries(m)' = Entries(m) \cup {<<t, n>>}
  BY <1>4, <1>6 DEF Entries
<1> QED  BY <1>3, <1>4, <1>5, <1>7

LEMMA FrameDropped ==
  ASSUME Typing, NEW t \in Threads, frames[t] # <<>>,
         NEW n \in Nat, n = Len(frames[t]), frames' = [frames EXCEPT ![t] = Front(@)]
  PROVE  /\ DOMAIN frames[t] = 1..n /\ n \in 1..n /\ DOMAIN frames'[t] = 1..(n - 1)
         /\ \A i \in 1..(n - 1) : frames'[t][i] = frames[t][i]
         /\ \A u \in Threads \ {t} : frames'[u] = frames[u]
<1>1. frames \in [Threads -> Seq(Frame)]  BY DEF Typing, TypeOK
<1>2. n \in Nat \ {0} /\ DOMAIN frames[t] = 1..n
  BY <1>1, TopIsFrame
<1>3. frames'[t] = Front(frames[t])  BY <1>1
<1>4. /\ Front(frames[t]) \in Seq(Frame) /\ Len(Front(frames[t])) = n - 1
      /\ \A i \in 1..(n - 1) : Front(frames[t])[i] = frames[t][i]
  BY <1>1, PoppedIsFrames
<1>5. DOMAIN Front(frames[t]) = 1..(n - 1)  BY <1>4
<1>6. \A u \in Threads \ {t} : frames'[u] = frames[u]  BY <1>1
<1> QED  BY <1>2, <1>3, <1>4, <1>5, <1>6

LEMMA PoppedElsewhere ==
  ASSUME Typing, NEW t \in Threads, NEW m \in Methods, frames[t] # <<>>,
         NEW n \in Nat, n = Len(frames[t]), m = Top(t).method,
         frames' = [frames EXCEPT ![t] = Front(@)]
  PROVE  /\ \A u \in Threads, k \in Methods :
                u # t \/ k # m => FramesOf(u, k)' = FramesOf(u, k)
         /\ \A k \in Methods \ {m} : Entries(k)' = Entries(k)
<1>1. /\ DOMAIN frames[t] = 1..n /\ n \in 1..n /\ DOMAIN frames'[t] = 1..(n - 1)
      /\ \A i \in 1..(n - 1) : frames'[t][i] = frames[t][i]
      /\ \A u \in Threads \ {t} : frames'[u] = frames[u]
  BY FrameDropped
<1>2. frames[t][n].method = m  BY DEF Top
<1>3. ASSUME NEW u \in Threads, NEW k \in Methods, u # t \/ k # m
      PROVE  FramesOf(u, k)' = FramesOf(u, k)
  <2>1. CASE u # t  BY <1>1, <2>1 DEF FramesOf
  <2>2. CASE u = t
    <3>1. k # m  BY <1>3, <2>2
    <3> QED  BY <1>1, <1>2, <2>2, <3>1 DEF FramesOf
  <2> QED  BY <2>1, <2>2
<1>4. \A k \in Methods \ {m} : Entries(k)' = Entries(k)
  BY <1>3 DEF Entries
<1> QED  BY <1>3, <1>4

LEMMA FramesPopped ==
  ASSUME Typing, NEW t \in Threads, NEW m \in Methods, frames[t] # <<>>,
         NEW n \in Nat, n = Len(frames[t]), m = Top(t).method,
         frames' = [frames EXCEPT ![t] = Front(@)]
  PROVE  /\ n \in FramesOf(t, m)
         /\ FramesOf(t, m)' = FramesOf(t, m) \ {n}
         /\ <<t, n>> \in Entries(m)
         /\ Entries(m)' = Entries(m) \ {<<t, n>>}
<1>1. /\ DOMAIN frames[t] = 1..n /\ n \in 1..n /\ DOMAIN frames'[t] = 1..(n - 1)
      /\ \A i \in 1..(n - 1) : frames'[t][i] = frames[t][i]
  BY FrameDropped
<1>2. frames[t][n].method = m  BY DEF Top
<1>3. n \in FramesOf(t, m)  BY <1>1, <1>2 DEF FramesOf
<1>4. FramesOf(t, m)' = FramesOf(t, m) \ {n}
  <2>1. \A i : i \in 1..(n - 1) <=> i \in 1..n /\ i # n  OBVIOUS
  <2>2. \A i : i \in FramesOf(t, m)' <=> i \in 1..(n - 1) /\ frames[t][i].method = m
    BY <1>1 DEF FramesOf
  <2>3. \A i : i \in FramesOf(t, m) <=> i \in 1..n /\ frames[t][i].method = m
    BY <1>1 DEF FramesOf
  <2> QED  BY <2>1, <2>2, <2>3
<1>5. <<t, n>> \in Entries(m)  BY <1>3 DEF Entries
<1>6. Entries(m)' = Entries(m) \ {<<t, n>>}
  <2>1. \A u \in Threads : {u} \X FramesOf(u, m)' = ({u} \X FramesOf(u, m)) \ {<<t, n>>}
    <3>1. {t} \X FramesOf(t, m)' = ({t} \X FramesOf(t, m)) \ {<<t, n>>}  BY <1>4
    <3>2. \A u \in Threads \ {t} : FramesOf(u, m)' = FramesOf(u, m)  BY PoppedElsewhere
    <3>3. \A u \in Threads \ {t} : <<t, n>> \notin {u} \X FramesOf(u, m)  OBVIOUS
    <3> QED  BY <3>1, <3>2, <3>3
  <2>2. \A e : e \in Entries(m)' <=> \E u \in Threads : e \in {u} \X FramesOf(u, m)'
    BY DEF Entries
  <2>3. \A e : e \in Entries(m) <=> \E u \in Threads : e \in {u} \X FramesOf(u, m)
    BY DEF Entries
  <2> QED  BY <2>1, <2>2, <2>3
<1> QED  BY <1>3, <1>4, <1>5, <1>6

\* A step has to show the invariant for the locks whose units, owners or comers it
\* changes, U, for the methods whose frames or mutexes it does, M, and for the lists.
LEMMA Focus ==
  ASSUME Inv, Typing', damaged \subseteq damaged', NEW U, NEW M,
         \A l \in Locks \ U : l \notin damaged' =>
             /\ units'[l] = units[l] /\ owner'[l] = owner[l]
             /\ \A t \in Threads : Coming(t, l)' => Coming(t, l),
         \A m \in Methods \ M : m \notin damaged' =>
             /\ owner'[m] = owner[m] /\ depth'[m] = depth[m] /\ count'[m] = count[m]
             /\ HasMutex(m)' <=> HasMutex(m)
             /\ Entries(m)' = Entries(m)
             /\ \A t \in Threads : FramesOf(t, m)' = FramesOf(t, m),
         \A l \in U \cap Locks : l \notin damaged' => UnitInOnePlace(l)',
         \A m \in M \cap Methods : m \notin damaged' => Counted(m)' /\ MutexFollows(m)',
         \A t \in Threads : Listed(t)'
  PROVE  Inv'
<1>1. ASSUME NEW l \in Locks, l \notin damaged', l \notin U
      PROVE  UnitInOnePlace(l)'
  <2>1. l \notin damaged /\ UnitInOnePlace(l)  BY <1>1 DEF Inv
  <2> QED  BY <1>1, <2>1 DEF UnitInOnePlace
<1>2. ASSUME NEW m \in Methods, m \notin damaged', m \notin M
      PROVE  Counted(m)' /\ MutexFollows(m)'
  <2>1. Counted(m) /\ MutexFollows(m)  BY <1>2 DEF Inv
  <2>2. Counted(m)'  BY <1>2, <2>1 DEF Counted
  <2>3. MutexFollows(m)'  BY <1>2, <2>1 DEF MutexFollows, Executes
  <2> QED  BY <2>2, <2>3
<1> QED  BY <1>1, <1>2 DEF Inv

LEMMA ListedSame ==
  ASSUME Inv, UNCHANGED acquired, \A x \in Mutexes : owner'[x] = owner[x]
  PROVE  \A t \in Threads : Listed(t)'
BY DEF Inv, Listed, Contains

\* The frames of each method follow from the stacks; CreateObject changes only what
\* a frame has made.
LEMMA FramesSame ==
  ASSUME UNCHANGED frames
  PROVE  \A m \in Methods : /\ Entries(m)' = Entries(m)
                            /\ \A t \in Threads : FramesOf(t, m)' = FramesOf(t, m)
BY DEF Entries, FramesOf

LEMMA FramesMade ==
  ASSUME Typing, NEW t \in Threads, CreateObject(t)
  PROVE  \A m \in Methods : /\ Entries(m)' = Entries(m)
                            /\ \A u \in Threads : FramesOf(u, m)' = FramesOf(u, m)
<1>1. frames \in [Threads -> Seq(Frame)] /\ frames[t] # <<>>
  BY DEF Typing, TypeOK, CreateObject, Nested
<1> DEFINE n == Len(frames[t])
           f == [frames[t][n] EXCEPT !.made = TRUE]
<1>2. n \in DOMAIN frames[t] /\ frames[t][n] \in Frame
  BY <1>1, TopIsFrame DEF Top
<1>3. frames' = [frames EXCEPT ![t] = [frames[t] EXCEPT ![n] = f]]
  BY <1>1 DEF CreateObject
<1>4. f.method = frames[t][n].method  BY <1>2 DEF Frame
<1> HIDE DEF n, f
<1>5. frames'[t] = [frames[t] EXCEPT ![n] = f]  BY <1>1, <1>3
<1>6. \A u \in Threads \ {t} : frames'[u] = frames[u]  BY <1>1, <1>3
<1>7. DOMAIN frames'[t] = DOMAIN frames[t]  BY <1>5
<1>8. \A i \in DOMAIN frames[t] : frames'[t][i].method = frames[t][i].method
  BY <1>2, <1>4, <1>5
<1>9. \A m \in Methods, u \in Threads : FramesOf(u, m)' = FramesOf(u, m)
  BY <1>6, <1>7, <1>8 DEF FramesOf
<1> QED  BY <1>9 DEF Entries

\* A step of the interpreter that gives no unit, and takes none.
LEMMA QuietKeeps ==
  ASSUME Inv, Typing', UNCHANGED <<units, owner, acquired, count, damaged>>,
         \A m \in Methods : /\ Entries(m)' = Entries(m)
                            /\ \A t \in Threads : FramesOf(t, m)' = FramesOf(t, m)
                            /\ HasMutex(m)' <=> HasMutex(m)
                            /\ depth'[m] = depth[m],
         \A t \in Threads : pc'[t] = "woken" => pc[t] = "woken" /\ wants'[t] = wants[t]
  PROVE  Inv'
<1>1. \A t \in Threads : Listed(t)'  BY ListedSame
<1>2. \A t \in Threads, l \in Locks : Coming(t, l)' => Coming(t, l)  BY DEF Coming
<1>3. \A l \in Locks \ {} : l \notin damaged' =>
         /\ units'[l] = units[l] /\ owner'[l] = owner[l]
         /\ \A t \in Threads : Coming(t, l)' => Coming(t, l)
  BY <1>2
<1>4. \A m \in Methods \ {} : m \notin damaged' =>
             /\ owner'[m] = owner[m] /\ depth'[m] = depth[m] /\ count'[m] = count[m]
             /\ HasMutex(m)' <=> HasMutex(m)
             /\ Entries(m)' = Entries(m)
             /\ \A t \in Threads : FramesOf(t, m)' = FramesOf(t, m)
  OBVIOUS
<1> QED  BY <1>1, <1>3, <1>4, Focus

\* The steps that leave every unit where it is.
LEMMA QuietSteps ==
  ASSUME Inv, Typing', NEW t \in Threads,
         \/ Sleep(t) \/ WakeUp(t) \/ TimedOut(t) \/ AlreadyExists(t) \/ EndLast(t)
         \/ CreateObject(t) \/ DeleteObjects(t)
  PROVE  Inv'
<1>1. Typing /\ pc \in [Threads -> Pc] /\ wants \in [Threads -> Locks \cup {Nobody}]
  BY DEF Inv, Typing, TypeOK
<1>2. \A u \in Threads : pc'[u] = "woken" => pc[u] = "woken" /\ wants'[u] = wants[u]
  BY <1>1 DEF Sleep, WakeUp, TimedOut, AlreadyExists, Fails, EndLast, CreateObject,
     DeleteObjects, Leave, Run
<1>3. UNCHANGED <<units, owner, depth, acquired, count, damaged>>
  BY DEF Sleep, WakeUp, TimedOut, AlreadyExists, Fails, EndLast, CreateObject,
     DeleteObjects, lockVars, methodVars, history
<1>4. \A m \in Methods : HasMutex(m)' <=> HasMutex(m)
  <2>1. kind' = kind \/ kind' = Marked(t)
    BY DEF Sleep, WakeUp, TimedOut, AlreadyExists, EndLast, CreateObject, DeleteObjects,
       methodVars
  <2> QED  BY <1>1, <2>1, MarkedIsKind DEF HasMutex
<1>5. \A m \in Methods : /\ Entries(m)' = Entries(m)
                         /\ \A u \in Threads : FramesOf(u, m)' = FramesOf(u, m)
  <2>1. CASE CreateObject(t)  BY <1>1, <2>1, FramesMade
  <2>2. CASE ~CreateObject(t)
    <3>1. UNCHANGED frames
      BY <2>2 DEF Sleep, WakeUp, TimedOut, AlreadyExists, Fails, EndLast, DeleteObjects
    <3> QED  BY <3>1, FramesSame
  <2> QED  BY <2>1, <2>2
<1> QED  BY <1>2, <1>3, <1>4, <1>5, QuietKeeps

LEMMA QuietMutexSteps ==
  ASSUME Inv, Typing', NEW t \in Threads, NEW x \in Mutexes,
         \/ AcquireRefused(t, x) \/ AcquireAgain(t, x) \/ AcquireWaits(t, x)
         \/ ReleaseRefused(t, x) \/ ReleaseOnce(t, x)
  PROVE  Inv'
<1>1. pc \in [Threads -> Pc] /\ wants \in [Threads -> Locks \cup {Nobody}]
      /\ depth \in [Locks -> Int]
  BY DEF Inv, Typing, TypeOK
<1>2. \A u \in Threads : pc'[u] = "woken" => pc[u] = "woken" /\ wants'[u] = wants[u]
  BY <1>1 DEF AcquireRefused, AcquireAgain, AcquireWaits, WaitOutside, ReleaseRefused,
     ReleaseOnce, Fails, Leave, Inside, threadVars
<1>3. UNCHANGED <<units, owner, acquired, count, kind, frames, damaged>>
  BY DEF AcquireRefused, AcquireAgain, AcquireWaits, WaitOutside, ReleaseRefused,
     ReleaseOnce, Fails, lockVars, methodVars, history, threadVars
<1>4. \A m \in Methods : depth'[m] = depth[m]
  <2>1. depth' = depth \/ \E d \in Int : depth' = [depth EXCEPT ![x] = d]
    <3>1. depth[x] + 1 \in Int /\ depth[x] - 1 \in Int  BY <1>1 DEF Locks
    <3> QED  BY <3>1 DEF AcquireRefused, AcquireAgain, AcquireWaits, WaitOutside,
       ReleaseRefused, ReleaseOnce, Fails, lockVars
  <2>2. \A m \in Methods : m # x  BY MethodAssumption
  <2> QED  BY <1>1, <2>1, <2>2 DEF Locks
<1>5. \A m \in Methods : /\ Entries(m)' = Entries(m)
                         /\ \A u \in Threads : FramesOf(u, m)' = FramesOf(u, m)
                         /\ HasMutex(m)' <=> HasMutex(m)
  BY <1>3, FramesSame DEF HasMutex
<1> QED  BY <1>2, <1>3, <1>4, <1>5, QuietKeeps

LEMMA QuietMethodSteps ==
  ASSUME Inv, Typing', NEW t \in Threads, NEW m \in Methods,
         MethodRefused(t, m) \/ BeginWaits(t, m)
  PROVE  Inv'
<1>1. pc \in [Threads -> Pc] /\ wants \in [Threads -> Locks \cup {Nobody}]
  BY DEF Inv, Typing, TypeOK
<1>2. \A u \in Threads : pc'[u] = "woken" => pc[u] = "woken" /\ wants'[u] = wants[u]
  BY <1>1 DEF MethodRefused, BeginWaits, WaitOutside, EntryFails, Leave
<1>3. UNCHANGED <<units, owner, depth, acquired, count, kind, frames, damaged>>
  BY DEF MethodRefused, BeginWaits, WaitOutside, EntryFails, lockVars, methodVars, history
<1>4. \A k \in Methods : /\ Entries(k)' = Entries(k)
                         /\ \A u \in Threads : FramesOf(u, k)' = FramesOf(u, k)
                         /\ HasMutex(k)' <=> HasMutex(k)
  BY <1>3, FramesSame DEF HasMutex
<1> QED  BY <1>2, <1>3, <1>4, QuietKeeps

\* A step that moves units only shows the invariant for those, and for the lists.
LEMMA UnitsMove ==
  ASSUME Inv, Typing', NEW k \in Locks, UNCHANGED <<frames, kind, count, damaged>>,
         \A m \in Methods : depth'[m] = depth[m] /\ owner'[m] = owner[m],
         \A i \in Locks \ {k} :
             /\ units'[i] = units[i] /\ owner'[i] = owner[i]
             /\ \A u \in Threads : Coming(u, i)' => Coming(u, i),
         k \notin damaged => UnitInOnePlace(k)',
         \A u \in Threads : Listed(u)'
  PROVE  Inv'
<1>1. \A i \in Locks \ {k} : i \notin damaged' =>
         /\ units'[i] = units[i] /\ owner'[i] = owner[i]
         /\ \A u \in Threads : Coming(u, i)' => Coming(u, i)
  OBVIOUS
<1>2. \A i \in {k} \cap Locks : i \notin damaged' => UnitInOnePlace(i)'
  OBVIOUS
<1>3. \A m \in Methods \ {} : m \notin damaged' =>
             /\ owner'[m] = owner[m] /\ depth'[m] = depth[m] /\ count'[m] = count[m]
             /\ HasMutex(m)' <=> HasMutex(m)
             /\ Entries(m)' = Entries(m)
             /\ \A u \in Threads : FramesOf(u, m)' = FramesOf(u, m)
  BY FramesSame DEF HasMutex
<1>4. \A m \in {} \cap Methods : m \notin damaged' => Counted(m)' /\ MutexFollows(m)'
  OBVIOUS
<1> QED  BY <1>1, <1>2, <1>3, <1>4, Focus

\* A thread that waited takes the unit.
LEMMA WokenKeeps ==
  ASSUME Inv, Typing', NEW t \in Threads, Woken(t)
  PROVE  Inv'
<1>1. /\ pc \in [Threads -> Pc] /\ wants \in [Threads -> Locks \cup {Nobody}]
      /\ units \in [Locks -> Nat]
  BY DEF Inv, Typing, TypeOK
<1>2. PICK k \in Locks : k = wants[t]  BY DEF Inv, Typing, Places, Woken
<1>3. \A u \in Threads, i \in Locks :
         Coming(u, i)' <=> Coming(u, i) \/ (u = t /\ i = k)
  BY <1>1, <1>2 DEF Coming, Woken
<1>4. \A i \in Locks \ {k} :
         /\ units'[i] = units[i] /\ owner'[i] = owner[i]
         /\ \A u \in Threads : Coming(u, i)' => Coming(u, i)
  BY <1>1, <1>2, <1>3 DEF Woken
<1>5. ASSUME k \notin damaged
      PROVE  UnitInOnePlace(k)'
  <2>1. UnitInOnePlace(k) /\ units[k] = 1 /\ units'[k] = 0 /\ owner'[k] = owner[k]
    BY <1>1, <1>2, <1>5 DEF Inv, UnitInOnePlace, Woken, Available
  <2>2. \A u \in Threads : Coming(u, k)' => u = t
    BY <1>3, <2>1 DEF UnitInOnePlace
  <2> QED  BY <2>1, <2>2 DEF UnitInOnePlace
<1>6. \A u \in Threads : Listed(u)'  BY ListedSame DEF Woken
<1>7. UNCHANGED <<frames, kind, count, damaged, owner, depth>>
  BY DEF Woken, methodVars, history
<1> QED  BY <1>4, <1>5, <1>6, <1>7, UnitsMove

\* A thread takes an AML mutex: it is not in any list, and becomes the head of one.
LEMMA LinkedIsListed ==
  ASSUME Inv, NEW t \in Threads, NEW x \in Mutexes, Link(t, x), owner[x] = Nobody
  PROVE  \A u \in Threads : Listed(u)'
<1>1. /\ acquired \in [Threads -> Seq(Mutexes)]
      /\ owner \in [Locks -> Threads \cup {Nobody}] /\ x \in Locks /\ Mutexes \subseteq Locks
  BY DEF Inv, Typing, TypeOK, Locks
<1>2. \A u \in Threads : u # Nobody /\ ~Contains(acquired[u], x)
  BY MethodAssumption DEF Inv, Listed
<1>3. /\ acquired'[t] = <<x>> \o acquired[t]
      /\ \A u \in Threads \ {t} : acquired'[u] = acquired[u]
      /\ owner'[x] = t /\ \A y \in Mutexes \ {x} : owner'[y] = owner[y]
  BY <1>1 DEF Link
<1>4. ASSUME NEW u \in Threads \ {t}
      PROVE  Listed(u)'
  <2>1. Listed(u)  BY DEF Inv
  <2> QED  BY <1>2, <1>3, <2>1 DEF Listed, Contains
<1>5. Listed(t)'
  <2> DEFINE s == acquired[t]
             r == <<x>> \o s
  <2>1. Listed(t) /\ s \in Seq(Mutexes) /\ ~Contains(s, x)  BY <1>1, <1>2 DEF Inv
  <2>2. /\ Len(r) = Len(s) + 1 /\ r[1] = x /\ r \in Seq(Mutexes)
        /\ \A j \in 1..Len(s) : r[j + 1] = s[j]
    BY <2>1, ListLink
  <2>3. /\ Len(s) \in Nat /\ DOMAIN s = 1..Len(s)
        /\ Len(r) \in Nat /\ DOMAIN r = 1..Len(r)
    BY <2>1, <2>2
  <2>4. \A y \in Mutexes : owner[y] = t <=> \E j \in 1..Len(s) : s[j] = y
    BY <2>1 DEF Listed, Contains
  <2>5. \A i, j \in 1..Len(s) : s[i] = s[j] => i = j
    BY <2>1, <2>3 DEF Listed
  <2>6. \A j \in 1..Len(s) : s[j] # x
    BY <2>1 DEF Contains
  <2> HIDE DEF s, r
  <2>7. \A j \in 2..Len(r) : j - 1 \in 1..Len(s) /\ r[j] = s[j - 1]
    <3> SUFFICES ASSUME NEW j \in 2..Len(r) PROVE j - 1 \in 1..Len(s) /\ r[j] = s[j - 1]
      OBVIOUS
    <3>1. j - 1 \in 1..Len(s) /\ (j - 1) + 1 = j  BY <2>2, <2>3
    <3> QED  BY <2>2, <3>1
  <2>8. \A j \in 1..Len(r) : j = 1 \/ j \in 2..Len(r)  BY <2>3
  <2>9. \A i, j \in 1..Len(r) : r[i] = r[j] => i = j
    <3> SUFFICES ASSUME NEW i \in 1..Len(r), NEW j \in 1..Len(r), r[i] = r[j] PROVE i = j
      OBVIOUS
    <3>1. CASE i = 1 \/ j = 1  BY <2>2, <2>6, <2>7, <2>8, <3>1
    <3>2. CASE i # 1 /\ j # 1
      <4>1. /\ i - 1 \in 1..Len(s) /\ j - 1 \in 1..Len(s) /\ s[i - 1] = s[j - 1]
        BY <2>7, <2>8, <3>2
      <4>2. i - 1 = j - 1  BY <2>5, <4>1
      <4> QED  BY <2>3, <4>2
    <3> QED  BY <3>1, <3>2
  <2>10. ASSUME NEW y \in Mutexes
         PROVE  owner'[y] = t <=> \E j \in 1..Len(r) : r[j] = y
    <3>1. CASE y = x
      <4>1. 1 \in 1..Len(r)  BY <2>2, <2>3
      <4> QED  BY <1>3, <2>2, <3>1, <4>1
    <3>2. CASE y # x
      <4>1. owner'[y] = owner[y]  BY <1>3, <3>2
      <4>2. ASSUME NEW j \in 1..Len(s), s[j] = y PROVE \E i \in 1..Len(r) : r[i] = y
        <5>1. j + 1 \in 1..Len(r) /\ r[j + 1] = y  BY <2>2, <2>3, <4>2
        <5> QED  BY <5>1
      <4>3. ASSUME NEW j \in 1..Len(r), r[j] = y PROVE \E i \in 1..Len(s) : s[i] = y
        BY <2>2, <2>7, <2>8, <3>2, <4>3
      <4> QED  BY <2>4, <4>1, <4>2, <4>3
    <3> QED  BY <3>1, <3>2
  <2>11. acquired'[t] = r  BY <1>3 DEF r, s
  <2> QED  BY <2>3, <2>9, <2>10, <2>11 DEF Listed, Contains
<1> QED  BY <1>4, <1>5

\* The unit is the thread's, who comes with it or takes it at once, and nobody owns
\* the mutex: now the thread does.
LEMMA AcquireKeeps ==
  ASSUME Inv, Typing', NEW t \in Threads, NEW x \in Mutexes,
         AcquireAtOnce(t, x) \/ AcquireDone(t, x)
  PROVE  Inv'
<1>1. /\ pc \in [Threads -> Pc] /\ wants \in [Threads -> Locks \cup {Nobody}]
      /\ units \in [Locks -> Nat] /\ owner \in [Locks -> Threads \cup {Nobody}]
      /\ depth \in [Locks -> Int]
  BY DEF Inv, Typing, TypeOK
<1>2. x \in Locks /\ x \notin damaged /\ x \notin Methods /\ Methods \subseteq Locks
      /\ Nobody \notin Threads
  BY MethodAssumption DEF Inv, Typing, TypeOK, Locks
<1>3. Link(t, x) /\ UNCHANGED <<frames, kind, count, damaged>>
  BY DEF AcquireAtOnce, AcquireDone, Link, methodVars, history
<1>4. UnitInOnePlace(x)  BY <1>2 DEF Inv
<1>5. /\ owner[x] = Nobody
      /\ units'[x] = 0
      /\ \A u \in Threads : ~Coming(u, x)'
  <2>1. CASE AcquireAtOnce(t, x)
    <3>1. units[x] = 1 /\ units'[x] = 0
      BY <1>1, <1>2, <1>4, <2>1 DEF AcquireAtOnce, Available, UnitInOnePlace
    <3>2. UNCHANGED <<pc, wants>>  BY <2>1 DEF AcquireAtOnce
    <3> QED  BY <1>4, <3>1, <3>2 DEF UnitInOnePlace, Coming
  <2>2. CASE AcquireDone(t, x)
    <3>1. Coming(t, x) /\ UNCHANGED units  BY <2>2 DEF AcquireDone, Coming
    <3>2. pc'[t] = "inside" /\ \A u \in Threads \ {t} : pc'[u] = pc[u] /\ wants'[u] = wants[u]
      BY <1>1, <2>2 DEF AcquireDone, Run
    <3> QED  BY <1>4, <3>1, <3>2 DEF UnitInOnePlace, Coming
  <2> QED  BY <2>1, <2>2
<1>6. UnitInOnePlace(x)'
  BY <1>5 DEF UnitInOnePlace
<1>7. \A i \in Locks \ {x} :
         /\ units'[i] = units[i] /\ owner'[i] = owner[i]
         /\ \A u \in Threads : Coming(u, i)' => Coming(u, i)
  <2>1. /\ \A i \in Locks \ {x} : units'[i] = units[i] /\ owner'[i] = owner[i]
        /\ \A u \in Threads : pc'[u] = "woken" => pc[u] = "woken" /\ wants'[u] = wants[u]
    BY <1>1, <1>2, <1>3 DEF AcquireAtOnce, AcquireDone, Link, Run
  <2> QED  BY <2>1 DEF Coming
<1>8. \A m \in Methods : depth'[m] = depth[m] /\ owner'[m] = owner[m]
  BY <1>1, <1>2, <1>3 DEF Link
<1>9. \A u \in Threads : Listed(u)'  BY <1>3, <1>5, LinkedIsListed
<1> QED  BY <1>2, <1>3, <1>6, <1>7, <1>8, <1>9, UnitsMove

\* A released mutex leaves the list, wherever it was in it.
LEMMA UnlinkedIsListed ==
  ASSUME Inv, NEW t \in Threads, NEW i \in DOMAIN acquired[t],
         acquired' = [acquired EXCEPT ![t] = RemoveAt(@, i)],
         owner' = [owner EXCEPT ![acquired[t][i]] = Nobody]
  PROVE  owner[acquired[t][i]] = t /\ \A u \in Threads : Listed(u)'
<1> DEFINE s == acquired[t]
           r == RemoveAt(s, i)
           x == s[i]
<1>1. /\ acquired \in [Threads -> Seq(Mutexes)]
      /\ owner \in [Locks -> Threads \cup {Nobody}] /\ Mutexes \subseteq Locks
      /\ Nobody \notin Threads
  BY MethodAssumption DEF Inv, Typing, TypeOK, Locks
<1>2. /\ s \in Seq(Mutexes) /\ Len(s) \in Nat /\ DOMAIN s = 1..Len(s)
      /\ i \in 1..Len(s) /\ x \in Mutexes
  BY <1>1
<1>3. /\ r \in Seq(Mutexes) /\ Len(r) = Len(s) - 1
      /\ \A j \in 1..(Len(s) - 1) : r[j] = IF j < i THEN s[j] ELSE s[j + 1]
  BY <1>2, ListRemoval
<1>4. \A y \in Mutexes : owner[y] = t <=> \E j \in 1..Len(s) : s[j] = y
  BY DEF Inv, Listed, Contains
<1>5. \A j, k \in 1..Len(s) : s[j] = s[k] => j = k
  BY <1>2 DEF Inv, Listed
<1>6. /\ acquired'[t] = r
      /\ \A u \in Threads \ {t} : acquired'[u] = acquired[u]
  BY <1>1
<1>7. owner'[x] = Nobody /\ \A y \in Mutexes \ {x} : owner'[y] = owner[y]
  BY <1>1, <1>2
<1> HIDE DEF s, r, x
<1>8. owner[x] = t  BY <1>2, <1>4 DEF x
<1>9. ASSUME NEW u \in Threads \ {t}
      PROVE  Listed(u)'
  <2>1. Listed(u) /\ ~Contains(acquired[u], x)  BY <1>2, <1>8 DEF Inv, Listed
  <2> QED  BY <1>1, <1>6, <1>7, <2>1 DEF Listed, Contains
<1>10. \A j \in 1..Len(r) : /\ j \in 1..Len(s) /\ j + 1 \in 1..Len(s)
                           /\ r[j] = IF j < i THEN s[j] ELSE s[j + 1]
  BY <1>2, <1>3
<1>11. \A j, k \in 1..Len(r) : r[j] = r[k] => j = k
  <2> SUFFICES ASSUME NEW j \in 1..Len(r), NEW k \in 1..Len(r), r[j] = r[k] PROVE j = k
    OBVIOUS
  <2>1. (IF j < i THEN j ELSE j + 1) = (IF k < i THEN k ELSE k + 1)
    BY <1>2, <1>5, <1>10
  <2> QED  BY <1>2, <2>1
<1>12. ASSUME NEW y \in Mutexes
       PROVE  owner'[y] = t <=> \E j \in 1..Len(r) : r[j] = y
  <2>1. CASE y = x
    <3>1. ASSUME NEW j \in 1..Len(r), r[j] = x PROVE FALSE
      <4>1. (IF j < i THEN j ELSE j + 1) \in 1..Len(s) /\ (IF j < i THEN j ELSE j + 1) # i
        BY <1>2, <1>10
      <4> QED  BY <1>2, <1>5, <1>10, <3>1, <4>1 DEF x
    <3> QED  BY <1>1, <1>7, <2>1, <3>1
  <2>2. CASE y # x
    <3>1. owner'[y] = owner[y]  BY <1>7, <2>2
    <3>2. ASSUME NEW j \in 1..Len(r), r[j] = y PROVE \E k \in 1..Len(s) : s[k] = y
      BY <1>10, <3>2
    <3>3. ASSUME NEW k \in 1..Len(s), s[k] = y PROVE \E j \in 1..Len(r) : r[j] = y
      <4>1. k # i  BY <2>2, <3>3 DEF x
      <4>2. CASE k < i
        <5>1. k \in 1..Len(r)  BY <1>2, <1>3, <4>2
        <5>2. r[k] = y  BY <1>10, <3>3, <4>2, <5>1
        <5> QED  BY <5>1, <5>2
      <4>3. CASE k > i
        <5>1. k - 1 \in 1..Len(r) /\ ~(k - 1 < i) /\ (k - 1) + 1 = k
          BY <1>2, <1>3, <4>3
        <5>2. r[k - 1] = y  BY <1>10, <3>3, <5>1
        <5> QED  BY <5>1, <5>2
      <4> QED  BY <1>2, <4>1, <4>2, <4>3
    <3> QED  BY <1>4, <3>1, <3>2, <3>3
  <2> QED  BY <2>1, <2>2
<1>13. Listed(t)'
  <2>1. DOMAIN r = 1..Len(r)  BY <1>3
  <2> QED  BY <1>6, <1>11, <1>12, <2>1 DEF Listed, Contains
<1> QED  BY <1>8, <1>9, <1>13 DEF x, s

LEMMA ReleaseKeeps ==
  ASSUME Inv, Typing', NEW t \in Threads, NEW x \in Mutexes, Release(t, x)
  PROVE  Inv'
<1>1. /\ units \in [Locks -> Nat] /\ owner \in [Locks -> Threads \cup {Nobody}]
      /\ depth \in [Locks -> Int] /\ Nobody \notin Threads
      /\ x \in Locks /\ x \notin damaged /\ x \notin Methods /\ Methods \subseteq Locks
  BY MethodAssumption DEF Inv, Typing, TypeOK, Locks
<1>2. PICK i \in DOMAIN acquired[t] :
        /\ acquired[t][i] = x
        /\ acquired' = [acquired EXCEPT ![t] = RemoveAt(@, i)]
        /\ units' = [units EXCEPT ![x] = @ + 1]
        /\ owner' = [owner EXCEPT ![x] = Nobody]
        /\ depth' = [depth EXCEPT ![x] = 0]
        /\ UNCHANGED <<pc, wants, frames, kind, count, damaged>>
  BY DEF Release, threadVars, methodVars
<1>3. owner[x] = t /\ \A u \in Threads : Listed(u)'  BY <1>2, UnlinkedIsListed
<1>4. UnitInOnePlace(x)'
  <2>1. UnitInOnePlace(x)  BY <1>1 DEF Inv
  <2>2. units'[x] = 1 /\ owner'[x] = Nobody  BY <1>1, <1>2, <1>3, <2>1 DEF UnitInOnePlace
  <2>3. \A u \in Threads : ~Coming(u, x)'
    BY <1>1, <1>2, <1>3, <2>1 DEF UnitInOnePlace, Coming
  <2> QED  BY <2>2, <2>3 DEF UnitInOnePlace
<1>5. \A l \in Locks \ {x} :
         /\ units'[l] = units[l] /\ owner'[l] = owner[l]
         /\ \A u \in Threads : Coming(u, l)' => Coming(u, l)
  BY <1>1, <1>2 DEF Coming
<1>6. \A m \in Methods : depth'[m] = depth[m] /\ owner'[m] = owner[m]
  BY <1>1, <1>2
<1> QED  BY <1>1, <1>2, <1>3, <1>4, <1>5, <1>6, UnitsMove

\* An entry that fails half way leaves its method damaged, and the others alone.
LEMMA FailureKeeps ==
  ASSUME Inv, Typing', NEW t \in Threads, NEW m \in Methods, EntryFails(t),
         damaged' = damaged \cup {m}, UNCHANGED kind,
         \A l \in Locks \ {m} : units'[l] = units[l] /\ owner'[l] = owner[l] /\ depth'[l] = depth[l],
         \A k \in Methods \ {m} : count'[k] = count[k]
  PROVE  Inv'
<1>1. pc \in [Threads -> Pc] /\ wants \in [Threads -> Locks \cup {Nobody}]
  BY DEF Inv, Typing, TypeOK
<1>2. \A u \in Threads : pc'[u] = "woken" => pc[u] = "woken" /\ wants'[u] = wants[u]
  BY <1>1 DEF EntryFails, Leave
<1>3. Methods \subseteq Locks /\ Mutexes \subseteq Locks /\ m \notin Mutexes
  BY MethodAssumption DEF Locks
<1>4. UNCHANGED <<frames, acquired>>  BY DEF EntryFails
<1>5. \A u \in Threads : Listed(u)'  BY <1>3, <1>4, ListedSame
<1>6. \A l \in Locks \ {m} : l \notin damaged' =>
         /\ units'[l] = units[l] /\ owner'[l] = owner[l]
         /\ \A u \in Threads : Coming(u, l)' => Coming(u, l)
  BY <1>2 DEF Coming
<1>7. \A k \in Methods \ {m} : k \notin damaged' =>
             /\ owner'[k] = owner[k] /\ depth'[k] = depth[k] /\ count'[k] = count[k]
             /\ HasMutex(k)' <=> HasMutex(k)
             /\ Entries(k)' = Entries(k)
             /\ \A u \in Threads : FramesOf(u, k)' = FramesOf(u, k)
  BY <1>3, <1>4, FramesSame DEF HasMutex
<1>8. \A l \in {m} \cap Locks : l \notin damaged' => UnitInOnePlace(l)'
  OBVIOUS
<1>9. \A k \in {m} \cap Methods : k \notin damaged' => Counted(k)' /\ MutexFollows(k)'
  OBVIOUS
<1>10. damaged \subseteq damaged'  OBVIOUS
<1> QED  BY <1>5, <1>6, <1>7, <1>8, <1>9, <1>10, Focus

\* An entry that succeeds is counted, and below the limit.
LEMMA PushIsCounted ==
  ASSUME Inv, NEW t \in Threads, NEW m \in Methods, NEW took \in BOOLEAN,
         Push(t, m, took), Counted(m), count[m] # MethodLimit
  PROVE  Counted(m)'
<1>1. count \in [Methods -> Nat] /\ MethodLimit \in Nat
  BY MethodAssumption DEF Inv, Typing, TypeOK
<1> DEFINE e == <<t, Len(frames[t]) + 1>>
<1>2. Entries(m)' = Entries(m) \cup {e} /\ e \notin Entries(m)
  <2>1. Typing  BY DEF Inv
  <2>2. PICK n \in Nat : n = Len(frames[t]) + 1  BY DEF Inv, Typing, TypeOK
  <2>3. Entries(m)' = Entries(m) \cup {<<t, n>>} /\ <<t, n>> \notin Entries(m)
    BY <2>1, <2>2, FramesPushed
  <2> QED  BY <2>2, <2>3
<1>3. IsFiniteSet(Entries(m)) /\ Cardinality(Entries(m)) = count[m]  BY DEF Counted
<1> HIDE DEF e
<1>4. /\ IsFiniteSet(Entries(m) \cup {e})
      /\ Cardinality(Entries(m) \cup {e}) = Cardinality(Entries(m)) + 1
  BY <1>2, <1>3, FS_AddElement
<1>5. count'[m] = count[m] + 1  BY <1>1 DEF Push
<1>6. count[m] + 1 <= MethodLimit  BY <1>1 DEF Counted
<1> QED  BY <1>2, <1>3, <1>4, <1>5, <1>6 DEF Counted

\* An entry shows where the unit of its method is, and that the mutex follows it.
LEMMA PushKeeps ==
  ASSUME Inv, Typing', NEW t \in Threads, NEW m \in Methods, NEW took \in BOOLEAN,
         Push(t, m, took), m \notin damaged => count[m] # MethodLimit,
         \A l \in Locks \ {m} : units'[l] = units[l] /\ owner'[l] = owner[l] /\ depth'[l] = depth[l],
         m \notin damaged => UnitInOnePlace(m)',
         m \notin damaged => MutexFollows(m)'
  PROVE  Inv'
<1>1. /\ pc \in [Threads -> Pc] /\ wants \in [Threads -> Locks \cup {Nobody}]
      /\ count \in [Methods -> Nat]
  BY DEF Inv, Typing, TypeOK
<1>2. \A u \in Threads : pc'[u] = "woken" => pc[u] = "woken" /\ wants'[u] = wants[u]
  BY <1>1 DEF Push, Run
<1>3. Methods \subseteq Locks /\ Mutexes \subseteq Locks /\ m \notin Mutexes
  BY MethodAssumption DEF Locks
<1>4. UNCHANGED <<acquired, kind, damaged>> /\ \A k \in Methods \ {m} : count'[k] = count[k]
  BY <1>1 DEF Push
<1>5. \A u \in Threads : Listed(u)'  BY <1>3, <1>4, ListedSame
<1>6. \A l \in Locks \ {m} : l \notin damaged' =>
         /\ units'[l] = units[l] /\ owner'[l] = owner[l]
         /\ \A u \in Threads : Coming(u, l)' => Coming(u, l)
  BY <1>2 DEF Coming
<1>7. \A k \in Methods \ {m} : k \notin damaged' =>
             /\ owner'[k] = owner[k] /\ depth'[k] = depth[k] /\ count'[k] = count[k]
             /\ HasMutex(k)' <=> HasMutex(k)
             /\ Entries(k)' = Entries(k)
             /\ \A u \in Threads : FramesOf(u, k)' = FramesOf(u, k)
  <2>1. \A k \in Methods \ {m} : /\ Entries(k)' = Entries(k)
                                 /\ \A u \in Threads : FramesOf(u, k)' = FramesOf(u, k)
    <3>1. Typing  BY DEF Inv
    <3> QED  BY <3>1, PushedElsewhere
  <2> QED  BY <1>3, <1>4, <2>1 DEF HasMutex
<1>8. \A l \in {m} \cap Locks : l \notin damaged' => UnitInOnePlace(l)'
  BY <1>4
<1>9. \A k \in {m} \cap Methods : k \notin damaged' => Counted(k)' /\ MutexFollows(k)'
  <2>1. ASSUME m \notin damaged PROVE Counted(m)'
    <3>1. Counted(m)  BY <2>1 DEF Inv
    <3> QED  BY <2>1, <3>1, PushIsCounted
  <2> QED  BY <1>4, <2>1
<1>10. damaged \subseteq damaged'  BY <1>4
<1> QED  BY <1>5, <1>6, <1>7, <1>8, <1>9, <1>10, Focus

LEMMA BeginPlainKeeps ==
  ASSUME Inv, Typing', NEW t \in Threads, NEW m \in Methods, BeginPlain(t, m)
  PROVE  Inv'
<1>1. UNCHANGED <<units, owner, depth>> /\ ~HasMutex(m) /\ count[m] # MethodLimit
  BY DEF BeginPlain, lockVars, Admitted, Full
<1>2. m \in Locks  BY DEF Locks
<1>3. CASE Push(t, m, FALSE)
  <2>1. \A u \in Threads : Coming(u, m)' => Coming(u, m)
    <3>1. pc \in [Threads -> Pc] /\ wants \in [Threads -> Locks \cup {Nobody}]
      BY DEF Inv, Typing, TypeOK
    <3> QED  BY <1>3, <3>1 DEF Push, Run, Coming
  <2>2. m \notin damaged => UnitInOnePlace(m)'
    BY <1>1, <1>2, <2>1 DEF Inv, UnitInOnePlace
  <2>3. m \notin damaged => MutexFollows(m)'
    <3>1. ~HasMutex(m)'  BY <1>1, <1>3 DEF Push, HasMutex
    <3> QED  BY <1>1, <3>1 DEF Inv, MutexFollows
  <2>4. \A l \in Locks \ {m} : units'[l] = units[l] /\ owner'[l] = owner[l] /\ depth'[l] = depth[l]
    BY <1>1
  <2>5. FALSE \in BOOLEAN  OBVIOUS
  <2> QED  BY <1>1, <1>3, <2>2, <2>3, <2>4, <2>5, PushKeeps
<1>4. CASE NoWalkState(t, m)
  <2>1. \A k \in Methods \ {m} : count'[k] = count[k]
    BY <1>4 DEF NoWalkState, Inv, Typing, TypeOK
  <2>2. EntryFails(t) /\ damaged' = damaged \cup {m} /\ UNCHANGED kind
    BY <1>4 DEF NoWalkState
  <2>3. \A l \in Locks \ {m} : units'[l] = units[l] /\ owner'[l] = owner[l] /\ depth'[l] = depth[l]
    BY <1>1
  <2> QED  BY <2>1, <2>2, <2>3, FailureKeeps
<1> QED  BY <1>3, <1>4 DEF BeginPlain

LEMMA BeginAgainKeeps ==
  ASSUME Inv, Typing', NEW t \in Threads, NEW m \in Methods, BeginAgain(t, m)
  PROVE  Inv'
<1>1. /\ UNCHANGED <<units, owner>> /\ HasMutex(m) /\ owner[m] = t /\ count[m] # MethodLimit
      /\ depth' = [depth EXCEPT ![m] = depth[m] + 1]
  BY DEF BeginAgain, CountEntry, Admitted, Full
<1>2. m \in Locks /\ Nobody \notin Threads  BY MethodAssumption DEF Locks
<1>3. depth \in [Locks -> Int]  BY DEF Inv, Typing, TypeOK
<1>4. \A l \in Locks \ {m} : units'[l] = units[l] /\ owner'[l] = owner[l] /\ depth'[l] = depth[l]
  BY <1>1, <1>3
<1>5. CASE Push(t, m, FALSE)
  <2>1. \A u \in Threads : Coming(u, m)' => Coming(u, m)
    <3>1. pc \in [Threads -> Pc] /\ wants \in [Threads -> Locks \cup {Nobody}]
      BY DEF Inv, Typing, TypeOK
    <3> QED  BY <1>5, <3>1 DEF Push, Run, Coming
  <2>2. m \notin damaged => UnitInOnePlace(m)'
    BY <1>1, <1>2, <2>1 DEF Inv, UnitInOnePlace
  <2>3. ASSUME m \notin damaged
        PROVE  MutexFollows(m)'
    <3> PICK n \in Nat : n = Len(frames[t]) + 1  BY DEF Inv, Typing, TypeOK
    <3>1. /\ n \notin FramesOf(t, m)
          /\ FramesOf(t, m)' = FramesOf(t, m) \cup {n}
          /\ \A u \in Threads \ {t} : FramesOf(u, m)' = FramesOf(u, m)
      <4>1. Typing /\ FALSE \in BOOLEAN  BY DEF Inv
      <4> QED  BY <1>5, <4>1, FramesPushed, PushedElsewhere
    <3>2. MutexFollows(m)  BY <2>3 DEF Inv
    <3>3. depth[m] = Cardinality(FramesOf(t, m)) /\ IsFiniteSet(FramesOf(t, m))
      BY <1>1, <3>2, FramesFinite DEF Inv, MutexFollows
    <3>4. Cardinality(FramesOf(t, m)') = Cardinality(FramesOf(t, m)) + 1
      BY <3>1, <3>3, FS_AddElement
    <3>5. depth'[m] = depth[m] + 1 /\ owner'[m] = t  BY <1>1, <1>2, <1>3
    <3>6. \A u \in Threads \ {t} : ~Executes(u, m)
      BY <1>1, <3>2 DEF MutexFollows
    <3>7. \A u \in Threads \ {t} : ~Executes(u, m)'
      BY <3>1, <3>6 DEF Executes
    <3>8. HasMutex(m)'  BY <1>1, <1>5 DEF Push, HasMutex
    <3> QED  BY <1>2, <3>3, <3>4, <3>5, <3>7, <3>8 DEF MutexFollows
  <2>4. FALSE \in BOOLEAN  OBVIOUS
  <2> QED  BY <1>1, <1>4, <1>5, <2>2, <2>3, <2>4, PushKeeps
<1>6. CASE NoWalkState(t, m)
  <2>1. \A k \in Methods \ {m} : count'[k] = count[k]
    BY <1>6 DEF NoWalkState, Inv, Typing, TypeOK
  <2>2. EntryFails(t) /\ damaged' = damaged \cup {m} /\ UNCHANGED kind
    BY <1>6 DEF NoWalkState
  <2> QED  BY <1>4, <2>1, <2>2, FailureKeeps
<1> QED  BY <1>5, <1>6 DEF BeginAgain

\* The unit of the method's mutex is the thread's: nobody is in the method.
LEMMA ObtainKeeps ==
  ASSUME Inv, Typing', NEW t \in Threads, NEW m \in Methods, NEW left \in Nat,
         HasMutex(m), Obtain(t, m, left),
         m \notin damaged =>
             /\ left = 0 /\ owner[m] = Nobody /\ count[m] # MethodLimit
             /\ \A u \in Threads : Coming(u, m) => u = t
  PROVE  Inv'
<1>1. m \in Locks /\ Nobody \notin Threads  BY MethodAssumption DEF Locks
<1>2. /\ units \in [Locks -> Nat] /\ owner \in [Locks -> Threads \cup {Nobody}]
      /\ depth \in [Locks -> Int] /\ count \in [Methods -> Nat]
  BY DEF Inv, Typing, TypeOK
<1>3. owner'[m] = t /\ depth'[m] = depth[m] + 1
  BY <1>1, <1>2 DEF Obtain, Take, CountEntry
<1>4. \A l \in Locks \ {m} : units'[l] = units[l] /\ owner'[l] = owner[l] /\ depth'[l] = depth[l]
  BY <1>2 DEF Obtain, Take, CountEntry
<1>5. CASE Push(t, m, TRUE) /\ units' = [units EXCEPT ![m] = left]
  <2>1. ASSUME m \notin damaged
        PROVE  UnitInOnePlace(m)'
    <3>1. units'[m] = 0  BY <1>1, <1>2, <1>5, <2>1
    <3>2. \A u \in Threads : ~Coming(u, m)'
      <4>1. pc \in [Threads -> Pc] /\ wants \in [Threads -> Locks \cup {Nobody}]
        BY DEF Inv, Typing, TypeOK
      <4>2. pc'[t] = "inside" /\ \A u \in Threads \ {t} : pc'[u] = pc[u] /\ wants'[u] = wants[u]
        BY <1>5, <4>1 DEF Push, Run
      <4> QED  BY <2>1, <4>2 DEF Coming
    <3> QED  BY <3>1, <3>2 DEF UnitInOnePlace
  <2>2. ASSUME m \notin damaged
        PROVE  MutexFollows(m)'
    <3> PICK n \in Nat : n = Len(frames[t]) + 1  BY DEF Inv, Typing, TypeOK
    <3>1. /\ FramesOf(t, m)' = FramesOf(t, m) \cup {n}
          /\ \A u \in Threads \ {t} : FramesOf(u, m)' = FramesOf(u, m)
      <4>1. Typing /\ TRUE \in BOOLEAN  BY DEF Inv
      <4> QED  BY <1>5, <4>1, FramesPushed, PushedElsewhere
    <3>2. MutexFollows(m) /\ owner[m] = Nobody  BY <2>2 DEF Inv
    <3>3. depth[m] = 0 /\ \A u \in Threads : FramesOf(u, m) = {}
      BY <1>1, <3>2 DEF MutexFollows, Executes
    <3>4. /\ FramesOf(t, m)' = {} \cup {n}
          /\ \A u \in Threads \ {t} : FramesOf(u, m)' = {}
      BY <3>1, <3>3
    <3>5. Cardinality({} \cup {n}) = 1
      <4>1. IsFiniteSet({}) /\ Cardinality({}) = 0 /\ n \notin {}  BY FS_EmptySet
      <4> QED  BY FS_Singleton
    <3>6. depth'[m] = Cardinality(FramesOf(t, m)')  BY <1>3, <3>3, <3>4, <3>5
    <3>7. \A u \in Threads \ {t} : ~Executes(u, m)'  BY <3>4 DEF Executes
    <3>8. HasMutex(m)'  BY <1>5 DEF Push, HasMutex
    <3> QED  BY <1>1, <1>3, <3>6, <3>7, <3>8 DEF MutexFollows
  <2>3. TRUE \in BOOLEAN  OBVIOUS
  <2> QED  BY <1>4, <1>5, <2>1, <2>2, <2>3, PushKeeps
<1>6. CASE NoWalkState(t, m) \/ NoOwnerId(t, m)
  <2>1. \A k \in Methods \ {m} : count'[k] = count[k]
    BY <1>2, <1>6 DEF NoWalkState, NoOwnerId, methodVars
  <2>2. EntryFails(t) /\ damaged' = damaged \cup {m} /\ UNCHANGED kind
    BY <1>6 DEF NoWalkState, NoOwnerId, methodVars
  <2> QED  BY <1>4, <2>1, <2>2, FailureKeeps
<1> QED  BY <1>5, <1>6 DEF Obtain

LEMMA BeginKeeps ==
  ASSUME Inv, Typing', NEW t \in Threads, NEW m \in Methods,
         BeginAtOnce(t, m) \/ BeginDone(t, m)
  PROVE  Inv'
<1>1. m \in Locks /\ Nobody \notin Threads  BY MethodAssumption DEF Locks
<1>2. /\ units \in [Locks -> Nat] /\ MethodLimit \in Nat \ {0}
      /\ pc \in [Threads -> Pc]
  BY MethodAssumption DEF Inv, Typing, TypeOK
<1>3. CASE BeginAtOnce(t, m)
  <2>1. /\ HasMutex(m) /\ count[m] # MethodLimit /\ Obtain(t, m, units[m] - 1)
        /\ units[m] > 0
    BY <1>3 DEF BeginAtOnce, NeedsUnit, Admitted, Full, Available
  <2>2. units[m] - 1 \in Nat  BY <1>1, <1>2, <2>1
  <2>3. m \notin damaged =>
             /\ units[m] - 1 = 0 /\ owner[m] = Nobody
             /\ \A u \in Threads : Coming(u, m) => u = t
    <3> SUFFICES ASSUME m \notin damaged
                 PROVE  /\ units[m] - 1 = 0 /\ owner[m] = Nobody
                        /\ \A u \in Threads : Coming(u, m) => u = t
      OBVIOUS
    <3>1. UnitInOnePlace(m)  BY <1>1 DEF Inv
    <3>2. units[m] = 1 /\ owner[m] = Nobody  BY <2>1, <3>1 DEF UnitInOnePlace
    <3> QED  BY <3>1, <3>2 DEF UnitInOnePlace
  <2> QED  BY <2>1, <2>2, <2>3, ObtainKeeps
<1>4. CASE BeginDone(t, m)
  <2>1. Obtain(t, m, units[m]) /\ Coming(t, m)  BY <1>4 DEF BeginDone, Coming
  <2>2. HasMutex(m)  BY <2>1 DEF Inv, Typing, Places, Coming
  <2>3. m \notin damaged =>
             /\ units[m] = 0 /\ owner[m] = Nobody /\ count[m] # MethodLimit
             /\ \A u \in Threads : Coming(u, m) => u = t
    <3> SUFFICES ASSUME m \notin damaged
                 PROVE  /\ units[m] = 0 /\ owner[m] = Nobody /\ count[m] # MethodLimit
                        /\ \A u \in Threads : Coming(u, m) => u = t
      OBVIOUS
    <3>1. UnitInOnePlace(m) /\ Counted(m) /\ MutexFollows(m)  BY <1>1 DEF Inv
    <3>2. units[m] = 0 /\ owner[m] = Nobody /\ \A u \in Threads : Coming(u, m) => u = t
      BY <2>1, <3>1 DEF UnitInOnePlace
    <3>3. \A u \in Threads : FramesOf(u, m) = {}
      BY <1>1, <2>2, <3>1, <3>2 DEF MutexFollows, Executes
    <3>4. Entries(m) = {}  BY <3>3 DEF Entries
    <3>5. count[m] = 0  BY <3>1, <3>4, FS_EmptySet DEF Counted
    <3> QED  BY <1>2, <3>2, <3>5
  <2>4. units[m] \in Nat  BY <1>1, <1>2
  <2> QED  BY <2>1, <2>2, <2>3, <2>4, ObtainKeeps
<1> QED  BY <1>3, <1>4

\* Unlock, in terms of the mutexes it takes from the list and of the one of the method.
LEMMA UnlockedMutexes ==
  ASSUME Inv, NEW t \in Threads, NEW all,
         all = IF Len(frames[t]) = 1 THEN ToSet(acquired[t]) ELSE {}
  PROVE  all \subseteq Mutexes /\ \A x \in all : owner[x] = t
<1>1. CASE all = {}  BY <1>1
<1>2. CASE all = ToSet(acquired[t])
  <2>1. acquired[t] \in Seq(Mutexes)  BY DEF Inv, Typing, TypeOK
  <2>2. \A x \in all : \E i \in 1..Len(acquired[t]) : acquired[t][i] = x
    BY <1>2, <2>1 DEF ToSet
  <2>3. all \subseteq Mutexes  BY <2>1, <2>2
  <2> QED  BY <2>2, <2>3 DEF Inv, Listed, Contains
<1> QED  BY <1>1, <1>2

LEMMA UnlockFrees ==
  ASSUME NEW t \in Threads, NEW m \in Methods, Unlock(t, m), NEW all, all \subseteq Mutexes,
         all = IF Len(frames[t]) = 1 THEN ToSet(acquired[t]) ELSE {}
  PROVE  /\ \A l \in all : units'[l] = units[l] + 1 /\ owner'[l] = Nobody
         /\ \A l \in Locks \ (all \cup {m}) :
                units'[l] = units[l] /\ owner'[l] = owner[l] /\ depth'[l] = depth[l]
<1>1. m \in Locks /\ m \notin Mutexes /\ Mutexes \subseteq Locks
  BY MethodAssumption DEF Locks
<1>2. \A l \in Locks :
         /\ units'[l] = IF l \in all \/ (l = m /\ HasMutex(m) /\ depth[m] = 1)
                        THEN units[l] + 1 ELSE units[l]
         /\ owner'[l] = IF l \in all \/ (l = m /\ HasMutex(m) /\ depth[m] = 1)
                        THEN Nobody ELSE owner[l]
         /\ depth'[l] = IF l \in all THEN 0
                        ELSE IF l = m /\ HasMutex(m) THEN depth[l] - 1 ELSE depth[l]
  BY DEF Unlock, FullyReleased
<1> QED  BY <1>1, <1>2

LEMMA UnlockLeaves ==
  ASSUME Inv, NEW t \in Threads, NEW m \in Methods, Unlock(t, m)
  PROVE  /\ IF HasMutex(m) /\ depth[m] = 1
            THEN units'[m] = units[m] + 1 /\ owner'[m] = Nobody
            ELSE units'[m] = units[m] /\ owner'[m] = owner[m]
         /\ depth'[m] = IF HasMutex(m) THEN depth[m] - 1 ELSE depth[m]
<1>1. PICK all : all = IF Len(frames[t]) = 1 THEN ToSet(acquired[t]) ELSE {}  OBVIOUS
<1>2. m \in Locks /\ m \notin all
  BY <1>1, UnlockedMutexes, MethodAssumption DEF Locks
<1>3. /\ units'[m] = IF m \in all \/ (HasMutex(m) /\ depth[m] = 1)
                     THEN units[m] + 1 ELSE units[m]
      /\ owner'[m] = IF m \in all \/ (HasMutex(m) /\ depth[m] = 1)
                     THEN Nobody ELSE owner[m]
      /\ depth'[m] = IF m \in all THEN 0
                     ELSE IF HasMutex(m) THEN depth[m] - 1 ELSE depth[m]
  BY <1>1, <1>2 DEF Unlock, FullyReleased
<1> QED  BY <1>2, <1>3

\* A step back to the caller, or out of the interpreter: the frame on top is popped.
LEMMA TerminateSteps ==
  ASSUME Inv, NEW t \in Threads, AcpiDsTerminateControlMethod(t)
  PROVE  /\ frames[t] # <<>> /\ Top(t).method \in Methods
         /\ frames' = [frames EXCEPT ![t] = Front(@)]
         /\ Unlock(t, Top(t).method)
         /\ UNCHANGED <<wants, damaged>>
         /\ pc'[t] # "woken" /\ \A u \in Threads \ {t} : pc'[u] = pc[u]
         /\ acquired' = IF Len(frames[t]) = 1 THEN [acquired EXCEPT ![t] = <<>>] ELSE acquired
<1>1. pc \in [Threads -> Pc] /\ frames \in [Threads -> Seq(Frame)]
  BY DEF Inv, Typing, TypeOK
<1>2. frames[t] # <<>>
  BY DEF AcpiDsTerminateControlMethod, Ending, Nested, Inv, Typing, Places
<1>3. Top(t).method \in Methods  BY <1>1, <1>2, TopIsFrame
<1>4. \E where \in {"outside", "report", "inside"} : pc' = [pc EXCEPT ![t] = where]
  BY DEF AcpiDsTerminateControlMethod, Leave, Run
<1>5. pc'[t] # "woken" /\ \A u \in Threads \ {t} : pc'[u] = pc[u]  BY <1>1, <1>4
<1>6. acquired' = IF Len(frames[t]) = 1 THEN [acquired EXCEPT ![t] = <<>>] ELSE acquired
  BY DEF AcpiDsTerminateControlMethod
<1>7. /\ frames' = [frames EXCEPT ![t] = Front(@)]
      /\ Unlock(t, Top(t).method)
      /\ UNCHANGED <<wants, damaged>>
  BY DEF AcpiDsTerminateControlMethod
<1> QED  BY <1>2, <1>3, <1>5, <1>6, <1>7

\* What the exit does to the thread count and to the kind of its method, and to no other.
LEMMA TerminateCounts ==
  ASSUME Inv, NEW t \in Threads, AcpiDsTerminateControlMethod(t),
         NEW m, m = Top(t).method
  PROVE  /\ count'[m] = IF count[m] > 0 THEN count[m] - 1 ELSE count[m]
         /\ \A k \in Methods \ {m} : count'[k] = count[k] /\ (HasMutex(k)' <=> HasMutex(k))
         /\ HasMutex(m) => HasMutex(m)'
         /\ HasMutex(m)' => HasMutex(m) \/ count'[m] = 0
<1>1. m \in Methods  BY TerminateSteps
<1>2. Typing /\ count \in [Methods -> Nat]  BY DEF Inv, Typing, TypeOK
<1>3. /\ count' = [count EXCEPT ![m] = IF @ > 0 THEN @ - 1 ELSE @]
      /\ kind' = [Marked(t) EXCEPT ![m] = IF count'[m] = 0 /\ @ = "pending" THEN "ignored" ELSE @]
  BY DEF AcpiDsTerminateControlMethod
<1>4. /\ Marked(t) \in [Methods -> {"plain", "pending", "ignored", "serialized"}]
      /\ \A k \in Methods : kind[k] \in {"serialized", "ignored"} <=>
                             Marked(t)[k] \in {"serialized", "ignored"}
  BY <1>2, MarkedIsKind
<1>5. /\ \A k \in Methods \ {m} : kind'[k] = Marked(t)[k]
      /\ kind'[m] = IF count'[m] = 0 /\ Marked(t)[m] = "pending" THEN "ignored"
                    ELSE Marked(t)[m]
  BY <1>1, <1>3, <1>4
<1>6. \A k \in Methods \ {m} : count'[k] = count[k]  BY <1>1, <1>2, <1>3
<1>7. count'[m] = IF count[m] > 0 THEN count[m] - 1 ELSE count[m]  BY <1>1, <1>2, <1>3
<1>8. \A k \in Methods \ {m} : HasMutex(k)' <=> HasMutex(k)  BY <1>4, <1>5 DEF HasMutex
<1>9. HasMutex(m) => HasMutex(m)'  BY <1>1, <1>4, <1>5 DEF HasMutex
<1>10. HasMutex(m)' => HasMutex(m) \/ count'[m] = 0  BY <1>1, <1>4, <1>5 DEF HasMutex
<1> QED  BY <1>6, <1>7, <1>8, <1>9, <1>10

\* The frames that are left are counted by the thread count and by the mutex.
LEMMA TerminateFollows ==
  ASSUME Inv, Typing', NEW t \in Threads, AcpiDsTerminateControlMethod(t),
         NEW m \in Methods, m = Top(t).method, m \notin damaged
  PROVE  /\ Counted(m)' /\ MutexFollows(m)'
         /\ HasMutex(m) => owner[m] = t
<1>1. Counted(m) /\ MutexFollows(m) /\ Typing  BY DEF Inv
<1>2. /\ count \in [Methods -> Nat] /\ depth \in [Locks -> Int] /\ m \in Locks
      /\ Nobody \notin Threads /\ MethodLimit \in Nat
  BY <1>1, MethodAssumption DEF Typing, TypeOK, Locks
<1>3. /\ frames[t] # <<>> /\ frames' = [frames EXCEPT ![t] = Front(@)]
      /\ Unlock(t, m)
  BY TerminateSteps
<1>4. PICK n \in Nat : n = Len(frames[t])  BY <1>1 DEF Typing, TypeOK
<1>5. /\ n \in FramesOf(t, m) /\ FramesOf(t, m)' = FramesOf(t, m) \ {n}
      /\ <<t, n>> \in Entries(m) /\ Entries(m)' = Entries(m) \ {<<t, n>>}
      /\ \A u \in Threads \ {t} : FramesOf(u, m)' = FramesOf(u, m)
  <2>1. /\ n \in FramesOf(t, m) /\ FramesOf(t, m)' = FramesOf(t, m) \ {n}
        /\ <<t, n>> \in Entries(m) /\ Entries(m)' = Entries(m) \ {<<t, n>>}
    BY <1>1, <1>3, <1>4, FramesPopped
  <2>2. \A u \in Threads \ {t} : FramesOf(u, m)' = FramesOf(u, m)
    BY <1>1, <1>3, <1>4, PoppedElsewhere
  <2> QED  BY <2>1, <2>2
<1>6. /\ count'[m] = IF count[m] > 0 THEN count[m] - 1 ELSE count[m]
      /\ HasMutex(m) => HasMutex(m)'
      /\ HasMutex(m)' => HasMutex(m) \/ count'[m] = 0
  BY TerminateCounts
<1>7. Counted(m)'
  <2> DEFINE e == <<t, n>>
  <2>1. /\ e \in Entries(m) /\ Entries(m)' = Entries(m) \ {e}
        /\ IsFiniteSet(Entries(m)) /\ Cardinality(Entries(m)) = count[m]
        /\ count[m] <= MethodLimit
    BY <1>1, <1>5 DEF Counted
  <2> HIDE DEF e
  <2>2. /\ IsFiniteSet(Entries(m) \ {e})
        /\ Cardinality(Entries(m) \ {e}) = Cardinality(Entries(m)) - 1
    BY <2>1, FS_RemoveElement
  <2>3. Cardinality(Entries(m) \ {e}) \in Nat  BY <2>2, FS_CardinalityType
  <2>4. count[m] > 0  BY <1>2, <2>1, <2>2, <2>3
  <2>5. count'[m] = Cardinality(Entries(m)') /\ count'[m] <= MethodLimit
    BY <1>2, <1>6, <2>1, <2>2, <2>4
  <2> QED  BY <2>1, <2>2, <2>5 DEF Counted
<1>9. /\ IF HasMutex(m) /\ depth[m] = 1 THEN owner'[m] = Nobody ELSE owner'[m] = owner[m]
      /\ depth'[m] = IF HasMutex(m) THEN depth[m] - 1 ELSE depth[m]
  BY <1>3, UnlockLeaves
<1>10. HasMutex(m) => owner[m] = t
  BY <1>1, <1>5 DEF MutexFollows, Executes
<1>11. MutexFollows(m)'
  <2>1. CASE HasMutex(m)
    <3>1. owner[m] = t /\ HasMutex(m)'  BY <1>6, <1>10, <2>1
    <3>2. depth[m] = Cardinality(FramesOf(t, m)) /\ IsFiniteSet(FramesOf(t, m))
      BY <1>1, <2>1, <3>1, FramesFinite DEF MutexFollows
    <3>3. /\ IsFiniteSet(FramesOf(t, m)')
          /\ Cardinality(FramesOf(t, m)') = depth[m] - 1
      BY <1>5, <3>2, FS_RemoveElement
    <3>4. depth'[m] = Cardinality(FramesOf(t, m)')  BY <1>9, <2>1, <3>3
    <3>5. \A u \in Threads \ {t} : ~Executes(u, m)'
      <4>1. \A u \in Threads \ {t} : ~Executes(u, m)
        BY <1>1, <2>1, <3>1 DEF MutexFollows
      <4> QED  BY <1>5, <4>1 DEF Executes
    <3>6. CASE depth[m] = 1
      <4>1. owner'[m] = Nobody  BY <1>9, <2>1, <3>6
      <4>2. Cardinality(FramesOf(t, m)') = 0  BY <3>3, <3>6
      <4>3. FramesOf(t, m)' = {}  BY <3>3, <4>2, FS_EmptySet
      <4>4. depth'[m] = 0  BY <3>4, <4>2
      <4>5. \A u \in Threads : ~Executes(u, m)'  BY <3>5, <4>3 DEF Executes
      <4> QED  BY <1>2, <3>1, <4>1, <4>4, <4>5 DEF MutexFollows
    <3>7. CASE depth[m] # 1
      <4>1. owner'[m] = t  BY <1>9, <3>1, <3>7
      <4> QED  BY <1>2, <3>1, <3>4, <3>5, <4>1 DEF MutexFollows
    <3> QED  BY <3>6, <3>7
  <2>2. CASE ~HasMutex(m)
    <3>1. owner[m] = Nobody /\ depth[m] = 0  BY <1>1, <2>2 DEF MutexFollows
    <3>2. owner'[m] = Nobody /\ depth'[m] = 0  BY <1>9, <2>2, <3>1
    <3>3. \A u \in Threads : HasMutex(m)' => ~Executes(u, m)'
      <4> SUFFICES ASSUME HasMutex(m)' PROVE \A u \in Threads : ~Executes(u, m)'
        OBVIOUS
      <4>1. count'[m] = 0  BY <1>6, <2>2
      <4>2. Entries(m)' = {}  BY <1>7, <4>1, FS_EmptySet DEF Counted
      <4>3. \A u \in Threads : \A i \in FramesOf(u, m)' : <<u, i>> \in Entries(m)'
        BY DEF Entries
      <4> QED  BY <4>2, <4>3 DEF Executes
    <3> QED  BY <1>2, <3>2, <3>3 DEF MutexFollows
  <2> QED  BY <2>1, <2>2
<1> QED  BY <1>7, <1>10, <1>11

LEMMA TerminateKeeps ==
  ASSUME Inv, Typing', NEW t \in Threads, AcpiDsTerminateControlMethod(t)
  PROVE  Inv'
<1>1. PICK m \in Methods : m = Top(t).method  BY TerminateSteps
<1>2. PICK all : all = IF Len(frames[t]) = 1 THEN ToSet(acquired[t]) ELSE {}  OBVIOUS
<1>3. /\ frames[t] # <<>> /\ frames' = [frames EXCEPT ![t] = Front(@)]
      /\ Unlock(t, m) /\ UNCHANGED <<wants, damaged>>
      /\ pc'[t] # "woken" /\ \A u \in Threads \ {t} : pc'[u] = pc[u]
      /\ acquired' = IF Len(frames[t]) = 1 THEN [acquired EXCEPT ![t] = <<>>] ELSE acquired
  BY <1>1, TerminateSteps
<1>4. /\ all \subseteq Mutexes /\ \A x \in all : owner[x] = t
      /\ \A l \in all : units'[l] = units[l] + 1 /\ owner'[l] = Nobody
      /\ \A l \in Locks \ (all \cup {m}) :
             units'[l] = units[l] /\ owner'[l] = owner[l] /\ depth'[l] = depth[l]
      /\ IF HasMutex(m) /\ depth[m] = 1
         THEN units'[m] = units[m] + 1 /\ owner'[m] = Nobody
         ELSE units'[m] = units[m] /\ owner'[m] = owner[m]
  <2>1. all \subseteq Mutexes /\ \A x \in all : owner[x] = t
    BY <1>2, UnlockedMutexes
  <2>2. /\ \A l \in all : units'[l] = units[l] + 1 /\ owner'[l] = Nobody
        /\ \A l \in Locks \ (all \cup {m}) :
               units'[l] = units[l] /\ owner'[l] = owner[l] /\ depth'[l] = depth[l]
    BY <1>1, <1>2, <1>3, <2>1, UnlockFrees
  <2>3. IF HasMutex(m) /\ depth[m] = 1
        THEN units'[m] = units[m] + 1 /\ owner'[m] = Nobody
        ELSE units'[m] = units[m] /\ owner'[m] = owner[m]
    BY <1>1, <1>3, UnlockLeaves
  <2> QED  BY <2>1, <2>2, <2>3
<1>5. /\ Mutexes \subseteq Locks /\ Methods \subseteq Locks /\ Nobody \notin Threads
      /\ Mutexes \cap Methods = {} /\ damaged \subseteq Methods
      /\ units \in [Locks -> Nat] /\ acquired \in [Threads -> Seq(Mutexes)] /\ Typing
  BY MethodAssumption DEF Inv, Typing, TypeOK, Locks
<1>6. \A u \in Threads, l \in Locks : Coming(u, l)' => Coming(u, l)
  BY <1>3 DEF Coming
<1>7. ASSUME NEW l \in Locks, UnitInOnePlace(l), owner[l] = t,
             units'[l] = units[l] + 1, owner'[l] = Nobody
      PROVE  UnitInOnePlace(l)'
  <2>1. units[l] = 0 /\ \A u \in Threads : ~Coming(u, l)
    BY <1>5, <1>7 DEF UnitInOnePlace
  <2>2. units'[l] = 1 /\ \A u \in Threads : ~Coming(u, l)'  BY <1>6, <1>7, <2>1
  <2> QED  BY <1>7, <2>2 DEF UnitInOnePlace
<1>8. \A l \in (all \cup {m}) \cap Locks : l \notin damaged' => UnitInOnePlace(l)'
  <2>1. ASSUME NEW l \in all PROVE UnitInOnePlace(l)'
    <3>1. l \in Locks /\ l \notin damaged  BY <1>4, <1>5
    <3> QED  BY <1>4, <1>7, <3>1 DEF Inv
  <2>2. ASSUME m \notin damaged PROVE UnitInOnePlace(m)'
    <3>1. UnitInOnePlace(m) /\ m \in Locks  BY <1>5, <2>2 DEF Inv
    <3>2. CASE HasMutex(m) /\ depth[m] = 1
      <4>1. owner[m] = t  BY <1>1, <2>2, <3>2, TerminateFollows
      <4> QED  BY <1>4, <1>7, <3>1, <3>2, <4>1
    <3>3. CASE ~(HasMutex(m) /\ depth[m] = 1)
      <4>1. units'[m] = units[m] /\ owner'[m] = owner[m]  BY <1>4, <3>3
      <4> QED  BY <1>6, <3>1, <4>1 DEF UnitInOnePlace
    <3> QED  BY <3>2, <3>3
  <2> QED  BY <1>3, <2>1, <2>2
<1>9. \A l \in Locks \ (all \cup {m}) : l \notin damaged' =>
         /\ units'[l] = units[l] /\ owner'[l] = owner[l]
         /\ \A u \in Threads : Coming(u, l)' => Coming(u, l)
  BY <1>4, <1>6
<1>10. \A k \in Methods \ {m} : k \notin damaged' =>
             /\ owner'[k] = owner[k] /\ depth'[k] = depth[k] /\ count'[k] = count[k]
             /\ HasMutex(k)' <=> HasMutex(k)
             /\ Entries(k)' = Entries(k)
             /\ \A u \in Threads : FramesOf(u, k)' = FramesOf(u, k)
  <2>1. \A k \in Methods \ {m} : owner'[k] = owner[k] /\ depth'[k] = depth[k]
    BY <1>4, <1>5
  <2>2. \A k \in Methods \ {m} : count'[k] = count[k] /\ (HasMutex(k)' <=> HasMutex(k))
    BY <1>1, TerminateCounts
  <2>3. PICK n \in Nat : n = Len(frames[t])  BY <1>5 DEF Typing, TypeOK
  <2>4. /\ \A u \in Threads, k \in Methods :
               u # t \/ k # m => FramesOf(u, k)' = FramesOf(u, k)
        /\ \A k \in Methods \ {m} : Entries(k)' = Entries(k)
    BY <1>1, <1>3, <1>5, <2>3, PoppedElsewhere
  <2> QED  BY <2>1, <2>2, <2>4
<1>11. \A k \in {m} \cap Methods : k \notin damaged' => Counted(k)' /\ MutexFollows(k)'
  BY <1>1, <1>3, TerminateFollows
<1>12. \A u \in Threads : Listed(u)'
  <2>1. CASE Len(frames[t]) = 1
    <3>1. all = ToSet(acquired[t])  BY <1>2, <2>1
    <3>2. \A x \in Mutexes : owner[x] = t <=> x \in all
      <4>1. \A x \in all : \E i \in 1..Len(acquired[t]) : acquired[t][i] = x
        BY <1>5, <3>1 DEF ToSet
      <4>2. \A i \in 1..Len(acquired[t]) : acquired[t][i] \in all
        BY <1>5, <3>1 DEF ToSet
      <4> QED  BY <4>1, <4>2 DEF Inv, Listed, Contains
    <3>3. acquired'[t] = <<>> /\ \A u \in Threads \ {t} : acquired'[u] = acquired[u]
      BY <1>3, <1>5, <2>1
    <3>4. \A x \in Mutexes : owner'[x] = IF owner[x] = t THEN Nobody ELSE owner[x]
      BY <1>4, <1>5, <3>2
    <3>5. Listed(t)'
      <4>1. \A x \in Mutexes : owner'[x] # t  BY <1>5, <3>4
      <4>2. \A x \in Mutexes : ~Contains(acquired'[t], x)
        BY <3>3 DEF Contains
      <4>3. DOMAIN acquired'[t] = {}  BY <3>3
      <4> QED  BY <4>1, <4>2, <4>3 DEF Listed, Contains
    <3>6. ASSUME NEW u \in Threads \ {t} PROVE Listed(u)'
      <4>1. Listed(u)  BY DEF Inv
      <4>2. \A x \in Mutexes : owner'[x] = u <=> owner[x] = u  BY <1>5, <3>4
      <4> QED  BY <3>3, <4>1, <4>2 DEF Listed, Contains
    <3> QED  BY <3>5, <3>6
  <2>2. CASE Len(frames[t]) # 1
    <3>1. UNCHANGED acquired /\ all = {}  BY <1>2, <1>3, <2>2
    <3>2. \A x \in Mutexes : owner'[x] = owner[x]  BY <1>4, <1>5, <3>1
    <3> QED  BY <3>1, <3>2, ListedSame
  <2> QED  BY <2>1, <2>2
<1>13. damaged \subseteq damaged'  BY <1>3
<1> QED  BY <1>8, <1>9, <1>10, <1>11, <1>12, <1>13, Focus

\* The invariant holds at first, and after each step.
THEOREM InvInit == Init => Inv
<1> SUFFICES ASSUME Init PROVE Inv  OBVIOUS
<1>1. Typing  BY TypingInit
<1>2. Nobody \notin Threads /\ MethodLimit \in Nat  BY MethodAssumption
<1>3. \A l \in Locks : UnitInOnePlace(l)  BY DEF Init, UnitInOnePlace, Coming
<1>4. \A t \in Threads, m \in Methods : FramesOf(t, m) = {}
  <2>1. \A t \in Threads : DOMAIN frames[t] = {}  BY DEF Init
  <2> QED  BY <2>1 DEF FramesOf
<1>5. \A m \in Methods : Entries(m) = {} /\ count[m] = 0 /\ depth[m] = 0 /\ owner[m] = Nobody
  BY <1>4 DEF Entries, Init, Locks
<1>6. \A m \in Methods : Counted(m)  BY <1>2, <1>5, FS_EmptySet DEF Counted
<1>7. \A m \in Methods : MutexFollows(m)
  BY <1>2, <1>4, <1>5 DEF MutexFollows, Executes
<1>8. \A t \in Threads : Listed(t)
  <2>1. \A t \in Threads : acquired[t] = <<>>  BY DEF Init
  <2>2. \A x \in Mutexes : owner[x] = Nobody  BY DEF Init, Locks
  <2> QED  BY <1>2, <2>1, <2>2 DEF Listed, Contains
<1> QED  BY <1>1, <1>3, <1>6, <1>7, <1>8 DEF Inv

THEOREM InvStep == Inv /\ [Next]_vars => Inv'
<1> SUFFICES ASSUME Inv, [Next]_vars PROVE Inv'  OBVIOUS
<1>1. Typing'  BY TypingStep DEF Inv
<1>2. CASE UNCHANGED vars
  <2>1. /\ UNCHANGED <<units, owner, depth, acquired, count, damaged, kind, frames>>
        /\ UNCHANGED <<pc, wants>>
    BY <1>2 DEF vars, threadVars, lockVars, methodVars, history
  <2>2. \A m \in Methods : /\ Entries(m)' = Entries(m)
                           /\ \A t \in Threads : FramesOf(t, m)' = FramesOf(t, m)
                           /\ HasMutex(m)' <=> HasMutex(m)
    BY <2>1, FramesSame DEF HasMutex
  <2> QED  BY <1>1, <2>1, <2>2, QuietKeeps
<1>3. CASE Next
  <2>1. PICK t \in Threads :
            \/ Sleep(t) \/ WakeUp(t) \/ Woken(t) \/ TimedOut(t)
            \/ \E x \in Mutexes : MutexStep(t, x)
            \/ \E m \in Methods : MethodStep(t, m)
            \/ CreateObject(t) \/ AlreadyExists(t)
            \/ EndLast(t) \/ DeleteObjects(t) \/ AcpiDsTerminateControlMethod(t)
    BY <1>3 DEF Next
  <2>2. CASE \/ Sleep(t) \/ WakeUp(t) \/ TimedOut(t) \/ AlreadyExists(t) \/ EndLast(t)
             \/ CreateObject(t) \/ DeleteObjects(t)
    BY <1>1, <2>2, QuietSteps
  <2>3. CASE Woken(t)  BY <1>1, <2>3, WokenKeeps
  <2>4. CASE AcpiDsTerminateControlMethod(t)  BY <1>1, <2>4, TerminateKeeps
  <2>5. ASSUME NEW x \in Mutexes, MutexStep(t, x) PROVE Inv'
    <3>1. CASE \/ AcquireRefused(t, x) \/ AcquireAgain(t, x) \/ AcquireWaits(t, x)
               \/ ReleaseRefused(t, x) \/ ReleaseOnce(t, x)
      BY <1>1, <3>1, QuietMutexSteps
    <3>2. CASE AcquireAtOnce(t, x) \/ AcquireDone(t, x)  BY <1>1, <3>2, AcquireKeeps
    <3>3. CASE Release(t, x)  BY <1>1, <3>3, ReleaseKeeps
    <3> QED  BY <2>5, <3>1, <3>2, <3>3 DEF MutexStep
  <2>6. ASSUME NEW m \in Methods, MethodStep(t, m) PROVE Inv'
    <3>1. CASE MethodRefused(t, m) \/ BeginWaits(t, m)  BY <1>1, <3>1, QuietMethodSteps
    <3>2. CASE BeginPlain(t, m)  BY <1>1, <3>2, BeginPlainKeeps
    <3>3. CASE BeginAgain(t, m)  BY <1>1, <3>3, BeginAgainKeeps
    <3>4. CASE BeginAtOnce(t, m) \/ BeginDone(t, m)  BY <1>1, <3>4, BeginKeeps
    <3> QED  BY <2>6, <3>1, <3>2, <3>3, <3>4 DEF MethodStep
  <2> QED  BY <2>1, <2>2, <2>3, <2>4, <2>5, <2>6
<1> QED  BY <1>2, <1>3

\* A serialized method, also one that became so on its own, runs on one thread at a
\* time, and a mutex has one owner: AcpiExSystemWaitMutex leaves the interpreter, and
\* what the thread finds when it comes back is as it was promised.
THEOREM MethodsExclude == Spec => []SerializedExcludes
<1>1. Inv => SerializedExcludes
  <2> SUFFICES ASSUME Inv, NEW t \in Threads, NEW u \in Threads
               PROVE  /\ \A m \in Methods \ damaged :
                             HasMutex(m) /\ Executes(t, m) /\ Executes(u, m) => t = u
                      /\ \A l \in Locks \ damaged : Has(t, l) /\ Has(u, l) => t = u
    BY DEF SerializedExcludes
  <2>1. \A m \in Methods \ damaged :
            HasMutex(m) /\ Executes(t, m) /\ Executes(u, m) => t = u
    BY DEF Inv, MutexFollows
  <2>2. \A l \in Locks \ damaged : Has(t, l) /\ Has(u, l) => t = u
    <3>1. Nobody \notin Threads  BY MethodAssumption
    <3> QED  BY <3>1 DEF Inv, UnitInOnePlace, Has, Coming
  <2> QED  BY <2>1, <2>2
<1> QED  BY <1>1, InvInit, InvStep, PTL DEF Spec

\* The depth of a method's mutex and ThreadCount follow the entries and exits of every
\* thread, and the list of a thread has the mutexes it owns.
THEOREM MethodsCount == Spec => []EntriesCounted
<1>1. Inv => EntriesCounted
  BY DEF Inv, Counted, MutexFollows, Listed, EntriesCounted
<1> QED  BY <1>1, InvInit, InvStep, PTL DEF Spec

-----------------------------------------------------------------------------
(* Levels                                                                  *)

\* The mutex that was acquired when the list had p mutexes, and those before it.
Nth(s, p)    == s[Len(s) - p]
Lowest(s, n) == {Nth(s, p) : p \in 0..(n - 1)}

Took(fs) == {j \in DOMAIN fs : fs[j].took}

\* The levels of a stack's outermost method, of some mutexes and of some frames.
LevelsOf(fs, X, J) == {SyncLevel[fs[1].method]} \cup {SyncLevel[x] : x \in X}
                      \cup {SyncLevel[fs[j].method] : j \in J}

Highest(v, S) == v \in S /\ \A w \in S : w <= v

\* Of a stack fs, a list s, a current level v and original levels o: the current level is
\* the highest that is held, and what is restored with a mutex is the highest of what was
\* held when it was acquired.
Chain(fs, s, v, o) ==
    /\ Highest(v, LevelsOf(fs, Lowest(s, Len(s)), Took(fs)))
    /\ \A p \in 0..(Len(s) - 1) :
         /\ Highest(o[Nth(s, p)],
                    LevelsOf(fs, Lowest(s, p), {j \in Took(fs) : fs[j].held <= p}))
         /\ o[Nth(s, p)] <= SyncLevel[Nth(s, p)]
    /\ \A j \in Took(fs) :
         /\ fs[j].held <= Len(s)
         /\ j # 1 => Highest(o[fs[j].method],
                             LevelsOf(fs, Lowest(s, fs[j].held), {k \in Took(fs) : k < j}))

LEMMA NthIs ==
  ASSUME NEW s \in Seq(Mutexes)
  PROVE  /\ Len(s) \in Nat
         /\ \A p \in 0..(Len(s) - 1) : Nth(s, p) \in Mutexes /\ Nth(s, p) \in Locks
<1>1. Len(s) \in Nat  OBVIOUS
<1>2. \A p \in 0..(Len(s) - 1) : Len(s) - p \in 1..Len(s)  BY <1>1
<1> QED  BY <1>1, <1>2 DEF Nth, Locks

LEMMA LinkedNth ==
  ASSUME NEW s \in Seq(Mutexes), NEW x \in Mutexes, NEW r, Len(r) = Len(s) + 1, r[1] = x,
         \A j \in 1..Len(s) : r[j + 1] = s[j]
  PROVE  /\ Nth(r, Len(s)) = x
         /\ \A p \in 0..(Len(s) - 1) : Nth(r, p) = Nth(s, p)
<1>1. PICK n \in Nat : n = Len(s)  OBVIOUS
<1>2. (n + 1) - n = 1  OBVIOUS
<1>3. Nth(r, n) = x  BY <1>1, <1>2 DEF Nth
<1>4. ASSUME NEW p \in 0..(n - 1) PROVE Nth(r, p) = Nth(s, p)
  <2>1. n - p \in 1..n /\ (n - p) + 1 = (n + 1) - p  OBVIOUS
  <2>2. r[(n + 1) - p] = s[n - p]  BY <1>1, <2>1
  <2> QED  BY <1>1, <2>2 DEF Nth
<1> QED  BY <1>1, <1>3, <1>4

LEMMA RemovedNth ==
  ASSUME NEW s \in Seq(Mutexes), NEW b \in 0..(Len(s) - 1), NEW r, Len(r) = Len(s) - 1,
         \A j \in 1..(Len(s) - 1) : r[j] = IF j < Len(s) - b THEN s[j] ELSE s[j + 1]
  PROVE  \A p \in 0..(Len(s) - 2) : Nth(r, p) = IF p < b THEN Nth(s, p) ELSE Nth(s, p + 1)
<1>1. PICK n \in Nat : n = Len(s)  OBVIOUS
<1>2. PICK i \in 1..n : i = n - b
  <2>1. n - b \in 1..n  BY <1>1
  <2> QED  BY <2>1
<1>3. ASSUME NEW p \in 0..(n - 2)
      PROVE  Nth(r, p) = IF p < b THEN Nth(s, p) ELSE Nth(s, p + 1)
  <2>1. /\ (n - 1) - p \in 1..(n - 1) /\ ((n - 1) - p) + 1 = n - p
        /\ n - (p + 1) = (n - 1) - p
        /\ (n - 1) - p < i <=> ~(p < b)
    BY <1>1, <1>2
  <2>2. Nth(r, p) = r[(n - 1) - p]  BY <1>1 DEF Nth
  <2>3. Nth(s, p) = s[n - p] /\ Nth(s, p + 1) = s[(n - 1) - p]  BY <1>1, <2>1 DEF Nth
  <2>4. r[(n - 1) - p] = IF (n - 1) - p < i THEN s[(n - 1) - p] ELSE s[((n - 1) - p) + 1]
    BY <1>1, <1>2, <2>1
  <2> QED  BY <2>1, <2>2, <2>3, <2>4
<1> QED  BY <1>1, <1>3

LEMMA LowestSame ==
  ASSUME NEW r, NEW s, NEW n, \A p \in 0..(n - 1) : Nth(r, p) = Nth(s, p)
  PROVE  Lowest(r, n) = Lowest(s, n)
BY DEF Lowest

LEMMA LowestNext ==
  ASSUME NEW s, NEW n \in Nat
  PROVE  Lowest(s, n + 1) = Lowest(s, n) \cup {Nth(s, n)}
<1>1. \A p : p \in 0..((n + 1) - 1) <=> p \in 0..(n - 1) \/ p = n  OBVIOUS
<1> QED  BY <1>1 DEF Lowest

LEMMA LevelsAre ==
  ASSUME NEW fs, NEW X, NEW J, NEW w
  PROVE  w \in LevelsOf(fs, X, J) <=> \/ w = SyncLevel[fs[1].method]
                                      \/ \E x \in X : w = SyncLevel[x]
                                      \/ \E j \in J : w = SyncLevel[fs[j].method]
BY DEF LevelsOf

\* Only the methods, the mutexes taken and the list lengths of the frames matter, and only
\* the original levels of what the thread has.
LEMMA ChainSame ==
  ASSUME NEW fs \in Seq(Frame), NEW f2 \in Seq(Frame), fs # <<>>, NEW s \in Seq(Mutexes),
         NEW v, NEW o, NEW o2, Chain(fs, s, v, o),
         DOMAIN f2 = DOMAIN fs,
         \A j \in DOMAIN fs : /\ f2[j].method = fs[j].method /\ f2[j].took = fs[j].took
                              /\ f2[j].held = fs[j].held,
         \A p \in 0..(Len(s) - 1) : o2[Nth(s, p)] = o[Nth(s, p)],
         \A j \in Took(fs) : o2[fs[j].method] = o[fs[j].method]
  PROVE  Chain(f2, s, v, o2)
<1>1. Took(f2) = Took(fs) /\ Took(fs) \subseteq DOMAIN fs  BY DEF Took
<1>2. 1 \in DOMAIN fs  OBVIOUS
<1>3. ASSUME NEW X, NEW J, J \subseteq DOMAIN fs PROVE LevelsOf(f2, X, J) = LevelsOf(fs, X, J)
  BY <1>2, <1>3 DEF LevelsOf
<1>4. \A p : {j \in Took(f2) : f2[j].held <= p} = {j \in Took(fs) : fs[j].held <= p}
  BY <1>1
<1>5. Highest(v, LevelsOf(f2, Lowest(s, Len(s)), Took(f2)))
  BY <1>1, <1>3 DEF Chain
<1>6. ASSUME NEW p \in 0..(Len(s) - 1)
      PROVE  /\ Highest(o2[Nth(s, p)],
                        LevelsOf(f2, Lowest(s, p), {j \in Took(f2) : f2[j].held <= p}))
             /\ o2[Nth(s, p)] <= SyncLevel[Nth(s, p)]
  <2> DEFINE J == {j \in Took(fs) : fs[j].held <= p}
  <2>1. {j \in Took(f2) : f2[j].held <= p} = J /\ J \subseteq DOMAIN fs  BY <1>1, <1>4
  <2>2. Highest(o[Nth(s, p)], LevelsOf(fs, Lowest(s, p), J)) /\ o[Nth(s, p)] <= SyncLevel[Nth(s, p)]
    BY DEF Chain
  <2> HIDE DEF J
  <2>3. LevelsOf(f2, Lowest(s, p), J) = LevelsOf(fs, Lowest(s, p), J)  BY <1>3, <2>1
  <2> QED  BY <2>1, <2>2, <2>3
<1>7. ASSUME NEW j \in Took(f2)
      PROVE  /\ f2[j].held <= Len(s)
             /\ j # 1 => Highest(o2[f2[j].method],
                             LevelsOf(f2, Lowest(s, f2[j].held), {k \in Took(f2) : k < j}))
  <2>1. {k \in Took(f2) : k < j} = {k \in Took(fs) : k < j}
        /\ {k \in Took(fs) : k < j} \subseteq DOMAIN fs
    BY <1>1
  <2>2. LevelsOf(f2, Lowest(s, fs[j].held), {k \in Took(fs) : k < j})
         = LevelsOf(fs, Lowest(s, fs[j].held), {k \in Took(fs) : k < j})
    BY <1>3, <2>1
  <2>3. f2[j].held = fs[j].held /\ f2[j].method = fs[j].method /\ j \in Took(fs)
    BY <1>1
  <2> QED  BY <2>1, <2>2, <2>3 DEF Chain
<1> QED  BY <1>5, <1>6, <1>7 DEF Chain

LEMMA TookIs ==
  ASSUME NEW fs \in Seq(Frame)
  PROVE  /\ Took(fs) \subseteq DOMAIN fs
         /\ \A j \in Took(fs) : fs[j].took /\ fs[j].held \in Nat /\ fs[j].method \in Methods
<1>1. \A j \in DOMAIN fs : fs[j] \in Frame  OBVIOUS
<1>2. \A j \in DOMAIN fs : fs[j].held \in Nat /\ fs[j].method \in Methods  BY <1>1 DEF Frame
<1> QED  BY <1>2 DEF Took

\* The levels of a stack and of a list are levels.
LEMMA LevelsIn ==
  ASSUME NEW fs \in Seq(Frame), fs # <<>>, NEW X, X \subseteq Mutexes, NEW J, J \subseteq Took(fs)
  PROVE  \A w \in LevelsOf(fs, X, J) : w \in 0..15
<1>1. \A j \in Took(fs) : fs[j].method \in Methods  BY TookIs
<1>2. fs[1] \in Frame  OBVIOUS
<1>3. fs[1].method \in Methods  BY <1>2 DEF Frame
<1>4. \A m \in Methods : SyncLevel[m] \in 0..15  BY MethodAssumption
<1>5. \A x \in X : SyncLevel[x] \in 0..15  BY MethodAssumption
<1>6. \A j \in J : SyncLevel[fs[j].method] \in 0..15  BY <1>1, <1>4
<1>7. SyncLevel[fs[1].method] \in 0..15  BY <1>3, <1>4
<1> QED  BY ONLY <1>5, <1>6, <1>7, LevelsAre

LEMMA LowestIn ==
  ASSUME NEW s \in Seq(Mutexes), NEW n, n <= Len(s), n \in Nat
  PROVE  Lowest(s, n) \subseteq Mutexes
<1>1. \A p \in 0..(n - 1) : p \in 0..(Len(s) - 1)
  <2>1. Len(s) \in Nat  OBVIOUS
  <2> QED  BY <2>1
<1> QED  BY <1>1, NthIs DEF Lowest

\* A mutex is acquired, at a level that is not below the current one.
LEMMA ChainLink ==
  ASSUME NEW fs \in Seq(Frame), fs # <<>>, NEW s \in Seq(Mutexes),
         NEW v, v \in 0..15, NEW o, NEW o2, Chain(fs, s, v, o),
         NEW x \in Mutexes, NEW r, Len(r) = Len(s) + 1, Nth(r, Len(s)) = x,
         \A p \in 0..(Len(s) - 1) : Nth(r, p) = Nth(s, p),
         v <= SyncLevel[x], o2[x] = v, \A l \in Locks \ {x} : o2[l] = o[l],
         \A p \in 0..(Len(s) - 1) : Nth(s, p) # x
  PROVE  Chain(fs, r, SyncLevel[x], o2)
<1>1. PICK n \in Nat : n = Len(s)  OBVIOUS
<1>2. /\ Len(r) = n + 1 /\ Nth(r, n) = x
      /\ \A p \in 0..(n - 1) : Nth(r, p) = Nth(s, p) /\ Nth(s, p) # x
  BY <1>1
<1> USE <1>1, <1>2
<1>3. ASSUME NEW h \in Nat, h <= n PROVE Lowest(r, h) = Lowest(s, h)
  <2>1. \A p \in 0..(h - 1) : p \in 0..(n - 1)  BY ONLY <1>3, n \in Nat
  <2>2. \A p \in 0..(h - 1) : Nth(r, p) = Nth(s, p)  BY <2>1
  <2> QED  BY ONLY <2>2, LowestSame
<1>4. Lowest(r, n + 1) = Lowest(s, n) \cup {x}
  <2>1. Lowest(r, n) = Lowest(s, n)  BY <1>3
  <2> QED  BY <2>1, LowestNext
<1>5. /\ Highest(v, LevelsOf(fs, Lowest(s, n), Took(fs)))
      /\ \A j \in Took(fs) : fs[j].held <= n
  BY DEF Chain
<1>6. \A j \in Took(fs) : fs[j].held \in Nat /\ fs[j].method \in Methods
  BY TookIs
<1>7. SyncLevel[x] \in 0..15 /\ Mutexes \cap Methods = {}
  BY MethodAssumption
<1>8. \A w \in LevelsOf(fs, Lowest(s, n), Took(fs)) : w \in 0..15
  <2>1. n <= Len(s)  OBVIOUS
  <2>2. Lowest(s, n) \subseteq Mutexes  BY <2>1, LowestIn
  <2> QED  BY <2>2, LevelsIn
<1>9. Highest(SyncLevel[x], LevelsOf(fs, Lowest(r, n + 1), Took(fs)))
  <2>1. \A w : w \in LevelsOf(fs, Lowest(r, n + 1), Took(fs)) <=>
                  w \in LevelsOf(fs, Lowest(s, n), Took(fs)) \/ w = SyncLevel[x]
    BY <1>4 DEF LevelsOf
  <2>2. \A w \in LevelsOf(fs, Lowest(s, n), Took(fs)) : w <= v
    BY <1>5 DEF Highest
  <2>3. PICK y \in 0..15 : y = SyncLevel[x]  BY <1>7
  <2>4. \A w \in 0..15 : w <= v => w <= y
    BY ONLY v \in 0..15, v <= SyncLevel[x], <2>3, y \in 0..15
  <2>5. SyncLevel[x] <= SyncLevel[x]  BY <2>3
  <2> QED  BY ONLY <1>8, <2>1, <2>2, <2>3, <2>4, <2>5 DEF Highest
<1>10. ASSUME NEW p \in 0..((n + 1) - 1)
       PROVE  /\ Highest(o2[Nth(r, p)],
                         LevelsOf(fs, Lowest(r, p), {j \in Took(fs) : fs[j].held <= p}))
              /\ o2[Nth(r, p)] <= SyncLevel[Nth(r, p)]
  <2>1. CASE p = n
    <3>1. {j \in Took(fs) : fs[j].held <= p} = Took(fs)  BY <1>5, <2>1
    <3>2. Lowest(r, p) = Lowest(s, n) /\ Nth(r, p) = x  BY <1>3, <2>1
    <3> QED  BY <1>5, <3>1, <3>2
  <2>2. CASE p # n
    <3>1. p \in 0..(n - 1) /\ p \in Nat /\ p <= n  BY ONLY <2>2, n \in Nat, p \in 0..((n + 1) - 1)
    <3>2. Nth(r, p) = Nth(s, p) /\ Nth(s, p) # x /\ Nth(s, p) \in Locks
      BY <3>1, NthIs
    <3>3. Lowest(r, p) = Lowest(s, p)  BY <1>3, <3>1
    <3>4. o2[Nth(r, p)] = o[Nth(s, p)]  BY <3>2
    <3> QED  BY <3>1, <3>2, <3>3, <3>4 DEF Chain
  <2> QED  BY <2>1, <2>2
<1>11. ASSUME NEW j \in Took(fs)
       PROVE  /\ fs[j].held <= n + 1
              /\ j # 1 => Highest(o2[fs[j].method],
                             LevelsOf(fs, Lowest(r, fs[j].held), {k \in Took(fs) : k < j}))
  <2>1. fs[j].held \in Nat /\ fs[j].held <= n  BY <1>5, <1>6
  <2>2. Lowest(r, fs[j].held) = Lowest(s, fs[j].held)  BY <1>3, <2>1
  <2>3. fs[j].method \in Locks \ {x}  BY <1>6, <1>7 DEF Locks
  <2>4. o2[fs[j].method] = o[fs[j].method]  BY <2>3
  <2>5. fs[j].held <= n + 1  BY ONLY <2>1, n \in Nat
  <2> QED  BY <2>2, <2>4, <2>5 DEF Chain
<1> QED  BY <1>9, <1>10, <1>11 DEF Chain

\* The level of a thread at v that enters a method with a mutex.
Raised(v, m, w) == /\ v \in 0..15 /\ w \in 0..15
                   /\ v <= w /\ SyncLevel[m] <= w
                   /\ w = v \/ w = SyncLevel[m]

\* A method is entered from another one. If it takes its mutex, that restores the level of
\* the caller, which is raised to that of a serialized method.
LEMMA ChainPush ==
  ASSUME NEW fs \in Seq(Frame), fs # <<>>, NEW s \in Seq(Mutexes),
         NEW v, NEW o, Chain(fs, s, v, o), NEW f2 \in Seq(Frame), NEW m,
         DOMAIN f2 = 1..(Len(fs) + 1), \A i \in 1..Len(fs) : f2[i] = fs[i],
         f2[Len(fs) + 1] = [method |-> m, took |-> TRUE, held |-> Len(s), made |-> FALSE],
         \A j \in Took(fs) : fs[j].method # m,
         NEW o2, o2[m] = v, \A l \in Locks \ {m} : o2[l] = o[l], NEW w, Raised(v, m, w)
  PROVE  Chain(f2, s, w, o2)
<1>1. PICK n \in Nat \ {0} : n = Len(fs)  OBVIOUS
<1> USE <1>1
<1>2. f2[n + 1].took /\ f2[n + 1].held = Len(s) /\ f2[n + 1].method = m  OBVIOUS
<1>3. /\ v \in 0..15 /\ w \in 0..15 /\ v <= w /\ SyncLevel[m] <= w
      /\ w = v \/ w = SyncLevel[m]
  BY DEF Raised
<1> USE <1>2
<1>4. DOMAIN fs = 1..n /\ 1 \in 1..n /\ n + 1 \notin 1..n
      /\ \A i : i \in 1..(n + 1) <=> i \in 1..n \/ i = n + 1
  BY ONLY n \in Nat \ {0}, n = Len(fs), fs \in Seq(Frame)
<1>5. Took(f2) = Took(fs) \cup {n + 1} /\ Took(fs) \subseteq 1..n /\ n + 1 \notin Took(fs)
  BY <1>4 DEF Took
<1>6. Len(s) \in Nat  OBVIOUS
<1>7. m \in Methods /\ SyncLevel[m] \in 0..15 /\ Mutexes \cap Methods = {}
  <2>1. m \in Methods  BY <1>5, TookIs
  <2> QED  BY <2>1, MethodAssumption
<1>8. ASSUME NEW X, NEW J, J \subseteq 1..n PROVE LevelsOf(f2, X, J) = LevelsOf(fs, X, J)
  BY <1>4, <1>8 DEF LevelsOf
<1>9. \A j \in Took(fs) : fs[j].held <= Len(s) /\ fs[j].held \in Nat /\ fs[j].method \in Methods
  BY TookIs DEF Chain
<1>10. Highest(v, LevelsOf(fs, Lowest(s, Len(s)), Took(fs)))
  BY DEF Chain
<1>11. \A q \in LevelsOf(fs, Lowest(s, Len(s)), Took(fs)) : q \in 0..15
  <2>1. fs # <<>>  BY <1>4
  <2>2. Len(s) <= Len(s)  BY <1>6
  <2>3. Lowest(s, Len(s)) \subseteq Mutexes  BY <1>6, <2>2, LowestIn
  <2> QED  BY <2>1, <2>3, LevelsIn
<1>12. Highest(w, LevelsOf(f2, Lowest(s, Len(s)), Took(f2)))
  <2>1. \A q : q \in LevelsOf(f2, Lowest(s, Len(s)), Took(f2)) <=>
                  q \in LevelsOf(fs, Lowest(s, Len(s)), Took(fs)) \/ q = SyncLevel[m]
    <3> DEFINE X == Lowest(s, Len(s))
    <3> HIDE DEF X
    <3>1. \A j \in Took(fs) : f2[j] = fs[j]  BY <1>5
    <3> QED  BY <1>4, <1>5, <3>1 DEF LevelsOf
  <2>2. \A q \in LevelsOf(fs, Lowest(s, Len(s)), Took(fs)) : q <= v
    BY <1>10 DEF Highest
  <2>3. v \in LevelsOf(fs, Lowest(s, Len(s)), Took(fs))  BY <1>10 DEF Highest
  <2>4. w \in LevelsOf(f2, Lowest(s, Len(s)), Took(f2))  BY <1>3, <2>1, <2>3
  <2>5. ASSUME NEW q \in LevelsOf(f2, Lowest(s, Len(s)), Took(f2)) PROVE q <= w
    <3>1. q = SyncLevel[m] \/ (q \in 0..15 /\ q <= v)  BY <1>11, <2>1, <2>2
    <3>2. v \in 0..15 /\ w \in 0..15 /\ v <= w /\ SyncLevel[m] <= w  BY ONLY <1>3
    <3> QED  BY ONLY <3>1, <3>2
  <2> QED  BY <2>4, <2>5 DEF Highest
<1>13. ASSUME NEW p \in 0..(Len(s) - 1)
       PROVE  /\ Highest(o2[Nth(s, p)],
                         LevelsOf(f2, Lowest(s, p), {j \in Took(f2) : f2[j].held <= p}))
              /\ o2[Nth(s, p)] <= SyncLevel[Nth(s, p)]
  <2> DEFINE J == {j \in Took(fs) : fs[j].held <= p}
  <2>1. ~(f2[n + 1].held <= p)  BY <1>6
  <2>2. \A j \in Took(fs) : f2[j] = fs[j]  BY <1>5
  <2>3. {j \in Took(f2) : f2[j].held <= p} = J /\ J \subseteq 1..n  BY <1>5, <2>1, <2>2
  <2>4. Highest(o[Nth(s, p)], LevelsOf(fs, Lowest(s, p), J)) /\ o[Nth(s, p)] <= SyncLevel[Nth(s, p)]
    BY DEF Chain
  <2> HIDE DEF J
  <2>5. o2[Nth(s, p)] = o[Nth(s, p)]
    <3>1. Nth(s, p) \in Mutexes /\ Nth(s, p) \in Locks  BY NthIs
    <3> QED  BY <1>7, <3>1
  <2>6. LevelsOf(f2, Lowest(s, p), J) = LevelsOf(fs, Lowest(s, p), J)
    BY ONLY <1>8, <2>3
  <2> QED  BY <2>3, <2>4, <2>5, <2>6
<1>14. ASSUME NEW j \in Took(f2)
       PROVE  /\ f2[j].held <= Len(s)
              /\ j # 1 => Highest(o2[f2[j].method],
                             LevelsOf(f2, Lowest(s, f2[j].held), {k \in Took(f2) : k < j}))
  <2>1. CASE j = n + 1
    <3>1. {k \in Took(f2) : k < j} = Took(fs)
      <4>1. \A k \in Took(fs) : k < n + 1  BY <1>5
      <4>2. ~(n + 1 < n + 1)  OBVIOUS
      <4> QED  BY <1>5, <2>1, <4>1, <4>2
    <3>2. LevelsOf(f2, Lowest(s, Len(s)), Took(fs)) = LevelsOf(fs, Lowest(s, Len(s)), Took(fs))
      BY <1>5, <1>8
    <3>3. f2[j].held <= Len(s)  BY <1>6, <2>1
    <3> QED  BY <1>10, <2>1, <3>1, <3>2, <3>3
  <2>2. CASE j # n + 1
    <3> DEFINE J == {k \in Took(fs) : k < j}
    <3>1. j \in Took(fs) /\ f2[j] = fs[j] /\ j \in 1..n  BY <1>5, <2>2
    <3>2. {k \in Took(f2) : k < j} = J /\ J \subseteq 1..n
      <4>1. ~(n + 1 < j)  BY <3>1
      <4> QED  BY <1>5, <4>1
    <3>3. j # 1 => Highest(o[fs[j].method], LevelsOf(fs, Lowest(s, fs[j].held), J))
      BY <3>1 DEF Chain
    <3> HIDE DEF J
    <3>4. LevelsOf(f2, Lowest(s, fs[j].held), J) = LevelsOf(fs, Lowest(s, fs[j].held), J)
      BY <1>8, <3>2
    <3>5. fs[j].method \in Locks \ {m}  BY <1>9, <3>1 DEF Locks
    <3> QED  BY <1>9, <3>1, <3>2, <3>3, <3>4, <3>5
  <2> QED  BY <2>1, <2>2
<1> QED  BY <1>12, <1>13, <1>14 DEF Chain

\* A call that takes no mutex leaves the level, and what is restored, as it is.
LEMMA ChainCall ==
  ASSUME NEW fs \in Seq(Frame), NEW n \in Nat \ {0}, n = Len(fs), NEW s \in Seq(Mutexes),
         NEW v, NEW o, Chain(fs, s, v, o),
         NEW f2 \in Seq(Frame), DOMAIN f2 = 1..(n + 1), \A i \in 1..n : f2[i] = fs[i],
         ~f2[n + 1].took
  PROVE  Chain(f2, s, v, o)
<1>1. DOMAIN fs = 1..n /\ 1 \in 1..n
      /\ \A i : i \in 1..(n + 1) <=> i \in 1..n \/ i = n + 1
  BY ONLY n \in Nat \ {0}, n = Len(fs), fs \in Seq(Frame)
<1>2. Took(f2) = Took(fs) /\ Took(fs) \subseteq 1..n
  BY <1>1 DEF Took
<1>3. \A j \in Took(fs) : f2[j] = fs[j]  BY <1>2
<1>4. ASSUME NEW X, NEW J, J \subseteq 1..n PROVE LevelsOf(f2, X, J) = LevelsOf(fs, X, J)
  BY <1>1, <1>4 DEF LevelsOf
<1>5. \A p : {j \in Took(f2) : f2[j].held <= p} = {j \in Took(fs) : fs[j].held <= p}
  BY <1>2, <1>3
<1>6. \A p : {j \in Took(fs) : fs[j].held <= p} \subseteq 1..n  BY <1>2
<1>7. \A j : {k \in Took(fs) : k < j} \subseteq 1..n  BY <1>2
<1>8. Highest(v, LevelsOf(f2, Lowest(s, Len(s)), Took(f2)))
  BY <1>2, <1>4 DEF Chain
<1>9. ASSUME NEW p \in 0..(Len(s) - 1)
      PROVE  /\ Highest(o[Nth(s, p)],
                        LevelsOf(f2, Lowest(s, p), {j \in Took(f2) : f2[j].held <= p}))
             /\ o[Nth(s, p)] <= SyncLevel[Nth(s, p)]
  <2> DEFINE J == {j \in Took(fs) : fs[j].held <= p}
  <2>1. Highest(o[Nth(s, p)], LevelsOf(fs, Lowest(s, p), J)) /\ o[Nth(s, p)] <= SyncLevel[Nth(s, p)]
    BY DEF Chain
  <2>2. {j \in Took(f2) : f2[j].held <= p} = J /\ J \subseteq 1..n  BY <1>5, <1>6
  <2> HIDE DEF J
  <2>3. LevelsOf(f2, Lowest(s, p), J) = LevelsOf(fs, Lowest(s, p), J)  BY <1>4, <2>2
  <2> QED  BY <2>1, <2>2, <2>3
<1>10. ASSUME NEW j \in Took(f2)
       PROVE  /\ f2[j].held <= Len(s)
              /\ j # 1 => Highest(o[f2[j].method],
                             LevelsOf(f2, Lowest(s, f2[j].held), {k \in Took(f2) : k < j}))
  <2> DEFINE J == {k \in Took(fs) : k < j}
  <2>1. /\ fs[j].held <= Len(s)
        /\ j # 1 => Highest(o[fs[j].method], LevelsOf(fs, Lowest(s, fs[j].held), J))
    BY <1>2 DEF Chain
  <2>2. {k \in Took(f2) : k < j} = J /\ J \subseteq 1..n  BY <1>2, <1>7
  <2> HIDE DEF J
  <2>3. LevelsOf(f2, Lowest(s, fs[j].held), J) = LevelsOf(fs, Lowest(s, fs[j].held), J)
    BY <1>4, <2>2
  <2>4. f2[j] = fs[j]  BY <1>2, <1>3
  <2> QED  BY <2>1, <2>2, <2>3, <2>4
<1> QED  BY <1>8, <1>9, <1>10 DEF Chain

\* A thread's outermost method is entered, at its own level.
LEMMA ChainFirst ==
  ASSUME NEW f2 \in Seq(Frame), DOMAIN f2 = {1}, f2[1].held = 0, NEW o
  PROVE  Chain(f2, <<>>, SyncLevel[f2[1].method], o)
<1>1. Took(f2) \subseteq {1}  BY DEF Took
<1>2. Lowest(<<>>, 0) = {}
  <2>1. \A p : p \notin 0..(0 - 1)  OBVIOUS
  <2> QED  BY <2>1 DEF Lowest
<1>3. SyncLevel[f2[1].method] \in 0..15
  <2>1. f2[1] \in Frame
    <3>1. \A i \in DOMAIN f2 : f2[i] \in Frame  BY ONLY f2 \in Seq(Frame)
    <3> QED  BY <3>1
  <2>2. f2[1].method \in Methods  BY <2>1 DEF Frame
  <2> QED  BY <2>2, MethodAssumption
<1>4. SyncLevel[f2[1].method] <= SyncLevel[f2[1].method]  BY <1>3
<1>5. LevelsOf(f2, {}, Took(f2)) = {SyncLevel[f2[1].method]}
  BY <1>1 DEF LevelsOf
<1>6. Highest(SyncLevel[f2[1].method], LevelsOf(f2, Lowest(<<>>, 0), Took(f2)))
  BY <1>2, <1>4, <1>5 DEF Highest
<1>7. Len(<<>>) = 0 /\ \A p : p \notin 0..(0 - 1)  OBVIOUS
<1>8. \A j \in Took(f2) : j = 1 /\ f2[j].held <= 0  BY <1>1
<1> QED  BY <1>6, <1>7, <1>8 DEF Chain

\* A method returns to another one: the level of the caller is restored with the mutex.
LEMMA ChainPop ==
  ASSUME NEW fs \in Seq(Frame), NEW n \in Nat, n > 1, n = Len(fs), NEW s \in Seq(Mutexes),
         NEW v, NEW o, Chain(fs, s, v, o),
         NEW f2 \in Seq(Frame), DOMAIN f2 = 1..(n - 1), \A i \in 1..(n - 1) : f2[i] = fs[i],
         NEW w, IF fs[n].took THEN w = o[fs[n].method] /\ fs[n].held = Len(s) ELSE w = v
  PROVE  Chain(f2, s, w, o)
<1>1. DOMAIN fs = 1..n /\ 1 \in 1..(n - 1) /\ n \notin 1..(n - 1) /\ n # 1
      /\ \A i : i \in 1..n <=> i \in 1..(n - 1) \/ i = n
  BY ONLY n \in Nat, n > 1, n = Len(fs), fs \in Seq(Frame)
<1>2. Took(f2) = Took(fs) \ {n} /\ Took(fs) \subseteq 1..n
  BY <1>1 DEF Took
<1>3. \A j \in Took(f2) : f2[j] = fs[j] /\ j \in 1..(n - 1) /\ j \in Took(fs)  BY <1>1, <1>2
<1>4. ASSUME NEW X, NEW J, J \subseteq 1..(n - 1) PROVE LevelsOf(f2, X, J) = LevelsOf(fs, X, J)
  BY <1>1, <1>4 DEF LevelsOf
<1>5. Took(f2) \subseteq 1..(n - 1)  BY <1>3
<1>6. Highest(w, LevelsOf(fs, Lowest(s, Len(s)), Took(f2)))
  <2>1. CASE fs[n].took
    <3>1. n \in Took(fs)  BY <1>1, <2>1 DEF Took
    <3>2. {k \in Took(fs) : k < n} = Took(f2)
      <4>1. \A k \in Took(f2) : k < n  BY <1>3
      <4>2. \A k \in Took(fs) : k < n => k # n  BY <1>2
      <4> QED  BY <1>2, <4>1, <4>2
    <3>3. Highest(o[fs[n].method], LevelsOf(fs, Lowest(s, fs[n].held), {k \in Took(fs) : k < n}))
      BY <1>1, <3>1 DEF Chain
    <3> QED  BY <2>1, <3>2, <3>3
  <2>2. CASE ~fs[n].took
    <3>1. Took(f2) = Took(fs)  BY <1>2, <2>2 DEF Took
    <3> QED  BY <2>2, <3>1 DEF Chain
  <2> QED  BY <2>1, <2>2
<1>7. Highest(w, LevelsOf(f2, Lowest(s, Len(s)), Took(f2)))
  BY <1>4, <1>5, <1>6
<1>8. ASSUME NEW p \in 0..(Len(s) - 1)
      PROVE  /\ Highest(o[Nth(s, p)],
                        LevelsOf(f2, Lowest(s, p), {j \in Took(f2) : f2[j].held <= p}))
             /\ o[Nth(s, p)] <= SyncLevel[Nth(s, p)]
  <2> DEFINE J == {j \in Took(fs) : fs[j].held <= p}
  <2>1. Highest(o[Nth(s, p)], LevelsOf(fs, Lowest(s, p), J)) /\ o[Nth(s, p)] <= SyncLevel[Nth(s, p)]
    BY DEF Chain
  <2>2. n \notin J
    <3>1. Len(s) \in Nat  OBVIOUS
    <3>2. fs[n].took => ~(fs[n].held <= p)  BY <3>1
    <3> QED  BY <3>2 DEF Took
  <2>3. {j \in Took(f2) : f2[j].held <= p} = J /\ J \subseteq 1..(n - 1)  BY <1>1, <1>2, <1>3, <2>2
  <2> HIDE DEF J
  <2>4. LevelsOf(f2, Lowest(s, p), J) = LevelsOf(fs, Lowest(s, p), J)  BY <1>4, <2>3
  <2> QED  BY <2>1, <2>3, <2>4
<1>9. ASSUME NEW j \in Took(f2)
      PROVE  /\ f2[j].held <= Len(s)
             /\ j # 1 => Highest(o[f2[j].method],
                             LevelsOf(f2, Lowest(s, f2[j].held), {k \in Took(f2) : k < j}))
  <2> DEFINE J == {k \in Took(fs) : k < j}
  <2>1. f2[j] = fs[j] /\ j \in 1..(n - 1) /\ j \in Took(fs)  BY <1>3
  <2>2. /\ fs[j].held <= Len(s)
        /\ j # 1 => Highest(o[fs[j].method], LevelsOf(fs, Lowest(s, fs[j].held), J))
    BY <2>1 DEF Chain
  <2>3. {k \in Took(f2) : k < j} = J /\ J \subseteq 1..(n - 1)
    <3>1. ~(n < j)  BY <2>1
    <3>2. {k \in Took(f2) : k < j} = J  BY <1>2, <3>1
    <3>3. n \notin J  BY <3>1
    <3> QED  BY <1>1, <1>2, <3>2, <3>3
  <2> HIDE DEF J
  <2>4. LevelsOf(f2, Lowest(s, fs[j].held), J) = LevelsOf(fs, Lowest(s, fs[j].held), J)
    BY <1>4, <2>3
  <2> QED  BY <2>1, <2>2, <2>3, <2>4
<1> QED  BY <1>7, <1>8, <1>9 DEF Chain

LEMMA Between ==
  ASSUME NEW v \in 0..15, NEW x \in 0..15, NEW y \in 0..15, v <= x, x <= y, y <= v
  PROVE  x = v /\ y = v
OBVIOUS

\* A mutex of the current level is released, from wherever it is in the list, but not from
\* below what was there when a method took its mutex.
LEMMA ChainRemove ==
  ASSUME NEW fs \in Seq(Frame), fs # <<>>, NEW s \in Seq(Mutexes),
         NEW v, v \in 0..15, NEW o, NEW o2, Chain(fs, s, v, o),
         \A p \in 0..(Len(s) - 1) : o[Nth(s, p)] \in 0..15,
         \A p, q \in 0..(Len(s) - 1) : Nth(s, p) = Nth(s, q) => p = q,
         NEW b \in 0..(Len(s) - 1), SyncLevel[Nth(s, b)] = v,
         \A j \in Took(fs) : fs[j].held <= b,
         \A l \in Locks : o2[l] = IF b < Len(s) - 1 /\ l = Nth(s, b + 1) THEN o[Nth(s, b)]
                                  ELSE o[l],
         NEW r, Len(r) = Len(s) - 1,
         \A p \in 0..(Len(s) - 2) : Nth(r, p) = IF p < b THEN Nth(s, p) ELSE Nth(s, p + 1)
  PROVE  Chain(fs, r, o[Nth(s, Len(s) - 1)], o2)
<1>0. PICK n \in Nat : n = Len(s)  OBVIOUS
<1>1. PICK w : n = Len(s) /\ w = o[Nth(s, n - 1)]  BY <1>0
<1> USE <1>1
<1>2. n - 1 \in Nat /\ n - 1 \in 0..(n - 1) /\ b \in Nat  BY ONLY n \in Nat, b \in 0..(n - 1)
<1>3. Highest(v, LevelsOf(fs, Lowest(s, n), Took(fs)))  BY DEF Chain
<1>4. ASSUME NEW h \in Nat, h <= b PROVE Lowest(r, h) = Lowest(s, h)
  <2>1. \A p \in 0..(h - 1) : p \in 0..(n - 2) /\ p < b
    BY ONLY <1>4, n \in Nat, b \in 0..(n - 1), h \in Nat
  <2>2. \A p \in 0..(h - 1) : Nth(r, p) = Nth(s, p)  BY <2>1
  <2> QED  BY ONLY <2>2, LowestSame
<1>5. ASSUME NEW h \in Nat, h <= n - 1 PROVE Lowest(r, h) \subseteq Lowest(s, h + 1)
  <2>1. ASSUME NEW p \in 0..(h - 1) PROVE \E q \in 0..((h + 1) - 1) : Nth(r, p) = Nth(s, q)
    <3>1. p \in 0..(n - 2) /\ p \in 0..((h + 1) - 1) /\ p + 1 \in 0..((h + 1) - 1)
      BY ONLY <1>5, n \in Nat, h \in Nat, p \in 0..(h - 1)
    <3>2. Nth(r, p) = IF p < b THEN Nth(s, p) ELSE Nth(s, p + 1)  BY <3>1
    <3> QED  BY <3>1, <3>2
  <2> QED  BY <2>1 DEF Lowest
\* Every mutex above the released one is of the current level too, and restores it.
<1>6. ASSUME NEW p \in 0..(n - 1), p > b
      PROVE  o[Nth(s, p)] = v /\ SyncLevel[Nth(s, p)] = v
  <2> DEFINE J == {j \in Took(fs) : fs[j].held <= p}
  <2>1. Highest(o[Nth(s, p)], LevelsOf(fs, Lowest(s, p), J)) /\ o[Nth(s, p)] <= SyncLevel[Nth(s, p)]
    BY DEF Chain
  <2> HIDE DEF J
  <2>2. Nth(s, b) \in Lowest(s, p) /\ Nth(s, p) \in Lowest(s, n)
    <3>1. b \in 0..(p - 1)  BY ONLY <1>6, n \in Nat, b \in 0..(n - 1), p \in 0..(n - 1)
    <3> QED  BY <3>1 DEF Lowest
  <2>3. /\ v \in LevelsOf(fs, Lowest(s, p), J)
        /\ SyncLevel[Nth(s, p)] \in LevelsOf(fs, Lowest(s, n), Took(fs))
    BY <2>2 DEF LevelsOf
  <2>4. v <= o[Nth(s, p)] /\ SyncLevel[Nth(s, p)] <= v
    BY <1>3, <2>1, <2>3 DEF Highest
  <2>5. SyncLevel[Nth(s, p)] \in 0..15 /\ o[Nth(s, p)] \in 0..15
    <3>1. Nth(s, p) \in Mutexes  BY NthIs
    <3> QED  BY <3>1, MethodAssumption
  <2> QED  BY <2>1, <2>4, <2>5, Between
<1>7. ASSUME NEW h \in Nat, h <= n - 1, h > b
      PROVE  Highest(v, LevelsOf(fs, Lowest(r, h), Took(fs)))
  <2>1. h - 1 \in 0..(n - 2) /\ h - 1 \in 0..(h - 1) /\ (h - 1) + 1 = h /\ h \in 0..(n - 1)
        /\ ~(h - 1 < b) /\ h + 1 \in Nat
    BY ONLY <1>7, n \in Nat, b \in 0..(n - 1), h \in Nat
  <2>2. Nth(r, h - 1) = Nth(s, h)
    <3>1. Nth(r, h - 1) = Nth(s, (h - 1) + 1)  BY <2>1
    <3> QED  BY <2>1, <3>1
  <2>3. SyncLevel[Nth(s, h)] = v  BY <1>6, <1>7, <2>1
  <2>4. Nth(s, h) \in Lowest(r, h)  BY <2>1, <2>2 DEF Lowest
  <2>5. v \in LevelsOf(fs, Lowest(r, h), Took(fs))  BY <2>3, <2>4 DEF LevelsOf
  <2>6. Lowest(r, h) \subseteq Lowest(s, n)
    <3>1. \A p \in 0..((h + 1) - 1) : p \in 0..(n - 1)  BY ONLY <1>7, n \in Nat, h \in Nat
    <3>2. Lowest(s, h + 1) \subseteq Lowest(s, n)  BY <3>1 DEF Lowest
    <3> QED  BY <1>5, <1>7, <3>2
  <2>7. LevelsOf(fs, Lowest(r, h), Took(fs)) \subseteq LevelsOf(fs, Lowest(s, n), Took(fs))
    BY <2>6 DEF LevelsOf
  <2> QED  BY <1>3, <2>5, <2>7 DEF Highest
<1>8. ASSUME NEW p \in Nat, p >= b PROVE {j \in Took(fs) : fs[j].held <= p} = Took(fs)
  <2>1. \A j \in Took(fs) : fs[j].held \in Nat /\ fs[j].held <= b  BY TookIs
  <2>2. \A h \in Nat : h <= b => h <= p  BY ONLY <1>2, <1>8, p \in Nat
  <2> QED  BY <2>1, <2>2
\* The new level.
<1>9. Highest(w, LevelsOf(fs, Lowest(r, n - 1), Took(fs)))
  <2>1. CASE b = n - 1
    <3>1. /\ Highest(o[Nth(s, b)], LevelsOf(fs, Lowest(s, b), {j \in Took(fs) : fs[j].held <= b}))
      BY DEF Chain
    <3>2. {j \in Took(fs) : fs[j].held <= b} = Took(fs)
      <4>1. b >= b  BY <1>2
      <4> QED  BY <1>2, <1>8, <4>1
    <3>3. Lowest(r, b) = Lowest(s, b)
      <4>1. b <= b  BY <1>2
      <4> QED  BY <1>2, <1>4, <4>1
    <3> QED  BY <2>1, <3>1, <3>2, <3>3
  <2>2. CASE b # n - 1
    <3>1. n - 1 > b /\ n - 1 <= n - 1  BY ONLY <2>2, n \in Nat, b \in 0..(n - 1)
    <3>2. w = v  BY <1>2, <1>6, <3>1
    <3> QED  BY <1>2, <1>7, <3>1, <3>2
  <2> QED  BY <2>1, <2>2
\* What is restored with the mutexes that are left.
<1>10. ASSUME NEW p \in 0..((n - 1) - 1)
      PROVE  /\ Highest(o2[Nth(r, p)],
                        LevelsOf(fs, Lowest(r, p), {j \in Took(fs) : fs[j].held <= p}))
             /\ o2[Nth(r, p)] <= SyncLevel[Nth(r, p)]
  <2>1. /\ p \in 0..(n - 1) /\ p + 1 \in 0..(n - 1) /\ p \in Nat /\ p <= n - 1 /\ p \in 0..(n - 2)
        /\ b < n - 1 => b + 1 \in 0..(n - 1)
    BY ONLY n \in Nat, b \in 0..(n - 1), p \in 0..((n - 1) - 1)
  <2>2. Nth(s, p) \in Locks /\ Nth(s, p + 1) \in Locks  BY <2>1, NthIs
  <2>3. CASE p < b
    <3>1. Nth(r, p) = Nth(s, p)  BY <2>1, <2>3
    <3>2. Lowest(r, p) = Lowest(s, p)
      <4>1. p <= b  BY ONLY <1>2, <2>1, <2>3
      <4> QED  BY <1>4, <2>1, <4>1
    <3>3. o2[Nth(s, p)] = o[Nth(s, p)]
      <4>1. b < n - 1 => Nth(s, p) # Nth(s, b + 1)
        <5>1. p # b + 1  BY ONLY <1>2, <2>1, <2>3
        <5> QED  BY <2>1, <5>1
      <4> QED  BY <2>2, <4>1
    <3> QED  BY <2>1, <3>1, <3>2, <3>3 DEF Chain
  <2>4. CASE p = b
    <3>1. b < n - 1 /\ b <= b /\ ~(p < b)  BY ONLY <2>1, <2>4, n \in Nat, b \in 0..(n - 1)
    <3>2. Nth(r, p) = Nth(s, b + 1)  BY <2>1, <2>4, <3>1
    <3>3. Lowest(r, p) = Lowest(s, b)  BY <1>2, <1>4, <2>4, <3>1
    <3>4. o2[Nth(r, p)] = o[Nth(s, b)]  BY <2>2, <2>4, <3>1, <3>2
    <3>5. Highest(o[Nth(s, b)], LevelsOf(fs, Lowest(s, b), {j \in Took(fs) : fs[j].held <= b}))
          /\ o[Nth(s, b)] <= SyncLevel[Nth(s, b)]
      BY DEF Chain
    <3>6. SyncLevel[Nth(s, b + 1)] = v
      <4>1. b + 1 > b  BY <1>2
      <4> QED  BY <1>6, <2>1, <3>1, <4>1
    <3>7. o2[Nth(r, p)] <= SyncLevel[Nth(r, p)]  BY <3>2, <3>4, <3>5, <3>6
    <3> QED  BY <2>4, <3>3, <3>4, <3>5, <3>7
  <2>5. CASE p > b
    <3>1. p + 1 > b /\ ~(p < b) /\ p + 1 # b + 1 /\ p >= b  BY ONLY <1>2, <2>1, <2>5
    <3>2. Nth(r, p) = Nth(s, p + 1)  BY <2>1, <3>1
    <3>3. o2[Nth(r, p)] = o[Nth(s, p + 1)]
      <4>1. b < n - 1 => Nth(s, p + 1) # Nth(s, b + 1)  BY <2>1, <3>1
      <4> QED  BY <2>2, <3>2, <4>1
    <3>4. o2[Nth(r, p)] = v /\ SyncLevel[Nth(r, p)] = v  BY <1>6, <2>1, <3>1, <3>2, <3>3
    <3>5. {j \in Took(fs) : fs[j].held <= p} = Took(fs)  BY <1>8, <2>1, <3>1
    <3>6. Highest(v, LevelsOf(fs, Lowest(r, p), Took(fs)))  BY <1>7, <2>1, <2>5
    <3>7. v <= v  BY ONLY v \in 0..15
    <3> QED  BY <3>4, <3>5, <3>6, <3>7
  <2>6. p < b \/ p = b \/ p > b  BY ONLY <1>2, <2>1
  <2> QED  BY <2>3, <2>4, <2>5, <2>6
<1>11. ASSUME NEW j \in Took(fs)
       PROVE  /\ fs[j].held <= n - 1
              /\ j # 1 => Highest(o2[fs[j].method],
                             LevelsOf(fs, Lowest(r, fs[j].held), {k \in Took(fs) : k < j}))
  <2>1. fs[j].held \in Nat /\ fs[j].held <= b /\ fs[j].method \in Methods  BY TookIs
  <2>2. fs[j].held <= n - 1  BY ONLY <2>1, n \in Nat, b \in 0..(n - 1)
  <2>3. Lowest(r, fs[j].held) = Lowest(s, fs[j].held)  BY <1>4, <2>1
  <2>4. o2[fs[j].method] = o[fs[j].method]
    <3>1. b < n - 1 => b + 1 \in 0..(n - 1)  BY ONLY n \in Nat, b \in 0..(n - 1)
    <3>2. b < n - 1 => Nth(s, b + 1) \in Mutexes  BY <3>1, NthIs
    <3>3. b < n - 1 => fs[j].method # Nth(s, b + 1)  BY <2>1, <3>2, MethodAssumption
    <3>4. fs[j].method \in Locks  BY <2>1 DEF Locks
    <3> QED  BY <3>3, <3>4
  <2> QED  BY <2>2, <2>3, <2>4 DEF Chain
<1> QED  BY <1>9, <1>10, <1>11 DEF Chain

-----------------------------------------------------------------------------
(* What the steps do                                                       *)

\* A thread that waits, or has the unit and not yet the lock, asked for it in order, and
\* does not own it.
WaitOrder ==
    \A t \in Threads : pc[t] \in {"wait", "woken"} =>
        /\ Nested(t) /\ (wants[t] \in Methods => kind[wants[t]] = "serialized")
               => level[t] <= SyncLevel[wants[t]]
        /\ wants[t] \notin damaged => owner[wants[t]] # t

\* A step of t leaves to the other threads what is theirs.
Apart(t) ==
    \A u \in Threads \ {t} :
        /\ pc'[u] = pc[u] /\ wants'[u] = wants[u] /\ frames'[u] = frames[u]
        /\ level'[u] = level[u] /\ acquired'[u] = acquired[u]
        /\ u \in skewed' <=> u \in skewed

SameKinds ==
    \A m \in Methods : /\ HasMutex(m)' <=> HasMutex(m)
                       /\ kind'[m] = "serialized" <=> kind[m] = "serialized"

\* It takes, gives, enters and leaves nothing,
Calm == /\ UNCHANGED <<frames, level, acquired, owner, original, count, skewed, damaged>>
        /\ SameKinds

\* or becomes the owner of a mutex,
Links(t, x) == /\ Link(t, x) /\ pc'[t] = "inside"
               /\ owner[x] = Nobody
               /\ level[t] <= SyncLevel[x]

\* or fails half way into a method,
Aborts(t, m) ==
    /\ UNCHANGED <<frames, acquired, kind>>
    /\ m \notin damaged /\ damaged' = damaged \cup {m} /\ skewed' = skewed \cup {t}
    /\ count'[m] >= count[m] /\ \A k \in Methods \ {m} : count'[k] = count[k]
    /\ \A l \in Locks \ {m} : owner'[l] = owner[l] /\ original'[l] = original[l]
    /\ HasMutex(m) => \A u \in Threads \ {t} : owner[m] # u /\ ~Executes(u, m)

\* or enters one.
EntersAlone(t, m) ==
    /\ HasMutex(m)
    /\ m \notin damaged => owner[m] = Nobody
    /\ owner'[m] = t
    /\ original'[m] = IF Nested(t) THEN level[t] ELSE SyncLevel[m]
    /\ level' = EntryLevel(t, m)

EntersToo(t, m) ==
    /\ owner'[m] = owner[m] /\ original'[m] = original[m]
    /\ IF HasMutex(m) THEN Nested(t) /\ owner[m] = t /\ UNCHANGED level
       ELSE level' = EntryLevel(t, m)

Enters(t, m, took) ==
    /\ Push(t, m, took)
    /\ \A l \in Locks \ {m} : owner'[l] = owner[l] /\ original'[l] = original[l]
    /\ IF took THEN EntersAlone(t, m) ELSE EntersToo(t, m)
    /\ Nested(t) /\ kind[m] = "serialized" => level[t] <= SyncLevel[m]

LEMMA MarkedSerialized ==
  ASSUME Typing, NEW t \in Threads
  PROVE  \A m \in Methods : Marked(t)[m] = "serialized" <=> kind[m] = "serialized"
BY DEF Marked, HasMutex, Typing, TypeOK

LEMMA CalmSteps ==
  ASSUME Typing, NEW t \in Threads,
         \/ Sleep(t) \/ WakeUp(t) \/ Woken(t) \/ TimedOut(t) \/ AlreadyExists(t)
         \/ EndLast(t) \/ DeleteObjects(t)
  PROVE  Apart(t) /\ Calm
<1>1. pc \in [Threads -> Pc] /\ wants \in [Threads -> Locks \cup {Nobody}]
  BY DEF Typing, TypeOK
<1>2. UNCHANGED <<frames, level, acquired, owner, original, count, skewed, damaged>>
  BY DEF Sleep, WakeUp, Woken, TimedOut, AlreadyExists, Fails, EndLast, DeleteObjects,
     lockVars, methodVars, history
<1>3. \A u \in Threads \ {t} : pc'[u] = pc[u] /\ wants'[u] = wants[u]
  BY <1>1 DEF Sleep, WakeUp, Woken, TimedOut, AlreadyExists, Fails, EndLast, DeleteObjects,
     Leave, Run
<1>4. kind' = kind \/ kind' = Marked(t)
  BY DEF Sleep, WakeUp, Woken, TimedOut, AlreadyExists, EndLast, DeleteObjects, methodVars
<1>5. SameKinds  BY <1>4, MarkedIsKind, MarkedSerialized DEF SameKinds, HasMutex
<1> QED  BY <1>2, <1>3, <1>5 DEF Apart, Calm

LEMMA CalmMutexSteps ==
  ASSUME Typing, NEW t \in Threads, NEW x \in Mutexes,
         \/ AcquireRefused(t, x) \/ AcquireAgain(t, x) \/ AcquireWaits(t, x)
         \/ ReleaseRefused(t, x) \/ ReleaseOnce(t, x)
  PROVE  Apart(t) /\ Calm
<1>1. pc \in [Threads -> Pc] /\ wants \in [Threads -> Locks \cup {Nobody}]
  BY DEF Typing, TypeOK
<1>2. UNCHANGED <<frames, level, acquired, owner, original, count, skewed, damaged, kind>>
  BY DEF AcquireRefused, AcquireAgain, AcquireWaits, WaitOutside, ReleaseRefused, ReleaseOnce,
     Fails, threadVars, lockVars, methodVars, history
<1>3. \A u \in Threads \ {t} : pc'[u] = pc[u] /\ wants'[u] = wants[u]
  BY <1>1 DEF AcquireRefused, AcquireAgain, AcquireWaits, WaitOutside, ReleaseRefused,
     ReleaseOnce, Fails, Leave, threadVars
<1>4. SameKinds  BY <1>2 DEF SameKinds, HasMutex
<1> QED  BY <1>2, <1>3, <1>4 DEF Apart, Calm

LEMMA CalmMethodSteps ==
  ASSUME Typing, NEW t \in Threads, NEW m \in Methods, MethodRefused(t, m) \/ BeginWaits(t, m)
  PROVE  Apart(t) /\ Calm
<1>1. pc \in [Threads -> Pc] /\ wants \in [Threads -> Locks \cup {Nobody}]
  BY DEF Typing, TypeOK
<1>2. UNCHANGED <<frames, level, acquired, owner, original, count, skewed, damaged, kind>>
  BY DEF MethodRefused, BeginWaits, WaitOutside, EntryFails, lockVars, methodVars, history
<1>3. \A u \in Threads \ {t} : pc'[u] = pc[u] /\ wants'[u] = wants[u]
  BY <1>1 DEF MethodRefused, BeginWaits, WaitOutside, EntryFails, Leave
<1>4. SameKinds  BY <1>2 DEF SameKinds, HasMutex
<1> QED  BY <1>2, <1>3, <1>4 DEF Apart, Calm

LEMMA CreateSteps ==
  ASSUME Typing, NEW t \in Threads, CreateObject(t)
  PROVE  /\ Apart(t)
         /\ UNCHANGED <<pc, level, acquired, owner, original, count, kind, skewed, damaged>>
<1>1. frames \in [Threads -> Seq(Frame)]  BY DEF Typing, TypeOK
<1>2. \A u \in Threads \ {t} : frames'[u] = frames[u]
  BY <1>1 DEF CreateObject
<1>3. UNCHANGED <<pc, wants, level, acquired, owner, original, count, kind, skewed, damaged>>
  BY DEF CreateObject, lockVars, history
<1> QED  BY <1>2, <1>3 DEF Apart

LEMMA LinkSteps ==
  ASSUME Inv, WaitOrder, NEW t \in Threads, NEW x \in Mutexes,
         AcquireAtOnce(t, x) \/ AcquireDone(t, x)
  PROVE  Apart(t) /\ Links(t, x)
<1>1. /\ pc \in [Threads -> Pc] /\ wants \in [Threads -> Locks \cup {Nobody}]
      /\ level \in [Threads -> 0..15] /\ acquired \in [Threads -> Seq(Mutexes)]
      /\ SyncLevel[x] \in 0..15 /\ Typing
  BY MethodAssumption DEF Inv, Typing, TypeOK
<1>2. Link(t, x)  BY DEF AcquireAtOnce, AcquireDone
<1>3. x \in Locks /\ x \notin damaged /\ x \notin Methods
  BY MethodAssumption DEF Inv, Typing, TypeOK, Locks
<1>4. UnitInOnePlace(x)  BY <1>3 DEF Inv
<1>5. owner[x] = Nobody /\ level[t] <= SyncLevel[x] /\ pc'[t] = "inside"
  <2>1. CASE AcquireAtOnce(t, x)
    <3>1. units[x] = 1 /\ ~TooHigh(t, x) /\ pc'[t] = "inside"
      BY <1>4, <2>1 DEF AcquireAtOnce, Available, UnitInOnePlace, Inside
    <3>2. level[t] <= SyncLevel[x]
      <4>1. level[t] \in 0..15  BY <1>1
      <4> QED  BY <1>1, <3>1, <4>1 DEF TooHigh
    <3> QED  BY <1>4, <3>1, <3>2 DEF UnitInOnePlace
  <2>2. CASE AcquireDone(t, x)
    <3>1. Coming(t, x) /\ pc'[t] = "inside"  BY <1>1, <2>2 DEF AcquireDone, Coming, Run
    <3>2. Nested(t)  BY <1>1, <3>1 DEF Typing, Places, Coming, Nested
    <3>3. level[t] <= SyncLevel[x]  BY <1>3, <3>1, <3>2 DEF WaitOrder, Coming
    <3> QED  BY <1>4, <3>1, <3>3 DEF UnitInOnePlace
  <2> QED  BY <2>1, <2>2
<1>6. \A u \in Threads \ {t} : /\ pc'[u] = pc[u] /\ wants'[u] = wants[u]
                               /\ level'[u] = level[u] /\ acquired'[u] = acquired[u]
  BY <1>1, <1>2 DEF AcquireAtOnce, AcquireDone, Link, Run
<1>7. UNCHANGED <<frames, skewed>>  BY <1>2 DEF Link, history
<1> QED  BY <1>2, <1>5, <1>6, <1>7 DEF Apart, Links

LEMMA ReleaseSteps ==
  ASSUME Inv, NEW t \in Threads, NEW x \in Mutexes, Release(t, x)
  PROVE  /\ Apart(t)
         /\ UNCHANGED <<pc, frames, count, kind, damaged>>
         /\ owner[x] = t /\ owner' = [owner EXCEPT ![x] = Nobody]
<1>1. /\ level \in [Threads -> 0..15] /\ acquired \in [Threads -> Seq(Mutexes)]
  BY DEF Inv, Typing, TypeOK
<1>2. PICK i \in DOMAIN acquired[t] :
        /\ acquired[t][i] = x
        /\ level' = [level EXCEPT ![t] = original[acquired[t][1]]]
        /\ acquired' = [acquired EXCEPT ![t] = RemoveAt(@, i)]
        /\ owner' = [owner EXCEPT ![x] = Nobody]
        /\ skewed' = IF Outer(t, i) THEN skewed \cup {t} ELSE skewed
        /\ UNCHANGED <<pc, wants, frames, kind, count, damaged>>
  BY DEF Release, threadVars, methodVars
<1>3. owner[x] = t  BY <1>2, UnlinkedIsListed
<1>4. \A u \in Threads \ {t} : level'[u] = level[u] /\ acquired'[u] = acquired[u]
  BY <1>1, <1>2
<1> QED  BY <1>2, <1>3, <1>4 DEF Apart

LEMMA PushApart ==
  ASSUME Typing, NEW t \in Threads, NEW m \in Methods, NEW took \in BOOLEAN,
         Push(t, m, took), \A u \in Threads \ {t} : level'[u] = level[u]
  PROVE  Apart(t)
<1>1. /\ pc \in [Threads -> Pc] /\ wants \in [Threads -> Locks \cup {Nobody}]
      /\ frames \in [Threads -> Seq(Frame)]
  BY DEF Typing, TypeOK
<1>2. \A u \in Threads \ {t} : /\ pc'[u] = pc[u] /\ wants'[u] = wants[u]
                               /\ frames'[u] = frames[u] /\ acquired'[u] = acquired[u]
  BY <1>1 DEF Push, Run
<1>3. \A u \in Threads \ {t} : u \in skewed' <=> u \in skewed  BY DEF Push
<1> QED  BY <1>2, <1>3 DEF Apart

LEMMA FailApart ==
  ASSUME Typing, NEW t \in Threads, EntryFails(t), skewed' = skewed \cup {t},
         \A u \in Threads \ {t} : level'[u] = level[u]
  PROVE  Apart(t) /\ UNCHANGED <<frames, acquired>> /\ pc'[t] \in {"report", "outside"}
<1>1. pc \in [Threads -> Pc] /\ wants \in [Threads -> Locks \cup {Nobody}]
  BY DEF Typing, TypeOK
<1>2. /\ UNCHANGED <<frames, acquired>> /\ pc'[t] \in {"report", "outside"}
      /\ \A u \in Threads \ {t} : pc'[u] = pc[u] /\ wants'[u] = wants[u]
  BY <1>1 DEF EntryFails, Leave
<1>3. \A u \in Threads \ {t} : u \in skewed' <=> u \in skewed  OBVIOUS
<1> QED  BY <1>2, <1>3 DEF Apart

LEMMA EntryLevelApart ==
  ASSUME Typing, NEW t \in Threads, NEW m \in Methods
  PROVE  \A u \in Threads \ {t} : EntryLevel(t, m)[u] = level[u]
BY DEF EntryLevel, Typing, TypeOK

LEMMA InOrder ==
  ASSUME Typing, NEW t \in Threads, NEW m \in Methods, ~OrderViolated(t, m)
  PROVE  Nested(t) /\ kind[m] = "serialized" => level[t] <= SyncLevel[m]
<1>1. level[t] \in 0..15 /\ SyncLevel[m] \in 0..15
  BY MethodAssumption DEF Typing, TypeOK
<1> QED  BY <1>1 DEF OrderViolated, TooHigh

LEMMA AloneElsewhere ==
  ASSUME Inv, NEW m \in Methods, m \notin damaged, HasMutex(m)
  PROVE  /\ owner[m] = Nobody => \A u \in Threads : ~Executes(u, m) /\ owner[m] # u
         /\ \A t \in Threads : owner[m] = t =>
                \A u \in Threads \ {t} : ~Executes(u, m) /\ owner[m] # u
<1>1. MutexFollows(m) /\ Nobody \notin Threads  BY MethodAssumption DEF Inv
<1>2. \A u \in Threads : Executes(u, m) => owner[m] = u  BY <1>1 DEF MutexFollows
<1> QED  BY <1>1, <1>2

LEMMA PlainSteps ==
  ASSUME Inv, NEW t \in Threads, NEW m \in Methods, BeginPlain(t, m)
  PROVE  Apart(t) /\ (Enters(t, m, FALSE) \/ Aborts(t, m)) /\ pc'[t] \in {"inside", "report", "outside"}
<1>1. /\ Typing /\ count \in [Methods -> Nat] /\ pc \in [Threads -> Pc]
  BY DEF Inv, Typing, TypeOK
<1>2. UNCHANGED lockVars /\ ~HasMutex(m) /\ ~OrderViolated(t, m)
  BY DEF BeginPlain, Admitted
<1>3. CASE Push(t, m, FALSE) /\ level' = EntryLevel(t, m)
  <2>1. Apart(t)  BY <1>1, <1>3, EntryLevelApart, PushApart
  <2>2. Nested(t) /\ kind[m] = "serialized" => level[t] <= SyncLevel[m]
    BY <1>1, <1>2, InOrder
  <2>3. Enters(t, m, FALSE)  BY <1>2, <1>3, <2>2 DEF Enters, EntersToo, lockVars
  <2>4. pc'[t] = "inside"  BY <1>1, <1>3 DEF Push, Run
  <2> QED  BY <2>1, <2>3, <2>4
<1>4. CASE NoWalkState(t, m) /\ UNCHANGED level
  <2>1. EntryFails(t) /\ skewed' = skewed \cup {t}  BY <1>4 DEF NoWalkState
  <2>2. Apart(t) /\ UNCHANGED <<frames, acquired>> /\ pc'[t] \in {"report", "outside"}
    BY <1>1, <1>4, <2>1, FailApart
  <2>3. count'[m] >= count[m] /\ \A k \in Methods \ {m} : count'[k] = count[k]
    BY <1>1, <1>4 DEF NoWalkState
  <2>4. Aborts(t, m)
    BY <1>2, <1>4, <2>1, <2>2, <2>3 DEF Aborts, NoWalkState, lockVars
  <2> QED  BY <2>2, <2>4
<1> QED  BY <1>3, <1>4 DEF BeginPlain

LEMMA AgainSteps ==
  ASSUME Inv, NEW t \in Threads, NEW m \in Methods, BeginAgain(t, m)
  PROVE  Apart(t) /\ (Enters(t, m, FALSE) \/ Aborts(t, m)) /\ pc'[t] \in {"inside", "report", "outside"}
<1>1. /\ Typing /\ count \in [Methods -> Nat] /\ pc \in [Threads -> Pc]
  BY DEF Inv, Typing, TypeOK
<1>2. /\ UNCHANGED <<level, owner, original>> /\ HasMutex(m) /\ ~OrderViolated(t, m)
      /\ Nested(t) /\ owner[m] = t
  BY DEF BeginAgain, Admitted
<1>3. CASE Push(t, m, FALSE)
  <2>1. Apart(t)  BY <1>1, <1>2, <1>3, PushApart
  <2>2. Nested(t) /\ kind[m] = "serialized" => level[t] <= SyncLevel[m]
    BY <1>1, <1>2, InOrder
  <2>3. Enters(t, m, FALSE)  BY <1>2, <1>3, <2>2 DEF Enters, EntersToo
  <2>4. pc'[t] = "inside"  BY <1>1, <1>3 DEF Push, Run
  <2> QED  BY <2>1, <2>3, <2>4
<1>4. CASE NoWalkState(t, m)
  <2>1. EntryFails(t) /\ skewed' = skewed \cup {t}  BY <1>4 DEF NoWalkState
  <2>2. Apart(t) /\ UNCHANGED <<frames, acquired>> /\ pc'[t] \in {"report", "outside"}
    BY <1>1, <1>2, <2>1, FailApart
  <2>3. count'[m] >= count[m] /\ \A k \in Methods \ {m} : count'[k] = count[k]
    BY <1>1, <1>4 DEF NoWalkState
  <2>4. m \notin damaged  BY <1>4 DEF NoWalkState
  <2>5. \A u \in Threads \ {t} : owner[m] # u /\ ~Executes(u, m)
    BY <1>2, <2>4, AloneElsewhere
  <2>6. Aborts(t, m)
    BY <1>2, <1>4, <2>1, <2>2, <2>3, <2>4, <2>5 DEF Aborts, NoWalkState
  <2> QED  BY <2>2, <2>6
<1> QED  BY <1>3, <1>4 DEF BeginAgain

LEMMA ObtainSteps ==
  ASSUME Inv, NEW t \in Threads, NEW m \in Methods, NEW left, Obtain(t, m, left), HasMutex(m),
         m \notin damaged => owner[m] = Nobody,
         Nested(t) /\ kind[m] = "serialized" => level[t] <= SyncLevel[m]
  PROVE  Apart(t) /\ (Enters(t, m, TRUE) \/ Aborts(t, m)) /\ pc'[t] \in {"inside", "report", "outside"}
<1>1. /\ Typing /\ count \in [Methods -> Nat] /\ pc \in [Threads -> Pc]
      /\ owner \in [Locks -> Threads \cup {Nobody}] /\ original \in [Locks -> 0..15]
      /\ m \in Locks
  BY DEF Inv, Typing, TypeOK, Locks
<1>2. /\ owner'[m] = t /\ original'[m] = (IF Nested(t) THEN level[t] ELSE SyncLevel[m])
      /\ \A l \in Locks \ {m} : owner'[l] = owner[l] /\ original'[l] = original[l]
  BY <1>1 DEF Obtain, Take
<1>3. CASE Push(t, m, TRUE) /\ level' = EntryLevel(t, m)
  <2>1. Apart(t)  BY <1>1, <1>3, EntryLevelApart, PushApart
  <2>2. EntersAlone(t, m)  BY <1>2, <1>3 DEF EntersAlone
  <2>3. Enters(t, m, TRUE)  BY <1>2, <1>3, <2>2 DEF Enters
  <2>4. pc'[t] = "inside"  BY <1>1, <1>3 DEF Push, Run
  <2> QED  BY <2>1, <2>3, <2>4
<1>4. CASE (NoWalkState(t, m) \/ NoOwnerId(t, m))
           /\ level' = (IF Nested(t) THEN EntryLevel(t, m) ELSE level)
  <2>1. EntryFails(t) /\ skewed' = skewed \cup {t} /\ damaged' = damaged \cup {m}
        /\ m \notin damaged /\ UNCHANGED kind
    BY <1>4 DEF NoWalkState, NoOwnerId, methodVars
  <2>2. \A u \in Threads \ {t} : level'[u] = level[u]
    BY <1>1, <1>4, EntryLevelApart
  <2>3. Apart(t) /\ UNCHANGED <<frames, acquired>> /\ pc'[t] \in {"report", "outside"}
    BY <1>1, <2>1, <2>2, FailApart
  <2>4. count'[m] >= count[m] /\ \A k \in Methods \ {m} : count'[k] = count[k]
    BY <1>1, <1>4 DEF NoWalkState, NoOwnerId, methodVars
  <2>5. \A u \in Threads \ {t} : owner[m] # u /\ ~Executes(u, m)
    BY <2>1, AloneElsewhere
  <2>6. Aborts(t, m)  BY <1>2, <2>1, <2>3, <2>4, <2>5 DEF Aborts
  <2> QED  BY <2>3, <2>6
<1> QED  BY <1>3, <1>4 DEF Obtain

LEMMA BeginSteps ==
  ASSUME Inv, WaitOrder, NEW t \in Threads, NEW m \in Methods,
         BeginAtOnce(t, m) \/ BeginDone(t, m)
  PROVE  Apart(t) /\ (Enters(t, m, TRUE) \/ Aborts(t, m)) /\ pc'[t] \in {"inside", "report", "outside"}
<1>1. Typing /\ units \in [Locks -> Nat] /\ m \in Locks
  BY DEF Inv, Typing, TypeOK, Locks
<1>2. CASE BeginAtOnce(t, m)
  <2>1. /\ HasMutex(m) /\ ~OrderViolated(t, m) /\ units[m] > 0
        /\ Obtain(t, m, units[m] - 1)
    BY <1>2 DEF BeginAtOnce, Admitted, NeedsUnit, Available
  <2>2. m \notin damaged => owner[m] = Nobody
    <3>1. m \notin damaged => UnitInOnePlace(m)  BY <1>1 DEF Inv
    <3> QED  BY <1>1, <2>1, <3>1 DEF UnitInOnePlace
  <2> QED  BY <1>1, <2>1, <2>2, InOrder, ObtainSteps
<1>3. CASE BeginDone(t, m)
  <2>1. Coming(t, m) /\ Obtain(t, m, units[m])  BY <1>3 DEF BeginDone, Coming
  <2>2. HasMutex(m)  BY <1>1, <2>1 DEF Typing, Places, Coming
  <2>3. m \notin damaged => owner[m] = Nobody
    BY <1>1, <2>1 DEF Inv, UnitInOnePlace
  <2>4. Nested(t) /\ kind[m] = "serialized" => level[t] <= SyncLevel[m]
    BY <2>1 DEF WaitOrder, Coming
  <2> QED  BY <2>1, <2>2, <2>3, <2>4, ObtainSteps
<1> QED  BY <1>2, <1>3

\* The outermost exit leaves no level; another one restores what its mutex keeps.
LEMMA TerminateApart ==
  ASSUME Inv, NEW t \in Threads, AcpiDsTerminateControlMethod(t)
  PROVE  Apart(t) /\ UNCHANGED original
<1>1. PICK m \in Methods : m = Top(t).method  BY TerminateSteps
<1>2. /\ Unlock(t, m) /\ UNCHANGED wants /\ frames' = [frames EXCEPT ![t] = Front(@)]
      /\ \A u \in Threads \ {t} : pc'[u] = pc[u]
      /\ acquired' = IF Len(frames[t]) = 1 THEN [acquired EXCEPT ![t] = <<>>] ELSE acquired
  BY <1>1, TerminateSteps
<1>3. /\ level \in [Threads -> 0..15] /\ acquired \in [Threads -> Seq(Mutexes)]
      /\ frames \in [Threads -> Seq(Frame)]
  BY DEF Inv, Typing, TypeOK
<1>4. \A u \in Threads \ {t} : level'[u] = level[u]
  BY <1>2, <1>3 DEF Unlock
<1>5. \A u \in Threads \ {t} : u \in skewed' <=> u \in skewed
  BY <1>2 DEF Unlock
<1>6. \A u \in Threads \ {t} : frames'[u] = frames[u] /\ acquired'[u] = acquired[u]
  BY <1>2, <1>3
<1>7. UNCHANGED original  BY <1>2 DEF Unlock
<1> QED  BY <1>2, <1>4, <1>5, <1>6, <1>7 DEF Apart

\* What a thread does.
StepOf(t) == \/ Sleep(t) \/ WakeUp(t) \/ Woken(t) \/ TimedOut(t)
             \/ \E x \in Mutexes : MutexStep(t, x)
             \/ \E m \in Methods : MethodStep(t, m)
             \/ CreateObject(t) \/ AlreadyExists(t)
             \/ EndLast(t) \/ DeleteObjects(t) \/ AcpiDsTerminateControlMethod(t)

\* Every step is one of the above.
LEMMA Classes ==
  ASSUME Inv, WaitOrder, NEW t \in Threads, StepOf(t)
  PROVE  /\ Apart(t)
         /\ \/ Calm
            \/ CreateObject(t)
            \/ \E x \in Mutexes : Links(t, x) \/ Release(t, x)
            \/ \E m \in Methods : Aborts(t, m) \/ Enters(t, m, TRUE) \/ Enters(t, m, FALSE)
            \/ AcpiDsTerminateControlMethod(t)
<1>1. Typing  BY DEF Inv
<1>2. CASE \/ Sleep(t) \/ WakeUp(t) \/ Woken(t) \/ TimedOut(t) \/ AlreadyExists(t)
           \/ EndLast(t) \/ DeleteObjects(t)
  BY <1>1, <1>2, CalmSteps
<1>3. CASE CreateObject(t)  BY <1>1, <1>3, CreateSteps
<1>4. CASE AcpiDsTerminateControlMethod(t)  BY <1>4, TerminateApart
<1>5. ASSUME NEW x \in Mutexes, MutexStep(t, x)
      PROVE  Apart(t) /\ (Calm \/ Links(t, x) \/ Release(t, x))
  <2>1. CASE \/ AcquireRefused(t, x) \/ AcquireAgain(t, x) \/ AcquireWaits(t, x)
             \/ ReleaseRefused(t, x) \/ ReleaseOnce(t, x)
    BY <1>1, <2>1, CalmMutexSteps
  <2>2. CASE AcquireAtOnce(t, x) \/ AcquireDone(t, x)  BY <2>2, LinkSteps
  <2>3. CASE Release(t, x)  BY <2>3, ReleaseSteps
  <2> QED  BY <1>5, <2>1, <2>2, <2>3 DEF MutexStep
<1>6. ASSUME NEW m \in Methods, MethodStep(t, m)
      PROVE  Apart(t) /\ (Calm \/ Aborts(t, m) \/ Enters(t, m, TRUE) \/ Enters(t, m, FALSE))
  <2>1. CASE MethodRefused(t, m) \/ BeginWaits(t, m)  BY <1>1, <2>1, CalmMethodSteps
  <2>2. CASE BeginPlain(t, m)  BY <2>2, PlainSteps
  <2>3. CASE BeginAgain(t, m)  BY <2>3, AgainSteps
  <2>4. CASE BeginAtOnce(t, m) \/ BeginDone(t, m)  BY <2>4, BeginSteps
  <2> QED  BY <1>6, <2>1, <2>2, <2>3, <2>4 DEF MethodStep
<1> QED  BY <1>2, <1>3, <1>4, <1>5, <1>6 DEF StepOf

\* A thread begins to wait, gets a unit, and leaves to delete objects in these only.
LEMMA WhereTo ==
  ASSUME Inv, WaitOrder, NEW t \in Threads, StepOf(t)
  PROVE  /\ pc'[t] \in {"wait", "woken"} => \/ Woken(t)
                                            \/ \E x \in Mutexes : AcquireWaits(t, x)
                                            \/ \E m \in Methods : BeginWaits(t, m)
         /\ pc'[t] \in {"delete", "deleted"} => EndLast(t) \/ DeleteObjects(t)
<1>1. pc \in [Threads -> Pc]  BY DEF Inv, Typing, TypeOK
<1>2. CASE \/ Sleep(t) \/ WakeUp(t) \/ TimedOut(t) \/ AlreadyExists(t)
  BY <1>1, <1>2 DEF Sleep, WakeUp, TimedOut, AlreadyExists, Fails, Leave, Run
<1>3. CASE Woken(t)  BY <1>1, <1>3 DEF Woken
<1>4. CASE EndLast(t) \/ DeleteObjects(t)
  BY <1>1, <1>4 DEF EndLast, DeleteObjects, Leave
<1>5. CASE CreateObject(t)  BY <1>5 DEF CreateObject, Inside
<1>6. CASE AcpiDsTerminateControlMethod(t)
  BY <1>1, <1>6 DEF AcpiDsTerminateControlMethod, Leave, Run
<1>7. ASSUME NEW x \in Mutexes, MutexStep(t, x)
      PROVE  \/ pc'[t] = "wait" /\ AcquireWaits(t, x)
             \/ pc'[t] \in {"inside", "report"}
  <2>1. CASE AcquireRefused(t, x) \/ ReleaseRefused(t, x)
    BY <1>1, <2>1 DEF AcquireRefused, ReleaseRefused, Fails, Leave
  <2>2. CASE AcquireAgain(t, x) \/ ReleaseOnce(t, x) \/ AcquireAtOnce(t, x) \/ Release(t, x)
    BY <2>2 DEF AcquireAgain, ReleaseOnce, AcquireAtOnce, Release, Inside, threadVars
  <2>3. CASE AcquireWaits(t, x)  BY <1>1, <2>3 DEF AcquireWaits, WaitOutside, Leave
  <2>4. CASE AcquireDone(t, x)  BY <1>1, <2>4 DEF AcquireDone, Run
  <2> QED  BY <1>7, <2>1, <2>2, <2>3, <2>4 DEF MutexStep
<1>8. ASSUME NEW m \in Methods, MethodStep(t, m)
      PROVE  \/ pc'[t] = "wait" /\ BeginWaits(t, m)
             \/ pc'[t] \in {"inside", "report", "outside"}
  <2>1. CASE MethodRefused(t, m)  BY <1>1, <2>1 DEF MethodRefused, EntryFails, Leave
  <2>2. CASE BeginWaits(t, m)  BY <1>1, <2>2 DEF BeginWaits, WaitOutside, Leave
  <2>3. CASE BeginPlain(t, m)  BY <2>3, PlainSteps
  <2>4. CASE BeginAgain(t, m)  BY <2>4, AgainSteps
  <2>5. CASE BeginAtOnce(t, m) \/ BeginDone(t, m)  BY <2>5, BeginSteps
  <2> QED  BY <1>8, <2>1, <2>2, <2>3, <2>4, <2>5 DEF MethodStep
<1> QED  BY <1>2, <1>3, <1>4, <1>5, <1>6, <1>7, <1>8 DEF StepOf

-----------------------------------------------------------------------------
(* Waiting                                                                 *)

\* The thread count of a method, also of one that failed, is not below its entries.
Covered(m) == IsFiniteSet(Entries(m)) /\ Cardinality(Entries(m)) <= count[m]

\* A method is serialized on its own by another kind than one declared so.
Declared == \A m \in Methods : kind[m] = "serialized" <=> m \in Serialized

\* A thread has the mutexes of methods it is in, and AML mutexes only when it is in one.
OwnersIn ==
    \A t \in Threads :
        /\ \A m \in Methods \ damaged : owner[m] = t => Executes(t, m)
        /\ frames[t] = <<>> => acquired[t] = <<>>

Order == /\ \A m \in Methods : Covered(m)
         /\ Declared
         /\ OwnersIn
         /\ WaitOrder

LEMMA CoveredSame ==
  ASSUME NEW m \in Methods, count \in [Methods -> Nat], count' \in [Methods -> Nat],
         Covered(m), Entries(m)' = Entries(m), count'[m] >= count[m]
  PROVE  Covered(m)'
<1>1. Cardinality(Entries(m)) \in Nat  BY FS_CardinalityType DEF Covered
<1> QED  BY <1>1 DEF Covered

LEMMA CoveredStep ==
  ASSUME Inv, Typing', WaitOrder, \A m \in Methods : Covered(m), NEW t \in Threads, StepOf(t)
  PROVE  \A m \in Methods : Covered(m)'
<1>1. /\ count \in [Methods -> Nat] /\ count' \in [Methods -> Nat] /\ Typing
  BY DEF Inv, Typing, TypeOK
<1>2. \A m \in Methods : count[m] >= count[m]  BY <1>1
<1>3. CASE Calm \/ \E x \in Mutexes : Links(t, x) \/ Release(t, x)
  <2>1. UNCHANGED <<frames, count>>
    BY <1>3, ReleaseSteps DEF Calm, Links, Link, methodVars
  <2> QED  BY <1>1, <1>2, <2>1, FramesSame, CoveredSame
<1>4. CASE CreateObject(t)
  <2>1. UNCHANGED count  BY <1>4 DEF CreateObject
  <2> QED  BY <1>1, <1>2, <1>4, <2>1, FramesMade, CoveredSame
<1>5. ASSUME NEW k \in Methods, Aborts(t, k)
      PROVE  \A m \in Methods : Covered(m)'
  <2>1. UNCHANGED frames /\ \A m \in Methods : count'[m] >= count[m]
    BY <1>2, <1>5 DEF Aborts
  <2> QED  BY <1>1, <2>1, FramesSame, CoveredSame
<1>6. ASSUME NEW k \in Methods, NEW took \in BOOLEAN, Enters(t, k, took)
      PROVE  \A m \in Methods : Covered(m)'
  <2>1. Push(t, k, took) /\ count' = [count EXCEPT ![k] = count[k] + 1]
    BY <1>6 DEF Enters, Push
  <2>2. \A m \in Methods \ {k} : Covered(m)'
    BY <1>1, <1>2, <2>1, PushedElsewhere, CoveredSame
  <2>3. PICK n \in Nat : n = Len(frames[t]) + 1  BY <1>1 DEF Typing, TypeOK
  <2>4. Entries(k)' = Entries(k) \cup {<<t, n>>} /\ <<t, n>> \notin Entries(k)
    BY <1>1, <2>1, <2>3, FramesPushed
  <2>5. /\ IsFiniteSet(Entries(k)) /\ Cardinality(Entries(k)) <= count[k]
        /\ Cardinality(Entries(k)) \in Nat
    BY FS_CardinalityType DEF Covered
  <2> DEFINE e == <<t, n>>
  <2>6. Entries(k)' = Entries(k) \cup {e} /\ e \notin Entries(k)  BY <2>4
  <2> HIDE DEF e
  <2>7. /\ IsFiniteSet(Entries(k) \cup {e})
        /\ Cardinality(Entries(k) \cup {e}) = Cardinality(Entries(k)) + 1
    BY <2>5, <2>6, FS_AddElement
  <2>8. count'[k] = count[k] + 1 /\ count[k] \in Nat  BY <1>1, <2>1
  <2>9. Cardinality(Entries(k)') <= count'[k]  BY <2>5, <2>6, <2>7, <2>8
  <2>10. Covered(k)'  BY <2>6, <2>7, <2>9 DEF Covered
  <2> QED  BY <2>2, <2>10
<1>7. CASE AcpiDsTerminateControlMethod(t)
  <2>1. PICK k \in Methods : k = Top(t).method  BY <1>7, TerminateSteps
  <2>2. frames[t] # <<>> /\ frames' = [frames EXCEPT ![t] = Front(@)]  BY <1>7, TerminateSteps
  <2>3. /\ count'[k] = IF count[k] > 0 THEN count[k] - 1 ELSE count[k]
        /\ \A m \in Methods \ {k} : count'[m] = count[m]
    BY <1>7, <2>1, TerminateCounts
  <2>4. PICK n \in Nat : n = Len(frames[t])  BY <1>1 DEF Typing, TypeOK
  <2>5. \A m \in Methods \ {k} : Covered(m)'
    <3>1. \A m \in Methods \ {k} : Entries(m)' = Entries(m)
      BY <1>1, <2>1, <2>2, <2>4, PoppedElsewhere
    <3> QED  BY <1>1, <1>2, <2>3, <3>1, CoveredSame
  <2> DEFINE e == <<t, n>>
  <2>6. Entries(k)' = Entries(k) \ {e} /\ e \in Entries(k)
    BY <1>1, <2>1, <2>2, <2>4, FramesPopped
  <2> HIDE DEF e
  <2>7. /\ IsFiniteSet(Entries(k)) /\ Cardinality(Entries(k)) <= count[k]
        /\ Cardinality(Entries(k)) \in Nat
    BY FS_CardinalityType DEF Covered
  <2>8. /\ IsFiniteSet(Entries(k) \ {e})
        /\ Cardinality(Entries(k) \ {e}) = Cardinality(Entries(k)) - 1
    BY <2>6, <2>7, FS_RemoveElement
  <2>9. Cardinality(Entries(k) \ {e}) \in Nat  BY <2>8, FS_CardinalityType
  <2>10. Cardinality(Entries(k)') <= count'[k]
    <3>1. count[k] \in Nat  BY <1>1
    <3> QED  BY <2>3, <2>6, <2>7, <2>8, <2>9, <3>1
  <2>11. Covered(k)'  BY <2>6, <2>8, <2>10 DEF Covered
  <2> QED  BY <2>5, <2>11
<1> QED  BY <1>3, <1>4, <1>5, <1>6, <1>7, Classes

\* A method keeps its mutex, and gets one only while nobody is in it.
LEMMA KindsStep ==
  ASSUME Inv, Typing', WaitOrder, \A m \in Methods : Covered(m)', NEW t \in Threads, StepOf(t)
  PROVE  \A m \in Methods :
           /\ kind'[m] = "serialized" <=> kind[m] = "serialized"
           /\ HasMutex(m) => HasMutex(m)'
           /\ \A u \in Threads : HasMutex(m)' /\ Executes(u, m)' => HasMutex(m)
<1>1. CASE SameKinds  BY <1>1 DEF SameKinds
<1>2. CASE ~AcpiDsTerminateControlMethod(t)
  <2>1. CASE Calm  BY <1>1, <2>1 DEF Calm
  <2>2. CASE ~Calm
    <3>1. UNCHANGED kind
      BY <1>2, <2>2, Classes, ReleaseSteps DEF CreateObject, Links, Link, methodVars, Aborts,
         Enters, Push
    <3> QED  BY <1>1, <3>1 DEF SameKinds, HasMutex
  <2> QED  BY <2>1, <2>2
<1>3. CASE AcpiDsTerminateControlMethod(t)
  <2>1. PICK k \in Methods : k = Top(t).method  BY <1>3, TerminateSteps
  <2>2. /\ \A m \in Methods \ {k} : HasMutex(m)' <=> HasMutex(m)
        /\ HasMutex(k) => HasMutex(k)'
        /\ HasMutex(k)' => HasMutex(k) \/ count'[k] = 0
    BY <1>3, <2>1, TerminateCounts
  <2>3. count'[k] = 0 => \A u \in Threads : ~Executes(u, k)'
    <3> SUFFICES ASSUME count'[k] = 0 PROVE \A u \in Threads : ~Executes(u, k)'
      OBVIOUS
    <3>1. IsFiniteSet(Entries(k)') /\ Cardinality(Entries(k)') <= 0
      BY DEF Covered
    <3>2. Cardinality(Entries(k)') = 0  BY <3>1, FS_CardinalityType
    <3>3. Entries(k)' = {}  BY <3>1, <3>2, FS_EmptySet
    <3>4. \A u \in Threads : \A i \in FramesOf(u, k)' : <<u, i>> \in Entries(k)'
      BY DEF Entries
    <3> QED  BY <3>3, <3>4 DEF Executes
  <2>4. \A m \in Methods : kind'[m] = "serialized" <=> kind[m] = "serialized"
    <3>1. Typing  BY DEF Inv
    <3>2. kind' = [Marked(t) EXCEPT ![k] = IF count'[k] = 0 /\ @ = "pending" THEN "ignored" ELSE @]
      BY <1>3, <2>1 DEF AcpiDsTerminateControlMethod
    <3>3. \A m \in Methods : kind'[m] = "serialized" <=> Marked(t)[m] = "serialized"
      BY <3>1, <3>2, MarkedIsKind
    <3> QED  BY <3>1, <3>3, MarkedSerialized
  <2> QED  BY <2>2, <2>3, <2>4
<1> QED  BY <1>2, <1>3

\* The locks of the other threads stay theirs, with what is restored at their release.
LEMMA OthersKeep ==
  ASSUME Inv, WaitOrder, NEW t \in Threads, StepOf(t), NEW u \in Threads \ {t},
         NEW l \in Locks, l \notin damaged'
  PROVE  /\ owner'[l] = u <=> owner[l] = u
         /\ owner[l] = u => original'[l] = original[l]
<1>1. /\ owner \in [Locks -> Threads \cup {Nobody}] /\ original \in [Locks -> 0..15]
      /\ acquired \in [Threads -> Seq(Mutexes)] /\ Typing
      /\ Nobody \notin Threads /\ Mutexes \subseteq Locks /\ Methods \subseteq Locks
      /\ Mutexes \cap Methods = {}
  BY MethodAssumption DEF Inv, Typing, TypeOK, Locks
<1>2. CASE Calm  BY <1>2 DEF Calm
<1>3. CASE CreateObject(t)  BY <1>1, <1>3, CreateSteps
<1>4. ASSUME NEW x \in Mutexes, Links(t, x)
      PROVE  /\ owner'[l] = u <=> owner[l] = u
             /\ owner[l] = u => original'[l] = original[l]
  BY <1>1, <1>4 DEF Links, Link
<1>5. ASSUME NEW x \in Mutexes, Release(t, x)
      PROVE  /\ owner'[l] = u <=> owner[l] = u
             /\ owner[l] = u => original'[l] = original[l]
  <2>1. owner[x] = t /\ owner' = [owner EXCEPT ![x] = Nobody]  BY <1>5, ReleaseSteps
  <2>2. PICK i \in DOMAIN acquired[t] : Migrate(t, i)  BY <1>5 DEF Release
  <2>3. owner[l] = u => original'[l] = original[l]
    <3>1. CASE i = 1  BY <2>2, <3>1 DEF Migrate
    <3>2. CASE i # 1
      <4>1. acquired[t] \in Seq(Mutexes)  BY <1>1
      <4>2. i - 1 \in 1..Len(acquired[t])
        <5>1. i \in 1..Len(acquired[t]) /\ Len(acquired[t]) \in Nat  BY <4>1
        <5> QED  BY <3>2, <5>1
      <4>3. acquired[t][i - 1] \in Mutexes  BY <4>1, <4>2
      <4>4. owner[acquired[t][i - 1]] = t  BY <4>2, <4>3 DEF Inv, Listed, Contains
      <4>5. original' = [original EXCEPT ![acquired[t][i - 1]] = original[acquired[t][i]]]
        BY <2>2, <3>2 DEF Migrate
      <4> QED  BY <1>1, <4>4, <4>5
    <3> QED  BY <3>1, <3>2
  <2> QED  BY <1>1, <2>1, <2>3
<1>6. ASSUME NEW m \in Methods, Aborts(t, m)
      PROVE  /\ owner'[l] = u <=> owner[l] = u
             /\ owner[l] = u => original'[l] = original[l]
  BY <1>1, <1>6 DEF Aborts
<1>7. ASSUME NEW m \in Methods, NEW took \in BOOLEAN, Enters(t, m, took)
      PROVE  /\ owner'[l] = u <=> owner[l] = u
             /\ owner[l] = u => original'[l] = original[l]
  <2>1. damaged' = damaged  BY <1>7 DEF Enters, Push
  <2>2. CASE l # m  BY <1>7, <2>2 DEF Enters
  <2>3. CASE l = m /\ took  BY <1>1, <1>7, <2>1, <2>3 DEF Enters, EntersAlone
  <2>4. CASE l = m /\ ~took  BY <1>7, <2>4 DEF Enters, EntersToo
  <2> QED  BY <2>2, <2>3, <2>4
<1>8. CASE AcpiDsTerminateControlMethod(t)
  <2>1. PICK m \in Methods : m = Top(t).method  BY <1>8, TerminateSteps
  <2>2. PICK all : all = IF Len(frames[t]) = 1 THEN ToSet(acquired[t]) ELSE {}  OBVIOUS
  <2>3. Unlock(t, m) /\ UNCHANGED damaged  BY <1>8, <2>1, TerminateSteps
  <2>4. all \subseteq Mutexes /\ \A x \in all : owner[x] = t  BY <2>2, UnlockedMutexes
  <2>5. /\ \A k \in all : owner'[k] = Nobody
        /\ \A k \in Locks \ (all \cup {m}) : owner'[k] = owner[k]
    BY <2>2, <2>3, <2>4, UnlockFrees
  <2>6. m \notin damaged' => owner'[m] = owner[m] \/ (owner[m] = t /\ owner'[m] = Nobody)
    <3>1. IF HasMutex(m) /\ depth[m] = 1 THEN owner'[m] = Nobody ELSE owner'[m] = owner[m]
      BY <2>3, UnlockLeaves
    <3> SUFFICES ASSUME m \notin damaged', HasMutex(m) PROVE owner[m] = t
      BY <3>1
    <3>2. Executes(t, m)
      <4>1. frames[t] # <<>>  BY <1>8, TerminateSteps
      <4>2. Len(frames[t]) \in DOMAIN frames[t]  BY <1>1, <4>1, TopIsFrame DEF Typing, TypeOK
      <4> QED  BY <2>1, <4>2 DEF Executes, FramesOf, Top
    <3> QED  BY <2>3, <3>2 DEF Inv, MutexFollows
  <2>7. UNCHANGED original  BY <1>8, TerminateApart
  <2> QED  BY <1>1, <2>4, <2>5, <2>6, <2>7
<1> QED  BY <1>2, <1>3, <1>4, <1>5, <1>6, <1>7, <1>8, Classes

LEMMA PushedIsExecuted ==
  ASSUME Typing, NEW t \in Threads, NEW m \in Methods, NEW took \in BOOLEAN, Push(t, m, took)
  PROVE  FramesOf(t, m)' # {}
<1>1. PICK n \in Nat : n = Len(frames[t]) + 1  BY DEF Typing, TypeOK
<1>2. DOMAIN frames'[t] = 1..n /\ frames'[t][n].method = m  BY <1>1, FrameAppended
<1>3. n \in 1..n
  <2>1. Len(frames[t]) \in Nat  BY DEF Typing, TypeOK
  <2> QED  BY <1>1, <2>1
<1> QED  BY <1>2, <1>3 DEF FramesOf

LEMMA DamageGrows ==
  ASSUME Inv, WaitOrder, NEW t \in Threads, StepOf(t)
  PROVE  damaged \subseteq damaged'
<1>1. CASE Calm  BY <1>1 DEF Calm
<1>2. CASE CreateObject(t)  BY <1>2 DEF CreateObject, history
<1>3. ASSUME NEW x \in Mutexes, Links(t, x) \/ Release(t, x)
      PROVE  damaged \subseteq damaged'
  BY <1>3, ReleaseSteps DEF Links, Link, history
<1>4. ASSUME NEW m \in Methods, Aborts(t, m) \/ Enters(t, m, TRUE) \/ Enters(t, m, FALSE)
      PROVE  damaged \subseteq damaged'
  BY <1>4 DEF Aborts, Enters, Push
<1>5. CASE AcpiDsTerminateControlMethod(t)  BY <1>5, TerminateSteps
<1> QED  BY <1>1, <1>2, <1>3, <1>4, <1>5, Classes

\* The thread's own locks: it takes those of what it enters, and leaves them with it.
LEMMA OwnersStep ==
  ASSUME Inv, Inv', WaitOrder, OwnersIn, \A m \in Methods : Covered(m)',
         NEW t \in Threads, StepOf(t)
  PROVE  OwnersIn'
<1>1. /\ owner \in [Locks -> Threads \cup {Nobody}] /\ Typing /\ Typing'
      /\ acquired \in [Threads -> Seq(Mutexes)] /\ frames \in [Threads -> Seq(Frame)]
      /\ Nobody \notin Threads /\ Methods \subseteq Locks /\ Mutexes \subseteq Locks
      /\ Mutexes \cap Methods = {}
  BY MethodAssumption DEF Inv, Typing, TypeOK, Locks
<1>2. damaged \subseteq damaged'  BY DamageGrows
<1>3. ASSUME NEW u \in Threads \ {t}
      PROVE  /\ \A m \in Methods \ damaged' : owner'[m] = u => Executes(u, m)'
             /\ frames'[u] = <<>> => acquired'[u] = <<>>
  <2>1. frames'[u] = frames[u] /\ acquired'[u] = acquired[u]  BY Classes DEF Apart
  <2>2. \A m \in Methods : FramesOf(u, m)' = FramesOf(u, m)  BY <2>1 DEF FramesOf
  <2>3. \A m \in Methods \ damaged' : owner'[m] = u => owner[m] = u
    BY <1>1, OthersKeep
  <2> QED  BY <1>2, <2>1, <2>2, <2>3 DEF OwnersIn, Executes
<1>4. frames'[t] = <<>> => acquired'[t] = <<>>
  <2>1. CASE Calm \/ \E m \in Methods : Aborts(t, m)
    BY <2>1 DEF Calm, Aborts, OwnersIn
  <2>2. CASE CreateObject(t) \/ \E x \in Mutexes : Links(t, x) \/ Release(t, x)
    <3>1. pc'[t] = "inside"
      BY <2>2 DEF CreateObject, Release, Links, Inside, threadVars
    <3> QED  BY <1>1, <3>1 DEF Typing, Places
  <2>3. CASE \E m \in Methods : Enters(t, m, TRUE) \/ Enters(t, m, FALSE)
    <3>1. pc'[t] = "inside"
      <4>1. pc \in [Threads -> Pc]  BY <1>1 DEF Typing, TypeOK
      <4> QED  BY <2>3, <4>1 DEF Enters, Push, Run
    <3> QED  BY <1>1, <3>1 DEF Typing, Places
  <2>4. CASE AcpiDsTerminateControlMethod(t)
    <3>1. /\ frames[t] # <<>> /\ frames' = [frames EXCEPT ![t] = Front(@)]
          /\ acquired' = IF Len(frames[t]) = 1 THEN [acquired EXCEPT ![t] = <<>>] ELSE acquired
      BY <2>4, TerminateSteps
    <3>2. Len(frames[t]) # 1 => frames'[t] # <<>>
      BY <1>1, <3>1, PoppedIsFrames
    <3> QED  BY <1>1, <3>1, <3>2
  <2> QED  BY <2>1, <2>2, <2>3, <2>4, Classes
<1>5. ASSUME NEW m \in Methods \ damaged', owner'[m] = t
      PROVE  Executes(t, m)'
  <2>1. CASE owner[m] = t /\ FramesOf(t, m) \subseteq FramesOf(t, m)'
    BY <1>2, <2>1 DEF OwnersIn, Executes
  <2>2. CASE Calm
    <3>1. owner[m] = t /\ UNCHANGED frames  BY <1>5, <2>2 DEF Calm
    <3> QED  BY <2>1, <3>1, FramesSame
  <2>3. CASE CreateObject(t)
    <3>1. owner[m] = t  BY <1>1, <1>5, <2>3, CreateSteps
    <3> QED  BY <1>1, <2>1, <2>3, <3>1, FramesMade
  <2>4. CASE \E x \in Mutexes : Links(t, x) \/ Release(t, x)
    <3>1. owner[m] = t /\ UNCHANGED frames
      BY <1>1, <1>5, <2>4, ReleaseSteps DEF Links, Link
    <3> QED  BY <2>1, <3>1, FramesSame
  <2>5. CASE \E k \in Methods : Aborts(t, k)
    <3>1. owner[m] = t /\ UNCHANGED frames  BY <1>1, <1>5, <2>5 DEF Aborts
    <3> QED  BY <2>1, <3>1, FramesSame
  <2>6. ASSUME NEW k \in Methods, NEW took \in BOOLEAN, Enters(t, k, took)
        PROVE  Executes(t, m)'
    <3>1. Push(t, k, took)  BY <2>6 DEF Enters
    <3>2. CASE m = k
      <4>1. FramesOf(t, k)' # {}  BY <1>1, <3>1, PushedIsExecuted
      <4> QED  BY <3>2, <4>1 DEF Executes
    <3>3. CASE m # k
      <4>1. owner[m] = t  BY <1>1, <1>5, <2>6, <3>3 DEF Enters
      <4>2. FramesOf(t, m)' = FramesOf(t, m)  BY <1>1, <3>1, <3>3, PushedElsewhere
      <4> QED  BY <2>1, <4>1, <4>2
    <3> QED  BY <3>2, <3>3
  <2>7. CASE AcpiDsTerminateControlMethod(t)
    <3>1. PICK k \in Methods : k = Top(t).method  BY <2>7, TerminateSteps
    <3>2. /\ frames[t] # <<>> /\ frames' = [frames EXCEPT ![t] = Front(@)]
          /\ Unlock(t, k) /\ UNCHANGED damaged
      BY <2>7, <3>1, TerminateSteps
    <3>3. PICK n \in Nat : n = Len(frames[t])  BY <1>1
    <3>4. CASE m = k
      <4>1. HasMutex(m)' /\ MutexFollows(m)'
        <5>1. MutexFollows(m)' /\ (HasMutex(m)' \/ owner'[m] = Nobody)
          BY <1>5 DEF Inv, MutexFollows
        <5> QED  BY <1>1, <1>5, <5>1
      <4>2. depth'[m] = Cardinality(FramesOf(t, m)')  BY <1>5, <4>1 DEF MutexFollows
      <4>3. IF HasMutex(m) /\ depth[m] = 1 THEN owner'[m] = Nobody
            ELSE owner'[m] = owner[m]
        BY <3>2, <3>4, UnlockLeaves
      <4>4. owner[m] = t /\ HasMutex(m) /\ depth[m] # 1
        <5>1. owner[m] = t /\ ~(HasMutex(m) /\ depth[m] = 1)  BY <1>1, <1>5, <4>3
        <5>2. HasMutex(m)  BY <1>1, <1>2, <5>1 DEF Inv, MutexFollows
        <5> QED  BY <5>1, <5>2
      <4>5. depth'[m] = depth[m] - 1  BY <3>2, <3>4, <4>4, UnlockLeaves
      <4>6. depth[m] \in Int  BY <1>1 DEF Typing, TypeOK
      <4>7. Cardinality(FramesOf(t, m)') # 0  BY <4>2, <4>4, <4>5, <4>6
      <4> QED  BY <4>7, FS_EmptySet DEF Executes
    <3>5. CASE m # k
      <4>1. owner[m] = t
        <5>1. PICK all : all = IF Len(frames[t]) = 1 THEN ToSet(acquired[t]) ELSE {}  OBVIOUS
        <5>2. all \subseteq Mutexes  BY <5>1, UnlockedMutexes
        <5>3. owner'[m] = owner[m]
          <6>1. m \in Locks \ (all \cup {k})  BY <1>1, <3>5, <5>2
          <6>2. \A l \in Locks \ (all \cup {k}) : owner'[l] = owner[l]
            BY <3>2, <5>1, <5>2, UnlockFrees
          <6> QED  BY <6>1, <6>2
        <5> QED  BY <1>5, <5>3
      <4>2. FramesOf(t, m)' = FramesOf(t, m)  BY <1>1, <3>1, <3>2, <3>3, <3>5, PoppedElsewhere
      <4> QED  BY <2>1, <4>1, <4>2
    <3> QED  BY <3>4, <3>5
  <2> QED  BY <2>2, <2>3, <2>4, <2>5, <2>6, <2>7, Classes
<1> QED  BY <1>3, <1>4, <1>5 DEF OwnersIn

\* What the other threads wait for is not disturbed; a thread begins to wait in order.
LEMMA WaitOrderStep ==
  ASSUME Inv, OwnersIn, WaitOrder, NEW t \in Threads, StepOf(t),
         \A m \in Methods : kind'[m] = "serialized" <=> kind[m] = "serialized"
  PROVE  WaitOrder'
<1>1. /\ Typing /\ pc \in [Threads -> Pc] /\ wants \in [Threads -> Locks \cup {Nobody}]
      /\ frames \in [Threads -> Seq(Frame)] /\ Mutexes \cap Methods = {}
      /\ Mutexes \subseteq Locks /\ Methods \subseteq Locks
      /\ level \in [Threads -> 0..15] /\ SyncLevel \in [Locks -> 0..15]
  BY MethodAssumption DEF Inv, Typing, TypeOK, Locks
<1>2. damaged \subseteq damaged'  BY DamageGrows
<1> SUFFICES ASSUME NEW u \in Threads, pc'[u] \in {"wait", "woken"}
             PROVE  /\ /\ frames'[u] # <<>>
                       /\ wants'[u] \in Methods => kind'[wants'[u]] = "serialized"
                      => level'[u] <= SyncLevel[wants'[u]]
                    /\ wants'[u] \notin damaged' => owner'[wants'[u]] # u
  BY DEF WaitOrder, Nested
<1>3. CASE u # t
  <2>1. /\ pc'[u] = pc[u] /\ wants'[u] = wants[u] /\ frames'[u] = frames[u]
        /\ level'[u] = level[u]
    BY <1>3, Classes DEF Apart
  <2>2. wants[u] \in Locks  BY <1>1, <2>1 DEF Typing, Places
  <2>3. /\ frames[u] # <<>> /\ (wants[u] \in Methods => kind[wants[u]] = "serialized")
               => level[u] <= SyncLevel[wants[u]]
        /\ wants[u] \notin damaged => owner[wants[u]] # u
    BY <2>1 DEF WaitOrder, Nested
  <2>4. wants[u] \notin damaged' => (owner'[wants[u]] = u <=> owner[wants[u]] = u)
    BY <1>3, <2>2, OthersKeep
  <2> QED  BY <1>2, <2>1, <2>3, <2>4
<1>4. CASE u = t
  <2>1. CASE Woken(t)
    <3>1. pc[t] = "wait" /\ UNCHANGED <<wants, frames, level, owner, damaged, kind>>
      BY <2>1 DEF Woken, methodVars, history
    <3>2. /\ frames[t] # <<>> /\ (wants[t] \in Methods => kind[wants[t]] = "serialized")
                 => level[t] <= SyncLevel[wants[t]]
          /\ wants[t] \notin damaged => owner[wants[t]] # t
      BY <3>1 DEF WaitOrder, Nested
    <3> QED  BY <1>4, <3>1, <3>2
  <2>2. ASSUME NEW x \in Mutexes, AcquireWaits(t, x)
        PROVE  level'[t] <= SyncLevel[wants'[t]] /\ owner'[wants'[t]] # t
    <3>1. /\ wants'[t] = x /\ UNCHANGED <<level, owner>> /\ owner[x] # t /\ ~TooHigh(t, x)
      BY <1>1, <2>2 DEF AcquireWaits, WaitOutside, lockVars
    <3>2. level[t] \in 0..15 /\ SyncLevel[x] \in 0..15  BY <1>1
    <3>3. level[t] <= SyncLevel[x]  BY <3>1, <3>2 DEF TooHigh
    <3> QED  BY <3>1, <3>3
  <2>3. ASSUME NEW m \in Methods, BeginWaits(t, m)
        PROVE  /\ wants'[t] = m
               /\ frames'[t] # <<>> /\ kind'[m] = "serialized" => level'[t] <= SyncLevel[m]
               /\ m \notin damaged' => owner'[m] # t
    <3>1. /\ wants'[t] = m /\ UNCHANGED <<level, owner, frames, damaged>>
          /\ ~OrderViolated(t, m) /\ NeedsUnit(t, m)
      BY <1>1, <2>3 DEF BeginWaits, Admitted, WaitOutside, lockVars, history
    <3>2. frames[t] # <<>> /\ kind[m] = "serialized" => level[t] <= SyncLevel[m]
      BY <1>1, <3>1, InOrder DEF Nested
    <3>3. m \notin damaged => owner[m] # t
      <4>1. frames[t] = <<>> => ~Executes(t, m)  BY DEF Executes, FramesOf
      <4>2. m \notin damaged /\ owner[m] = t => Executes(t, m)  BY DEF OwnersIn
      <4> QED  BY <3>1, <4>1, <4>2 DEF NeedsUnit, Nested
    <3> QED  BY <3>1, <3>2, <3>3
  <2> QED  BY <1>4, <2>1, <2>2, <2>3, WhereTo
<1> QED  BY <1>3, <1>4

LEMMA OrderInit == Init => Order
<1> SUFFICES ASSUME Init PROVE Order  OBVIOUS
<1>1. /\ \A t \in Threads : pc[t] = "outside" /\ frames[t] = <<>> /\ acquired[t] = <<>>
      /\ \A m \in Methods : owner[m] = Nobody /\ count[m] = 0
      /\ \A m \in Methods : kind[m] = IF m \in Serialized THEN "serialized" ELSE "plain"
  BY DEF Init, Locks
<1>2. \A m \in Methods : Entries(m) = {}
  <2>1. \A t \in Threads, m \in Methods : FramesOf(t, m) = {}  BY <1>1 DEF FramesOf
  <2> QED  BY <2>1 DEF Entries
<1>3. \A m \in Methods : Covered(m)
  <2>1. IsFiniteSet({}) /\ Cardinality({}) = 0  BY FS_EmptySet
  <2> SUFFICES ASSUME NEW m \in Methods PROVE Covered(m)  OBVIOUS
  <2>2. Entries(m) = {} /\ count[m] = 0  BY <1>1, <1>2
  <2>3. IsFiniteSet(Entries(m)) /\ Cardinality(Entries(m)) = 0  BY <2>1, <2>2
  <2> QED  BY <2>2, <2>3 DEF Covered
<1>4. Nobody \notin Threads  BY MethodAssumption
<1> QED  BY <1>1, <1>3, <1>4 DEF Order, Declared, OwnersIn, WaitOrder

\* Together they hold after every step.
LEMMA OrderStep ==
  ASSUME Inv, Order, Inv', NEW t \in Threads, StepOf(t)
  PROVE  Order'
<1>1. Typing' /\ WaitOrder /\ OwnersIn /\ Declared /\ \A m \in Methods : Covered(m)
  BY DEF Inv, Order
<1>2. \A m \in Methods : Covered(m)'  BY <1>1, CoveredStep
<1>3. \A m \in Methods : kind'[m] = "serialized" <=> kind[m] = "serialized"
  BY <1>1, <1>2, KindsStep
<1>4. Declared'  BY <1>1, <1>3 DEF Declared
<1>5. OwnersIn'  BY <1>1, <1>2, OwnersStep
<1>6. WaitOrder'  BY <1>1, <1>3, WaitOrderStep
<1> QED  BY <1>2, <1>4, <1>5, <1>6 DEF Order

-----------------------------------------------------------------------------
(* Objects                                                                 *)

\* A thread that has gone to delete the objects of a method with a mutex is the last in it.
LeavesAlone ==
    \A t \in Threads :
        LET m == Top(t).method IN
        pc[t] \in {"delete", "deleted"} /\ HasMutex(m) /\ m \notin damaged => count[m] = 1

\* Nothing but the end of the method follows the deletion.
LEMMA DeletedEnds ==
  ASSUME NEW t \in Threads, StepOf(t), pc[t] = "deleted"
  PROVE  AcpiDsTerminateControlMethod(t)
<1>1. ~Inside(t) /\ pc[t] \notin {"asleep", "wait", "woken", "delete", "outside", "inside", "report"}
  BY DEF Inside
<1>2. \A x \in Mutexes : ~MutexStep(t, x)
  BY <1>1 DEF MutexStep, AcquireRefused, AcquireAgain, AcquireAtOnce, AcquireWaits, AcquireDone,
     ReleaseRefused, ReleaseOnce, Release
<1>3. \A m \in Methods : ~MethodStep(t, m)
  BY <1>1 DEF MethodStep, MethodRefused, BeginPlain, BeginAgain, BeginAtOnce, BeginWaits,
     BeginDone, Admitted, Starts
<1> QED  BY <1>1, <1>2, <1>3 DEF StepOf, Sleep, WakeUp, Woken, TimedOut, CreateObject,
         AlreadyExists, EndLast, Ending, DeleteObjects

LEMMA ObjectSteps ==
  ASSUME NEW t \in Threads, StepOf(t), ~CreateObject(t), ~DeleteObjects(t)
  PROVE  UNCHANGED object
<1>1. CASE \/ Sleep(t) \/ WakeUp(t) \/ Woken(t) \/ TimedOut(t) \/ AlreadyExists(t) \/ EndLast(t)
           \/ AcpiDsTerminateControlMethod(t)
  BY <1>1 DEF Sleep, WakeUp, Woken, TimedOut, AlreadyExists, EndLast, methodVars,
     AcpiDsTerminateControlMethod
<1>2. ASSUME NEW x \in Mutexes, MutexStep(t, x) PROVE UNCHANGED object
  BY <1>2 DEF MutexStep, AcquireRefused, AcquireAgain, AcquireAtOnce, AcquireWaits, AcquireDone,
     ReleaseRefused, ReleaseOnce, Release, Link, WaitOutside, methodVars
<1>3. ASSUME NEW m \in Methods, MethodStep(t, m) PROVE UNCHANGED object
  BY <1>3 DEF MethodStep, MethodRefused, BeginPlain, BeginAgain, BeginAtOnce, BeginWaits,
     BeginDone, Obtain, Push, NoWalkState, NoOwnerId, WaitOutside, methodVars
<1> QED  BY <1>1, <1>2, <1>3 DEF StepOf

\* A frame that has made the object was there before, and above it no more than now.
LEMMA MadeBefore ==
  ASSUME Inv, WaitOrder, NEW t \in Threads, StepOf(t), ~CreateObject(t),
         NEW u \in Threads, NEW i \in DOMAIN frames'[u], frames'[u][i].made
  PROVE  /\ i \in DOMAIN frames[u] /\ frames[u][i] = frames'[u][i]
         /\ pc[u] = "deleted" /\ i = Len(frames[u])
                => pc'[u] = "deleted" /\ i = Len(frames'[u])
<1>1. Typing /\ frames \in [Threads -> Seq(Frame)]  BY DEF Inv, Typing, TypeOK
<1>2. CASE u # t  BY <1>2, Classes DEF Apart
<1>3. CASE u = t /\ ~AcpiDsTerminateControlMethod(t)
  <2>1. pc[t] # "deleted"  BY <1>3, DeletedEnds
  <2>2. CASE UNCHANGED frames  BY <1>3, <2>1, <2>2
  <2>3. CASE \E m \in Methods : Enters(t, m, TRUE) \/ Enters(t, m, FALSE)
    <3>1. PICK m \in Methods, took \in BOOLEAN : Push(t, m, took)  BY <2>3 DEF Enters
    <3>2. PICK n \in Nat : n = Len(frames[t]) + 1  BY <1>1
    <3>3. /\ DOMAIN frames[t] = 1..(n - 1) /\ DOMAIN frames'[t] = 1..n
          /\ \A j \in 1..(n - 1) : frames'[t][j] = frames[t][j]
      BY <1>1, <3>1, <3>2, FrameAppended
    <3>4. ~frames'[t][n].made
      <4> DEFINE f == [method |-> m, took |-> took, held |-> Len(acquired[t]), made |-> FALSE]
      <4>1. frames'[t] = Append(frames[t], f) /\ ~f.made  BY <1>1, <3>1 DEF Push
      <4> HIDE DEF f
      <4>2. Append(frames[t], f)[Len(frames[t]) + 1] = f  BY <1>1
      <4> QED  BY <3>2, <4>1, <4>2
    <3>5. i \in 1..(n - 1)
      <4>1. i \in 1..n /\ i # n  BY <1>3, <3>3, <3>4
      <4> QED  BY <4>1
    <3> QED  BY <1>3, <2>1, <3>3, <3>5
  <2>4. UNCHANGED frames \/ \E m \in Methods : Enters(t, m, TRUE) \/ Enters(t, m, FALSE)
    BY <1>3, Classes, ReleaseSteps DEF Calm, Links, Link, Aborts
  <2> QED  BY <2>2, <2>3, <2>4
<1>4. CASE u = t /\ AcpiDsTerminateControlMethod(t)
  <2>1. frames[t] # <<>> /\ frames' = [frames EXCEPT ![t] = Front(@)]
    BY <1>4, TerminateSteps
  <2>2. PICK n \in Nat : n = Len(frames[t])  BY <1>1
  <2>3. /\ DOMAIN frames[t] = 1..n /\ DOMAIN frames'[t] = 1..(n - 1)
        /\ \A j \in 1..(n - 1) : frames'[t][j] = frames[t][j]
    BY <1>1, <2>1, <2>2, FrameDropped
  <2>4. i \in 1..(n - 1) /\ i \in 1..n /\ i # n  BY <1>4, <2>3
  <2> QED  BY <1>4, <2>2, <2>3, <2>4
<1> QED  BY <1>2, <1>3, <1>4

\* Two frames of a method with a mutex are of one thread.
LEMMA OneExecutes ==
  ASSUME Inv, NEW m \in Methods, m \notin damaged, HasMutex(m),
         NEW t \in Threads, NEW u \in Threads, Executes(t, m), Executes(u, m)
  PROVE  t = u
BY DEF Inv, MutexFollows

LEMMA TopExecutes ==
  ASSUME Typing, NEW t \in Threads, frames[t] # <<>>
  PROVE  /\ Top(t).method \in Methods /\ Executes(t, Top(t).method)
         /\ Len(frames[t]) \in FramesOf(t, Top(t).method)
<1>1. Len(frames[t]) \in DOMAIN frames[t] /\ Top(t).method \in Methods
  BY TopIsFrame DEF Typing, TypeOK
<1> QED  BY <1>1 DEF Executes, FramesOf, Top

\* Whoever changes the thread count of a method is in it, before or after.
LEMMA CountSteps ==
  ASSUME Inv, WaitOrder, NEW t \in Threads, StepOf(t), NEW m \in Methods, m \notin damaged'
  PROVE  count'[m] = count[m] \/ Executes(t, m) \/ Executes(t, m)'
<1>1. Typing /\ count \in [Methods -> Nat]  BY DEF Inv, Typing, TypeOK
<1>2. CASE Calm \/ CreateObject(t) \/ \E x \in Mutexes : Links(t, x) \/ Release(t, x)
  <2>1. CASE Calm \/ CreateObject(t)  BY <2>1 DEF Calm, CreateObject
  <2>2. ASSUME NEW x \in Mutexes, Links(t, x) \/ Release(t, x) PROVE UNCHANGED count
    BY <2>2 DEF Links, Link, Release, methodVars
  <2> QED  BY <1>2, <2>1, <2>2
<1>3. CASE \E k \in Methods : Aborts(t, k)  BY <1>3 DEF Aborts
<1>4. ASSUME NEW k \in Methods, NEW took \in BOOLEAN, Enters(t, k, took)
      PROVE  count'[m] = count[m] \/ Executes(t, m)'
  <2>1. Push(t, k, took)  BY <1>4 DEF Enters
  <2>2. k # m => count'[m] = count[m]  BY <1>1, <2>1 DEF Push
  <2>3. k = m => Executes(t, m)'  BY <1>1, <2>1, PushedIsExecuted DEF Executes
  <2> QED  BY <2>2, <2>3
<1>5. CASE AcpiDsTerminateControlMethod(t)
  <2>1. PICK k \in Methods : k = Top(t).method  BY <1>5, TerminateSteps
  <2>2. Executes(t, k)  BY <1>1, <1>5, <2>1, TerminateSteps, TopExecutes
  <2>3. k # m => count'[m] = count[m]  BY <1>5, <2>1, TerminateCounts
  <2> QED  BY <2>2, <2>3
<1> QED  BY <1>2, <1>3, <1>4, <1>5, Classes

LEMMA LeavesAloneStep ==
  ASSUME Inv, Inv', Order, \A m \in Methods : Covered(m)', LeavesAlone,
         NEW t \in Threads, StepOf(t)
  PROVE  LeavesAlone'
<1>1. /\ Typing /\ Typing' /\ WaitOrder /\ damaged \subseteq damaged'
  BY DamageGrows DEF Inv, Order
<1> SUFFICES ASSUME NEW u \in Threads, pc'[u] \in {"delete", "deleted"},
                    NEW m, m = Top(u).method', HasMutex(m)', m \notin damaged'
             PROVE  count'[m] = 1
  BY DEF LeavesAlone
<1>2. m \in Methods /\ Executes(u, m)'
  <2>1. frames'[u] # <<>> /\ frames'[u] \in Seq(Frame)  BY <1>1 DEF Typing, TypeOK, Places
  <2>2. PICK n : n = Len(frames'[u])  OBVIOUS
  <2>3. n \in DOMAIN frames'[u] /\ frames'[u][n] \in Frame  BY <2>1, <2>2
  <2>4. m = frames'[u][n].method  BY <2>2 DEF Top
  <2> QED  BY <2>3, <2>4 DEF Frame, Executes, FramesOf
<1>3. HasMutex(m) /\ m \notin damaged  BY <1>1, <1>2, KindsStep
<1>4. CASE u # t
  <2>1. pc'[u] = pc[u] /\ frames'[u] = frames[u]  BY <1>4, Classes, <1>1 DEF Apart
  <2>2. m = Top(u).method /\ Executes(u, m)  BY <1>2, <2>1 DEF Top, Executes, FramesOf
  <2>3. count[m] = 1  BY <1>3, <2>1, <2>2 DEF LeavesAlone
  <2>4. ~Executes(t, m)  BY <1>2, <1>3, <1>4, <2>2, OneExecutes
  <2>5. ~Executes(t, m)'  BY <1>2, <1>4 DEF Inv, MutexFollows
  <2> QED  BY <1>1, <1>2, <2>3, <2>4, <2>5, CountSteps
<1>5. CASE u = t
  <2>1. EndLast(t) \/ DeleteObjects(t)  BY <1>1, <1>5, WhereTo
  <2>2. UNCHANGED <<frames, count>>  BY <2>1 DEF EndLast, DeleteObjects
  <2>3. m = Top(t).method  BY <1>5, <2>2 DEF Top
  <2>4. CASE EndLast(t)  BY <2>2, <2>3, <2>4 DEF EndLast, LastInside
  <2>5. CASE DeleteObjects(t)  BY <1>3, <2>2, <2>3, <2>5 DEF DeleteObjects, LeavesAlone
  <2> QED  BY <2>1, <2>4, <2>5
<1> QED  BY <1>4, <1>5

\* Two frames of a thread in one method are two entries of it.
LEMMA OneEntry ==
  ASSUME Inv, NEW m \in Methods, m \notin damaged, count[m] = 1,
         NEW t \in Threads, NEW i \in FramesOf(t, m), NEW j \in FramesOf(t, m)
  PROVE  i = j
<1>1. IsFiniteSet(Entries(m)) /\ Cardinality(Entries(m)) = 1  BY DEF Inv, Counted
<1>2. PICK e : Entries(m) = {e}  BY <1>1, FS_Singleton
<1>3. <<t, i>> \in Entries(m) /\ <<t, j>> \in Entries(m)  BY DEF Entries
<1> QED  BY <1>2, <1>3

LEMMA ObjectsStep ==
  ASSUME Inv, Inv', Order, \A m \in Methods : Covered(m)', LeavesAlone, SerializedKeepsObjects,
         NEW t \in Threads, StepOf(t)
  PROVE  SerializedKeepsObjects'
<1>1. /\ Typing /\ Typing' /\ WaitOrder /\ damaged \subseteq damaged'
      /\ frames \in [Threads -> Seq(Frame)] /\ frames' \in [Threads -> Seq(Frame)]
      /\ object \in [Methods -> BOOLEAN]
  BY DamageGrows DEF Inv, Order, Typing, TypeOK
<1> SUFFICES ASSUME NEW u \in Threads, NEW i \in DOMAIN frames'[u], frames'[u][i].made,
                    NEW m, m = frames'[u][i].method, HasMutex(m)', m \notin damaged',
                    ~(pc'[u] = "deleted" /\ i = Len(frames'[u]))
             PROVE  object'[m]
  BY DEF SerializedKeepsObjects
<1>2. m \in Methods /\ Executes(u, m)'
  <2>1. frames'[u] \in Seq(Frame)  BY <1>1
  <2>2. frames'[u][i] \in Frame  BY <2>1
  <2> QED  BY <2>2 DEF Frame, Executes, FramesOf
<1>3. HasMutex(m) /\ m \notin damaged  BY <1>1, <1>2, KindsStep
<1>4. CASE CreateObject(t)
  <2> DEFINE n == Len(frames[t])
             f == [frames[t][n] EXCEPT !.made = TRUE]
  <2>1. /\ frames[t] # <<>> /\ UNCHANGED pc /\ pc[t] = "inside"
        /\ object' = [object EXCEPT ![Top(t).method] = TRUE]
        /\ frames' = [frames EXCEPT ![t] = [frames[t] EXCEPT ![n] = f]]
    BY <1>1, <1>4 DEF CreateObject, Nested, Inside
  <2>2. /\ Top(t).method \in Methods /\ n \in DOMAIN frames[t] /\ frames[t][n] \in Frame
        /\ Top(t) = frames[t][n]
    BY <1>1, <2>1, TopIsFrame DEF Top
  <2>3. f.method = Top(t).method  BY <2>2 DEF Frame
  <2> HIDE DEF n, f
  <2>4. CASE u = t /\ i = n
    <3>1. frames'[u][i] = f  BY <1>1, <2>1, <2>2, <2>4
    <3> QED  BY <1>1, <2>1, <2>2, <2>3, <3>1
  <2>5. CASE u # t \/ i # n
    <3>1. i \in DOMAIN frames[u] /\ frames'[u][i] = frames[u][i]  BY <1>1, <2>1, <2>5
    <3>2. Len(frames'[u]) = Len(frames[u]) 
      <4>1. frames[t] \in Seq(Frame) /\ [frames[t] EXCEPT ![n] = f] \in Seq(Frame)
        BY <1>1, <2>1
      <4>2. DOMAIN [frames[t] EXCEPT ![n] = f] = DOMAIN frames[t]  OBVIOUS
      <4>3. Len([frames[t] EXCEPT ![n] = f]) = Len(frames[t])  BY <4>1, <4>2
      <4> QED  BY <1>1, <2>1, <4>3
    <3>3. object[m]  BY <1>3, <2>1, <3>1, <3>2 DEF SerializedKeepsObjects
    <3> QED  BY <1>1, <1>2, <2>1, <2>2, <3>3
  <2> QED  BY <2>4, <2>5
<1>5. CASE ~CreateObject(t)
  <2>1. /\ i \in DOMAIN frames[u] /\ frames[u][i] = frames'[u][i]
        /\ ~(pc[u] = "deleted" /\ i = Len(frames[u]))
    BY <1>1, <1>5, MadeBefore
  <2>2. object[m]  BY <1>3, <2>1 DEF SerializedKeepsObjects
  <2>3. CASE ~DeleteObjects(t)  BY <1>5, <2>2, <2>3, ObjectSteps
  <2>4. CASE DeleteObjects(t)
    <3>1. /\ pc[t] = "delete" /\ object' = [object EXCEPT ![Top(t).method] = FALSE]
          /\ UNCHANGED frames /\ pc'[t] = "deleted"
      BY <1>1, <2>4 DEF DeleteObjects, Typing, TypeOK
    <3>2. CASE m # Top(t).method  BY <1>1, <1>2, <2>2, <3>1, <3>2
    <3>3. CASE m = Top(t).method
      <4>1. frames[t] # <<>>  BY <1>1, <3>1 DEF Typing, Places
      <4>2. Executes(t, m) /\ Len(frames[t]) \in FramesOf(t, m)
        BY <1>1, <3>3, <4>1, TopExecutes
      <4>3. i \in FramesOf(u, m)  BY <2>1 DEF FramesOf
      <4>4. u = t  BY <1>2, <1>3, <4>2, <4>3, OneExecutes DEF Executes
      <4>5. count[m] = 1  BY <1>3, <3>1, <3>3 DEF LeavesAlone
      <4>6. i = Len(frames[t])  BY <1>2, <1>3, <4>2, <4>3, <4>4, <4>5, OneEntry
      <4> QED  BY <3>1, <4>4, <4>6
    <3> QED  BY <3>2, <3>3
  <2> QED  BY <2>3, <2>4
<1> QED  BY <1>4, <1>5

-----------------------------------------------------------------------------
(* Levels, of the threads that release within the method that acquires     *)

\* A method's mutex is taken with the first entry of a thread, and is in order.
TakenOnce(t) ==
    /\ \A j \in Took(frames[t]) :
         LET m == frames[t][j].method IN
         /\ HasMutex(m) /\ m \notin damaged
         /\ \A k \in DOMAIN frames[t] : frames[t][k].method = m => j <= k
    /\ \A i \in DOMAIN frames[t] : HasMutex(frames[t][i].method) =>
           \E j \in Took(frames[t]) : frames[t][j].method = frames[t][i].method

Taken   == \A t \in Threads \ skewed : TakenOnce(t)
Chained == \A t \in Threads \ skewed :
               frames[t] # <<>> => Chain(frames[t], acquired[t], level[t], original)

\* What the thread restores, it owns.
LEMMA HeldIsOwned ==
  ASSUME Inv, NEW t \in Threads
  PROVE  /\ \A p \in 0..(Len(acquired[t]) - 1) :
                Nth(acquired[t], p) \in Mutexes /\ owner[Nth(acquired[t], p)] = t
         /\ \A p, q \in 0..(Len(acquired[t]) - 1) :
                Nth(acquired[t], p) = Nth(acquired[t], q) => p = q
<1>1. acquired[t] \in Seq(Mutexes)  BY DEF Inv, Typing, TypeOK
<1>2. PICK s \in Seq(Mutexes) : s = acquired[t]  BY <1>1
<1>3. PICK n \in Nat : n = Len(s)  BY <1>2
<1>4. \A p \in 0..(n - 1) : n - p \in DOMAIN s /\ n - p \in 1..n  BY <1>2, <1>3
<1>5. /\ \A x \in Mutexes : owner[x] = t <=> \E i \in DOMAIN s : s[i] = x
      /\ \A i, j \in DOMAIN s : s[i] = s[j] => i = j
  BY <1>2 DEF Inv, Listed, Contains
<1>6. \A p \in 0..(n - 1) : Nth(s, p) \in Mutexes  BY <1>3, NthIs
<1>7. \A p \in 0..(n - 1) : Nth(s, p) = s[n - p]  BY <1>3 DEF Nth
<1>8. \A p \in 0..(n - 1) : owner[Nth(s, p)] = t  BY <1>4, <1>5, <1>6, <1>7
<1>9. ASSUME NEW p \in 0..(n - 1), NEW q \in 0..(n - 1), Nth(s, p) = Nth(s, q) PROVE p = q
  <2>1. n - p = n - q  BY <1>4, <1>5, <1>7, <1>9
  <2> QED  BY ONLY <2>1, p \in 0..(n - 1), q \in 0..(n - 1), n \in Nat
<1> QED  BY <1>2, <1>3, <1>6, <1>8, <1>9

LEMMA TookIsOwned ==
  ASSUME Inv, NEW t \in Threads, TakenOnce(t)
  PROVE  \A j \in Took(frames[t]) :
             /\ frames[t][j].method \in Methods /\ frames[t][j].method \notin damaged
             /\ owner[frames[t][j].method] = t /\ Executes(t, frames[t][j].method)
<1>1. frames[t] \in Seq(Frame)  BY DEF Inv, Typing, TypeOK
<1> SUFFICES ASSUME NEW j \in Took(frames[t]), NEW m, m = frames[t][j].method
             PROVE  m \in Methods /\ m \notin damaged /\ owner[m] = t /\ Executes(t, m)
  OBVIOUS
<1>2. m \in Methods /\ j \in DOMAIN frames[t]  BY <1>1, TookIs
<1>3. HasMutex(m) /\ m \notin damaged  BY DEF TakenOnce
<1>4. Executes(t, m)  BY <1>2 DEF Executes, FramesOf
<1>5. MutexFollows(m)  BY <1>2, <1>3 DEF Inv
<1> QED  BY <1>2, <1>3, <1>4, <1>5 DEF MutexFollows

\* Who is damaged by a step is in nobody's frames, if it has a mutex.
LEMMA DamageElsewhere ==
  ASSUME Inv, WaitOrder, NEW t \in Threads, StepOf(t), NEW u \in Threads \ skewed',
         NEW m \in Methods, HasMutex(m), Executes(u, m), m \notin damaged
  PROVE  m \notin damaged'
<1>1. CASE \E k \in Methods : Aborts(t, k)  BY <1>1 DEF Aborts
<1>2. CASE ~\E k \in Methods : Aborts(t, k)
  <2>1. CASE Calm \/ CreateObject(t)  BY <2>1 DEF Calm, CreateObject, history
  <2>2. ASSUME NEW x \in Mutexes, Links(t, x) \/ Release(t, x)
        PROVE  UNCHANGED damaged
    BY <2>2 DEF Links, Link, Release, history
  <2>3. ASSUME NEW k \in Methods, Enters(t, k, TRUE) \/ Enters(t, k, FALSE)
        PROVE  UNCHANGED damaged
    BY <2>3 DEF Enters, Push
  <2>4. CASE AcpiDsTerminateControlMethod(t)  BY <2>4, TerminateSteps
  <2>5. \/ Calm \/ CreateObject(t) \/ AcpiDsTerminateControlMethod(t)
        \/ \E x \in Mutexes : Links(t, x) \/ Release(t, x)
        \/ \E k \in Methods : Enters(t, k, TRUE) \/ Enters(t, k, FALSE)
    BY <1>2, Classes
  <2> QED  BY <2>1, <2>2, <2>3, <2>4, <2>5
<1> QED  BY <1>1, <1>2

\* Frames that stay are as they were taken, and so are those of the other threads.
LEMMA TakenSame ==
  ASSUME Inv, Order, Inv', \A m \in Methods : Covered(m)', NEW t \in Threads, StepOf(t),
         NEW u \in Threads \ skewed', TakenOnce(u),
         DOMAIN frames'[u] = DOMAIN frames[u],
         \A j \in DOMAIN frames[u] : /\ frames'[u][j].method = frames[u][j].method
                                     /\ frames'[u][j].took = frames[u][j].took
  PROVE  TakenOnce(u)'
<1>1. frames[u] \in Seq(Frame) /\ WaitOrder /\ Typing'  BY DEF Inv, Order, Typing, TypeOK
<1>2. Took(frames'[u]) = Took(frames[u])  BY DEF Took
<1>3. \A m \in Methods : Executes(u, m)' <=> Executes(u, m)  BY DEF Executes, FramesOf
<1>4. \A m \in Methods : /\ HasMutex(m) => HasMutex(m)'
                         /\ HasMutex(m)' /\ Executes(u, m) => HasMutex(m)
  BY <1>1, <1>3, KindsStep
<1>5. ASSUME NEW j \in DOMAIN frames[u]
      PROVE  frames[u][j].method \in Methods /\ Executes(u, frames[u][j].method)
  <2>1. frames[u][j] \in Frame  BY <1>1
  <2> QED  BY <2>1 DEF Frame, Executes, FramesOf
<1>6. ASSUME NEW j \in Took(frames[u]), NEW m, m = frames[u][j].method
      PROVE  /\ HasMutex(m)' /\ m \notin damaged'
             /\ \A k \in DOMAIN frames[u] : frames[u][k].method = m => j <= k
  <2>1. j \in DOMAIN frames[u]  BY <1>1, TookIs
  <2>2. m \in Methods /\ Executes(u, m)  BY <1>5, <1>6, <2>1
  <2>3. /\ HasMutex(m) /\ m \notin damaged
        /\ \A k \in DOMAIN frames[u] : frames[u][k].method = m => j <= k
    BY <1>6 DEF TakenOnce
  <2>4. m \notin damaged'  BY <1>1, <2>2, <2>3, DamageElsewhere
  <2> QED  BY <1>4, <2>2, <2>3, <2>4
<1>7. ASSUME NEW i \in DOMAIN frames[u], NEW m, m = frames[u][i].method, HasMutex(m)'
      PROVE  \E j \in Took(frames[u]) : frames[u][j].method = m
  <2>1. m \in Methods /\ Executes(u, m)  BY <1>5, <1>7
  <2>2. HasMutex(m)  BY <1>4, <1>7, <2>1
  <2> QED  BY <1>7, <2>2 DEF TakenOnce
<1>8. \A j \in Took(frames[u]) : j \in DOMAIN frames[u]  BY <1>1, TookIs
<1>9. ASSUME NEW j \in Took(frames[u]), NEW m, m = frames'[u][j].method
      PROVE  /\ HasMutex(m)' /\ m \notin damaged'
             /\ \A k \in DOMAIN frames'[u] : frames'[u][k].method = m => j <= k
  BY <1>6, <1>8, <1>9
<1>10. ASSUME NEW i \in DOMAIN frames'[u], NEW m, m = frames'[u][i].method, HasMutex(m)'
       PROVE  \E j \in Took(frames[u]) : frames'[u][j].method = m
  BY <1>7, <1>8, <1>10
<1> QED  BY <1>2, <1>9, <1>10 DEF TakenOnce

\* The frame that is pushed.
LEMMA FrameOnTop ==
  ASSUME Typing, NEW t \in Threads, NEW m \in Methods, NEW took \in BOOLEAN, Push(t, m, took),
         NEW n \in Nat, n = Len(frames[t]) + 1
  PROVE  frames'[t][n] = [method |-> m, took |-> took, held |-> Len(acquired[t]), made |-> FALSE]
<1> DEFINE f == [method |-> m, took |-> took, held |-> Len(acquired[t]), made |-> FALSE]
<1>1. frames \in [Threads -> Seq(Frame)]  BY DEF Typing, TypeOK
<1>2. frames'[t] = Append(frames[t], f)  BY <1>1 DEF Push
<1> HIDE DEF f
<1>3. Append(frames[t], f)[Len(frames[t]) + 1] = f  BY <1>1
<1> QED  BY <1>2, <1>3 DEF f

LEMMA TakenPush ==
  ASSUME Inv, OwnersIn, NEW t \in Threads, NEW m \in Methods, NEW took \in BOOLEAN,
         Enters(t, m, took), t \notin skewed', TakenOnce(t)
  PROVE  TakenOnce(t)'
<1>1. Typing /\ frames \in [Threads -> Seq(Frame)]  BY DEF Inv, Typing, TypeOK
<1>2. Push(t, m, took) /\ UNCHANGED <<kind, damaged>> /\ m \notin damaged
  BY DEF Enters, Push
<1>3. PICK n \in Nat : n = Len(frames[t]) + 1  BY <1>1
<1>4. /\ DOMAIN frames[t] = 1..(n - 1) /\ DOMAIN frames'[t] = 1..n
      /\ frames'[t][n].method = m
      /\ \A i \in 1..(n - 1) : frames'[t][i] = frames[t][i]
  BY <1>1, <1>2, <1>3, FrameAppended
<1>5. frames'[t][n].took = took
  <2>1. frames'[t][n] = [method |-> m, took |-> took, held |-> Len(acquired[t]), made |-> FALSE]
    BY <1>1, <1>2, <1>3, FrameOnTop
  <2> QED  BY <2>1
<1>6. n \in 1..n /\ \A i \in 1..n : i \in 1..(n - 1) \/ i = n
  <2>1. n - 1 \in Nat  BY <1>1, <1>3
  <2> QED  BY <2>1
<1>7. \A k : HasMutex(k)' <=> HasMutex(k)  BY <1>2 DEF HasMutex
<1>8. took => HasMutex(m) /\ \A k \in 1..(n - 1) : frames[t][k].method # m
  <2> SUFFICES ASSUME took PROVE HasMutex(m) /\ ~Executes(t, m)
    BY <1>4 DEF Executes, FramesOf
  <2>1. HasMutex(m) /\ owner[m] = Nobody  BY <1>2 DEF Enters, EntersAlone
  <2> QED  BY <1>2, <2>1, AloneElsewhere
<1>9. ~took /\ HasMutex(m) => \E k \in 1..(n - 1) : frames[t][k].method = m
  <2> SUFFICES ASSUME ~took, HasMutex(m) PROVE Executes(t, m)
    BY <1>4 DEF Executes, FramesOf
  <2>1. owner[m] = t  BY DEF Enters, EntersToo
  <2> QED  BY <1>2, <2>1 DEF OwnersIn
<1>10. ASSUME NEW j \in Took(frames'[t]), NEW k, k = frames'[t][j].method
       PROVE  /\ HasMutex(k)' /\ k \notin damaged'
              /\ \A i \in DOMAIN frames'[t] : frames'[t][i].method = k => j <= i
  <2>1. j \in 1..n /\ frames'[t][j].took  BY <1>4, <1>10 DEF Took
  <2>2. CASE j \in 1..(n - 1)
    <3>1. j \in Took(frames[t]) /\ k = frames[t][j].method
      BY <1>4, <1>10, <2>1, <2>2 DEF Took
    <3>2. /\ HasMutex(k) /\ k \notin damaged
          /\ \A i \in 1..(n - 1) : frames[t][i].method = k => j <= i
      BY <1>4, <3>1 DEF TakenOnce
    <3>3. j <= n  BY <2>1
    <3> QED  BY <1>2, <1>4, <1>6, <1>7, <3>2, <3>3
  <2>3. CASE j = n
    <3>1. took /\ k = m  BY <1>4, <1>5, <1>10, <2>1, <2>3
    <3>2. \A i \in 1..n : frames'[t][i].method = m => i = n  BY <1>4, <1>6, <1>8, <3>1
    <3>3. n <= n  OBVIOUS
    <3> QED  BY <1>2, <1>4, <1>7, <1>8, <2>3, <3>1, <3>2, <3>3
  <2> QED  BY <1>6, <2>1, <2>2, <2>3
<1>11. ASSUME NEW i \in DOMAIN frames'[t], NEW k, k = frames'[t][i].method, HasMutex(k)'
       PROVE  \E j \in Took(frames'[t]) : frames'[t][j].method = k
  <2>1. HasMutex(k)  BY <1>7, <1>11
  <2>2. \A j \in Took(frames[t]) : j \in Took(frames'[t]) /\ frames'[t][j].method = frames[t][j].method
    <3>1. ASSUME NEW j \in Took(frames[t])
          PROVE  j \in 1..(n - 1) /\ j \in 1..n /\ frames[t][j].took
      BY <1>4, <1>6 DEF Took
    <3> QED  BY <1>4, <3>1 DEF Took
  <2>3. CASE \E e \in 1..(n - 1) : frames[t][e].method = k
    <3>1. PICK j \in Took(frames[t]) : frames[t][j].method = k
      BY <1>4, <2>1, <2>3 DEF TakenOnce
    <3> QED  BY <2>2, <3>1
  <2>4. CASE ~\E e \in 1..(n - 1) : frames[t][e].method = k
    <3>1. i = n /\ k = m  BY <1>4, <1>6, <1>11, <2>4
    <3>2. took  BY <1>9, <2>1, <2>4, <3>1
    <3>3. n \in Took(frames'[t])  BY <1>4, <1>5, <1>6, <3>2 DEF Took
    <3> QED  BY <1>4, <3>1, <3>3
  <2> QED  BY <2>3, <2>4
<1> QED  BY <1>10, <1>11 DEF TakenOnce

LEMMA TakenPop ==
  ASSUME Inv, Order, Inv', \A m \in Methods : Covered(m)', NEW t \in Threads, StepOf(t),
         AcpiDsTerminateControlMethod(t), Len(frames[t]) # 1 => TakenOnce(t)
  PROVE  TakenOnce(t)'
<1>1. /\ Typing /\ frames \in [Threads -> Seq(Frame)] /\ WaitOrder /\ Typing'
      /\ frames'[t] \in Seq(Frame)
  BY DEF Inv, Order, Typing, TypeOK
<1>2. frames[t] # <<>> /\ frames' = [frames EXCEPT ![t] = Front(@)] /\ UNCHANGED damaged
  BY TerminateSteps
<1>3. PICK n \in Nat : n = Len(frames[t])  BY <1>1
<1>4. /\ DOMAIN frames[t] = 1..n /\ DOMAIN frames'[t] = 1..(n - 1)
      /\ \A i \in 1..(n - 1) : frames'[t][i] = frames[t][i]
  BY <1>1, <1>2, <1>3, FrameDropped
<1>5. \A i \in 1..(n - 1) : i \in 1..n /\ n # 1  OBVIOUS
<1>6. \A j : j \in Took(frames'[t]) <=> j \in 1..(n - 1) /\ j \in Took(frames[t])
  BY <1>4, <1>5 DEF Took
<1>7. ASSUME NEW i \in 1..(n - 1), NEW m, m = frames[t][i].method
      PROVE  m \in Methods /\ (HasMutex(m)' <=> HasMutex(m))
  <2>1. frames[t][i] \in Frame  BY <1>1, <1>4, <1>5
  <2>2. m \in Methods  BY <1>7, <2>1 DEF Frame
  <2>3. i \in FramesOf(t, m)'  BY <1>4, <1>7 DEF FramesOf
  <2>4. Executes(t, m)'  BY <2>3 DEF Executes
  <2> QED  BY <1>1, <2>2, <2>4, KindsStep
<1>8. ASSUME NEW j \in Took(frames'[t]), NEW k, k = frames'[t][j].method
      PROVE  /\ HasMutex(k)' /\ k \notin damaged'
             /\ \A i \in DOMAIN frames'[t] : frames'[t][i].method = k => j <= i
  <2>1. j \in 1..(n - 1) /\ j \in Took(frames[t]) /\ TakenOnce(t) /\ k = frames[t][j].method
    BY <1>3, <1>4, <1>5, <1>6, <1>8
  <2>2. /\ HasMutex(k) /\ k \notin damaged
        /\ \A i \in 1..n : frames[t][i].method = k => j <= i
    BY <1>4, <2>1 DEF TakenOnce
  <2> QED  BY <1>2, <1>4, <1>5, <1>7, <2>1, <2>2
<1>9. ASSUME NEW i \in DOMAIN frames'[t], NEW k, k = frames'[t][i].method, HasMutex(k)'
      PROVE  \E j \in Took(frames'[t]) : frames'[t][j].method = k
  <2>1. i \in 1..(n - 1) /\ i \in 1..n /\ TakenOnce(t) /\ k = frames[t][i].method
    BY <1>3, <1>4, <1>5, <1>9
  <2>2. HasMutex(k)  BY <1>7, <1>9, <2>1
  <2>3. PICK j \in Took(frames[t]) : frames[t][j].method = k
    BY <1>4, <2>1, <2>2 DEF TakenOnce
  <2>4. j <= i /\ j \in 1..n
    <3>1. j \in 1..n  BY <1>1, <1>4, TookIs
    <3> QED  BY <1>4, <2>1, <2>3, <3>1 DEF TakenOnce
  <2>5. j \in 1..(n - 1)  BY <2>1, <2>4
  <2> QED  BY <1>4, <1>6, <2>3, <2>5
<1> QED  BY <1>8, <1>9 DEF TakenOnce

\* A thread that is not astray after a step was not before, or leaves its last method.
LEMMA StraightBefore ==
  ASSUME Inv, WaitOrder, NEW t \in Threads, StepOf(t), NEW u \in Threads \ skewed'
  PROVE  u \notin skewed \/ (u = t /\ AcpiDsTerminateControlMethod(t) /\ Len(frames[t]) = 1)
<1>1. CASE u # t  BY <1>1, Classes DEF Apart
<1>2. CASE Calm \/ CreateObject(t)  BY <1>2 DEF Calm, CreateObject, history
<1>3. ASSUME NEW x \in Mutexes, Links(t, x) \/ Release(t, x) PROVE skewed \subseteq skewed'
  BY <1>3 DEF Links, Link, Release, history
<1>4. ASSUME NEW k \in Methods, Aborts(t, k) \/ Enters(t, k, TRUE) \/ Enters(t, k, FALSE)
      PROVE  skewed \subseteq skewed'
  BY <1>4 DEF Aborts, Enters, Push
<1>5. CASE AcpiDsTerminateControlMethod(t) /\ u = t
  <2>1. Unlock(t, Top(t).method)  BY <1>5, TerminateSteps
  <2>2. Len(frames[t]) # 1 => skewed \subseteq skewed'  BY <2>1 DEF Unlock
  <2> QED  BY <1>5, <2>2
<1> QED  BY <1>1, <1>2, <1>3, <1>4, <1>5, Classes

\* What an object's creation leaves of the frames.
LEMMA MadeSame ==
  ASSUME Typing, NEW t \in Threads, CreateObject(t)
  PROVE  /\ DOMAIN frames'[t] = DOMAIN frames[t]
         /\ \A j \in DOMAIN frames[t] : /\ frames'[t][j].method = frames[t][j].method
                                        /\ frames'[t][j].took = frames[t][j].took
                                        /\ frames'[t][j].held = frames[t][j].held
<1>1. frames \in [Threads -> Seq(Frame)] /\ frames[t] # <<>>
  BY DEF Typing, TypeOK, CreateObject, Nested
<1> DEFINE n == Len(frames[t])
           f == [frames[t][n] EXCEPT !.made = TRUE]
<1>2. n \in DOMAIN frames[t] /\ frames[t][n] \in Frame
  BY <1>1, TopIsFrame DEF Top
<1>3. frames' = [frames EXCEPT ![t] = [frames[t] EXCEPT ![n] = f]]
  BY <1>1 DEF CreateObject
<1>4. /\ f.method = frames[t][n].method /\ f.took = frames[t][n].took
      /\ f.held = frames[t][n].held
  BY <1>2 DEF Frame
<1> HIDE DEF n, f
<1>5. frames'[t] = [frames[t] EXCEPT ![n] = f]  BY <1>1, <1>3
<1> QED  BY <1>2, <1>4, <1>5

LEMMA TakenStep ==
  ASSUME Inv, Order, Inv', Order', Taken, NEW t \in Threads, StepOf(t)
  PROVE  Taken'
<1>1. /\ Typing /\ WaitOrder /\ OwnersIn /\ \A m \in Methods : Covered(m)'
  BY DEF Inv, Order
<1> SUFFICES ASSUME NEW u \in Threads, u \notin skewed' PROVE TakenOnce(u)'
  BY DEF Taken
<1>2. u \notin skewed \/ (u = t /\ AcpiDsTerminateControlMethod(t) /\ Len(frames[t]) = 1)
  BY <1>1, StraightBefore
<1>3. u \notin skewed => TakenOnce(u)  BY DEF Taken
<1>4. CASE AcpiDsTerminateControlMethod(t) /\ u = t
  BY <1>1, <1>2, <1>3, <1>4, TakenPop
<1>5. CASE \E m \in Methods : Aborts(t, m) /\ u = t  BY <1>5 DEF Aborts
<1>6. ASSUME NEW m \in Methods, NEW took \in BOOLEAN, Enters(t, m, took), u = t,
             u \notin skewed
      PROVE  TakenOnce(u)'
  BY <1>1, <1>3, <1>6, TakenPush
<1>7. ASSUME u \notin skewed,
             \/ u # t \/ Calm \/ CreateObject(t) \/ \E x \in Mutexes : Links(t, x) \/ Release(t, x)
      PROVE  TakenOnce(u)'
  <2>1. /\ DOMAIN frames'[u] = DOMAIN frames[u]
        /\ \A j \in DOMAIN frames[u] : /\ frames'[u][j].method = frames[u][j].method
                                       /\ frames'[u][j].took = frames[u][j].took
    <3>1. CASE u # t  BY <1>1, <3>1, Classes DEF Apart
    <3>2. CASE u = t /\ CreateObject(t)  BY <1>1, <3>2, MadeSame
    <3>3. CASE Calm  BY <3>3 DEF Calm
    <3>4. ASSUME NEW x \in Mutexes, Links(t, x) \/ Release(t, x) PROVE UNCHANGED frames
      BY <3>4 DEF Links, Link, Release, threadVars
    <3> QED  BY <1>7, <3>1, <3>2, <3>3, <3>4
  <2> QED  BY <1>1, <1>3, <1>7, <2>1, TakenSame
<1>8. \/ u # t \/ Calm \/ CreateObject(t) \/ \E x \in Mutexes : Links(t, x) \/ Release(t, x)
      \/ AcpiDsTerminateControlMethod(t)
      \/ \E m \in Methods : Aborts(t, m) \/ Enters(t, m, TRUE) \/ Enters(t, m, FALSE)
  BY <1>1, Classes
<1>9. CASE AcpiDsTerminateControlMethod(t) /\ u # t  BY <1>2, <1>7, <1>9
<1>10. CASE u = t /\ ~AcpiDsTerminateControlMethod(t)
  <2>1. u \notin skewed  BY <1>2, <1>10
  <2>2. TRUE \in BOOLEAN /\ FALSE \in BOOLEAN  OBVIOUS
  <2>3. CASE \E m \in Methods : Aborts(t, m) \/ Enters(t, m, TRUE) \/ Enters(t, m, FALSE)
    BY <1>5, <1>6, <1>10, <2>1, <2>2, <2>3
  <2> QED  BY <1>7, <1>8, <1>10, <2>1, <2>3
<1>11. CASE u # t  BY <1>2, <1>7, <1>11
<1> QED  BY <1>4, <1>10, <1>11

\* A chain stands while what is restored stands for what the thread owns.
LEMMA ChainOthers ==
  ASSUME Inv, Inv', WaitOrder, NEW t \in Threads, StepOf(t), NEW u \in Threads \ {t},
         frames[u] # <<>>, TakenOnce(u), TakenOnce(u)',
         Chain(frames[u], acquired[u], level[u], original)
  PROVE  Chain(frames'[u], acquired'[u], level'[u], original')
<1>1. /\ frames[u] \in Seq(Frame) /\ acquired[u] \in Seq(Mutexes) /\ Mutexes \subseteq Locks
      /\ Methods \subseteq Locks /\ Typing
      /\ Mutexes \cap Methods = {} /\ damaged' \subseteq Methods
  BY MethodAssumption DEF Inv, Typing, TypeOK, Locks
<1>2. /\ frames'[u] = frames[u] /\ acquired'[u] = acquired[u] /\ level'[u] = level[u]
  BY Classes DEF Apart
<1>3. PICK o, o2 : o = original /\ o2 = original'  OBVIOUS
<1>4. \A p \in 0..(Len(acquired[u]) - 1) : o2[Nth(acquired[u], p)] = o[Nth(acquired[u], p)]
  <2> SUFFICES ASSUME NEW p \in 0..(Len(acquired[u]) - 1), NEW x, x = Nth(acquired[u], p)
               PROVE  o2[x] = o[x]
    OBVIOUS
  <2>1. x \in Mutexes /\ owner[x] = u  BY HeldIsOwned
  <2>2. x \in Locks /\ x \notin damaged'  BY <1>1, <2>1
  <2>3. original'[x] = original[x]  BY <2>1, <2>2, OthersKeep
  <2> QED  BY <1>3, <2>3
<1>5. \A j \in Took(frames[u]) : o2[frames[u][j].method] = o[frames[u][j].method]
  <2> SUFFICES ASSUME NEW j \in Took(frames[u]), NEW m, m = frames[u][j].method
               PROVE  o2[m] = o[m]
    OBVIOUS
  <2>1. m \in Methods /\ owner[m] = u  BY TookIsOwned
  <2>2. m \notin damaged'  BY <1>2 DEF TakenOnce
  <2>3. original'[m] = original[m]  BY <1>1, <2>1, <2>2, OthersKeep
  <2> QED  BY <1>3, <2>3
<1>6. Chain(frames[u], acquired[u], level[u], o2)  BY <1>1, <1>3, <1>4, <1>5, ChainSame
<1> QED  BY <1>2, <1>3, <1>6

LEMMA ChainLinks ==
  ASSUME Inv, NEW t \in Threads, NEW x \in Mutexes, Links(t, x), frames[t] # <<>>,
         Chain(frames[t], acquired[t], level[t], original)
  PROVE  Chain(frames'[t], acquired'[t], level'[t], original')
<1>1. /\ frames[t] \in Seq(Frame) /\ acquired[t] \in Seq(Mutexes) /\ level[t] \in 0..15
      /\ level \in [Threads -> 0..15] /\ acquired \in [Threads -> Seq(Mutexes)]
      /\ original \in [Locks -> 0..15] /\ x \in Locks /\ Nobody \notin Threads
  BY MethodAssumption DEF Inv, Typing, TypeOK, Locks
<1>2. /\ original' = [original EXCEPT ![x] = level[t]]
      /\ level' = [level EXCEPT ![t] = SyncLevel[x]]
      /\ acquired' = [acquired EXCEPT ![t] = <<x>> \o acquired[t]]
      /\ UNCHANGED frames /\ owner[x] = Nobody /\ level[t] <= SyncLevel[x]
  BY DEF Links, Link
<1>3. PICK s \in Seq(Mutexes) : s = acquired[t]  BY <1>1
<1>4. PICK r : r = <<x>> \o s  OBVIOUS
<1>5. Len(r) = Len(s) + 1 /\ r[1] = x /\ \A j \in 1..Len(s) : r[j + 1] = s[j]
  BY <1>4, ListLink
<1>6. Nth(r, Len(s)) = x /\ \A p \in 0..(Len(s) - 1) : Nth(r, p) = Nth(s, p)
  BY ONLY <1>5, LinkedNth, s \in Seq(Mutexes), x \in Mutexes
<1>7. \A p \in 0..(Len(s) - 1) : Nth(s, p) # x
  BY <1>1, <1>2, <1>3, HeldIsOwned
<1>8. PICK o, o2 : o = original /\ o2 = original'  OBVIOUS
<1>9. \A l \in Locks \ {x} : o2[l] = o[l]  BY <1>1, <1>2, <1>8
<1>10a. PICK fs \in Seq(Frame) : fs = frames[t]  BY <1>1
<1>10. PICK v : fs = frames[t] /\ v = level[t]  BY <1>10a
<1>11. Chain(fs, r, SyncLevel[x], o2)
  <2>1. fs # <<>> /\ Chain(fs, s, v, o) /\ v <= SyncLevel[x]  BY <1>2, <1>3, <1>8, <1>10
  <2>2. o2[x] = v /\ v \in 0..15  BY <1>1, <1>2, <1>8, <1>10
  <2>3. Len(r) = Len(s) + 1  BY <1>5
  <2> QED  BY ONLY <1>6, <1>7, <1>9, <2>1, <2>2, <2>3, ChainLink, fs \in Seq(Frame),
                   s \in Seq(Mutexes), x \in Mutexes
<1>12. acquired'[t] = r /\ level'[t] = SyncLevel[x] /\ frames'[t] = frames[t]
  BY <1>1, <1>2, <1>3, <1>4
<1> QED  BY <1>8, <1>10, <1>11, <1>12

LEMMA ChainRelease ==
  ASSUME Inv, NEW t \in Threads, NEW x \in Mutexes, Release(t, x), frames[t] # <<>>,
         t \notin skewed', Chain(frames[t], acquired[t], level[t], original)
  PROVE  Chain(frames'[t], acquired'[t], level'[t], original')
<1>1. /\ frames[t] \in Seq(Frame) /\ acquired[t] \in Seq(Mutexes) /\ level[t] \in 0..15
      /\ level \in [Threads -> 0..15] /\ acquired \in [Threads -> Seq(Mutexes)]
      /\ original \in [Locks -> 0..15] /\ Mutexes \subseteq Locks
  BY DEF Inv, Typing, TypeOK, Locks
<1>2. PICK i \in DOMAIN acquired[t] :
        /\ acquired[t][i] = x /\ SyncLevel[x] = level[t]
        /\ level' = [level EXCEPT ![t] = original[acquired[t][1]]]
        /\ Migrate(t, i)
        /\ acquired' = [acquired EXCEPT ![t] = RemoveAt(@, i)]
        /\ skewed' = IF Outer(t, i) THEN skewed \cup {t} ELSE skewed
        /\ UNCHANGED frames
  BY DEF Release, threadVars
<1>3. PICK s \in Seq(Mutexes) : s = acquired[t]  BY <1>1
<1>4. PICK n \in Nat : n = Len(s) /\ i \in 1..n
  <2>1. Len(s) \in Nat /\ i \in 1..Len(s)  BY <1>2, <1>3
  <2> QED  BY <2>1
<1>5. PICK b \in Nat : b = n - i /\ b \in 0..(n - 1)
  <2>1. n - i \in Nat /\ n - i \in 0..(n - 1)  BY <1>4
  <2> QED  BY <2>1
<1>6. PICK r : r = RemoveAt(s, i)  OBVIOUS
<1>7. s[i] = Nth(s, b)
  <2>1. n - b = i  BY <1>4, <1>5
  <2> QED  BY <1>4, <2>1 DEF Nth
<1>8. /\ Len(r) = Len(s) - 1
       /\ \A p \in 0..(Len(s) - 2) : Nth(r, p) = IF p < b THEN Nth(s, p) ELSE Nth(s, p + 1)
  <2>1. i \in DOMAIN s  BY <1>2, <1>3
  <2>2. /\ Len(r) = Len(s) - 1
        /\ \A j \in 1..(Len(s) - 1) : r[j] = IF j < i THEN s[j] ELSE s[j + 1]
    BY <1>6, <2>1, ListRemoval
  <2>3. i = Len(s) - b /\ b \in 0..(Len(s) - 1)  BY <1>4, <1>5
  <2>4. \A j \in 1..(Len(s) - 1) : r[j] = IF j < Len(s) - b THEN s[j] ELSE s[j + 1]
    BY <2>2, <2>3
  <2> QED  BY ONLY <2>2, <2>3, <2>4, RemovedNth, s \in Seq(Mutexes)
<1>9. PICK o, o2 : o = original /\ o2 = original'  OBVIOUS
<1>10. \A p \in 0..(Len(s) - 1) : o[Nth(s, p)] \in 0..15
  BY <1>1, <1>9, NthIs
<1>11. \A p, q \in 0..(Len(s) - 1) : Nth(s, p) = Nth(s, q) => p = q
  BY <1>3, HeldIsOwned
<1>12. \A j \in Took(frames[t]) : frames[t][j].held <= b
  <2> SUFFICES ASSUME NEW j \in Took(frames[t]) PROVE frames[t][j].held <= b  OBVIOUS
  <2>1. j \in DOMAIN frames[t] /\ frames[t][j].took /\ frames[t][j].held \in Nat
    BY <1>1, TookIs
  <2>2. ~(n - i < frames[t][j].held)  BY <1>2, <1>3, <1>4, <2>1 DEF Outer
  <2> QED  BY <1>5, <2>1, <2>2
<1>13. level'[t] = o[Nth(s, Len(s) - 1)]
  <2>1. n - (n - 1) = 1  OBVIOUS
  <2>2. Nth(s, n - 1) = s[1]  BY <1>4, <2>1 DEF Nth
  <2> QED  BY <1>1, <1>2, <1>3, <1>4, <1>9, <2>2
<1>14. \A l \in Locks : o2[l] = IF b < Len(s) - 1 /\ l = Nth(s, b + 1) THEN o[Nth(s, b)]
                                ELSE o[l]
  <2>1. b < n - 1 <=> i # 1  BY ONLY <1>4, <1>5, n \in Nat
  <2>2. CASE i = 1
    <3>1. o2 = o  BY <1>2, <1>9, <2>2 DEF Migrate
    <3> QED  BY <1>4, <2>1, <2>2, <3>1
  <2>3. CASE i # 1
    <3>1. n - (b + 1) = i - 1  BY ONLY <1>4, <1>5, n \in Nat
    <3>2. Nth(s, b + 1) = s[i - 1]  BY <1>4, <3>1 DEF Nth
    <3>3. o2 = [o EXCEPT ![s[i - 1]] = o[s[i]]]  BY <1>2, <1>3, <1>9, <2>3 DEF Migrate
    <3>4. b < Len(s) - 1  BY <1>4, <2>1, <2>3
    <3> QED  BY <1>1, <1>7, <1>9, <3>2, <3>3, <3>4
  <2> QED  BY <2>2, <2>3
<1>15a. PICK fs \in Seq(Frame) : fs = frames[t]  BY <1>1
<1>15. PICK v : fs = frames[t] /\ v = level[t]  BY <1>15a
<1>16. Chain(fs, r, o[Nth(s, Len(s) - 1)], o2)
  <2>1. fs # <<>> /\ Chain(fs, s, v, o) /\ v \in 0..15 /\ SyncLevel[Nth(s, b)] = v
    BY <1>1, <1>2, <1>3, <1>7, <1>9, <1>15
  <2>2. b \in 0..(Len(s) - 1) /\ \A j \in Took(fs) : fs[j].held <= b
    BY <1>4, <1>5, <1>12, <1>15
  <2> QED  BY ONLY <1>8, <1>10, <1>11, <1>14, <2>1, <2>2, ChainRemove,
                   fs \in Seq(Frame), s \in Seq(Mutexes)
<1>17. acquired'[t] = r /\ frames'[t] = frames[t]  BY <1>1, <1>2, <1>3, <1>6
<1> QED  BY <1>9, <1>13, <1>15, <1>16, <1>17

LEMMA ChainEnters ==
  ASSUME Inv, Inv', Order, NEW t \in Threads, NEW m \in Methods, NEW took \in BOOLEAN,
         Enters(t, m, took), t \notin skewed', TakenOnce(t),
         frames[t] # <<>> => Chain(frames[t], acquired[t], level[t], original)
  PROVE  Chain(frames'[t], acquired'[t], level'[t], original')
<1>1. /\ frames[t] \in Seq(Frame) /\ frames \in [Threads -> Seq(Frame)]
      /\ frames'[t] \in Seq(Frame)
      /\ acquired[t] \in Seq(Mutexes) /\ level[t] \in 0..15 /\ level \in [Threads -> 0..15]
      /\ original \in [Locks -> 0..15] /\ original' \in [Locks -> 0..15]
      /\ m \in Locks /\ SyncLevel[m] \in 0..15 /\ Typing
  BY MethodAssumption DEF Inv, Typing, TypeOK, Locks
<1>2. /\ Push(t, m, took) /\ UNCHANGED acquired /\ m \notin damaged
      /\ \A l \in Locks \ {m} : original'[l] = original[l]
      /\ IF took THEN EntersAlone(t, m) ELSE EntersToo(t, m)
      /\ frames[t] # <<>> /\ kind[m] = "serialized" => level[t] <= SyncLevel[m]
  BY DEF Enters, Push, Nested
<1>3. PICK n \in Nat : n = Len(frames[t])  BY <1>1
<1>4. PICK k \in Nat : k = n + 1  OBVIOUS
<1>5. PICK f2 : f2 = frames'[t]  OBVIOUS
<1>6. /\ DOMAIN frames[t] = 1..n /\ DOMAIN f2 = 1..(n + 1) /\ f2[n + 1].method = m
      /\ \A i \in 1..n : f2[i] = frames[t][i]
  <2>1. k - 1 = n  BY <1>4
  <2>2. /\ DOMAIN frames[t] = 1..(k - 1) /\ DOMAIN f2 = 1..k /\ f2[k].method = m
        /\ \A i \in 1..(k - 1) : f2[i] = frames[t][i]
    BY <1>1, <1>2, <1>3, <1>4, <1>5, FrameAppended
  <2> QED  BY <1>4, <2>1, <2>2
<1>7. f2[n + 1] = [method |-> m, took |-> took, held |-> Len(acquired[t]), made |-> FALSE]
  <2>1. k = Len(frames[t]) + 1 /\ Push(t, m, took) /\ Typing  BY <1>1, <1>2, <1>3, <1>4
  <2>2. frames'[t][k] = [method |-> m, took |-> took, held |-> Len(acquired[t]), made |-> FALSE]
    BY ONLY <2>1, FrameOnTop, k \in Nat, t \in Threads, m \in Methods, took \in BOOLEAN
  <2> QED  BY <1>4, <1>5, <2>2
<1>8. PICK o, o2 : o = original /\ o2 = original'  OBVIOUS
<1>9. PICK s \in Seq(Mutexes) : s = acquired[t]  BY <1>1
<1>10. PICK v \in 0..15 : v = level[t]  BY <1>1
<1>11. PICK w : w = level'[t]  OBVIOUS
<1>12. kind[m] # "serialized" => SyncLevel[m] = 0
  BY MethodAssumption DEF Order, Declared
<1>13. CASE frames[t] = <<>>
  <2>1. n = 0 /\ s = <<>>
    <3>1. acquired[t] = <<>>  BY <1>13 DEF Order, OwnersIn
    <3>2. Len(frames[t]) = 0  BY <1>13
    <3> QED  BY <1>3, <1>9, <3>1, <3>2
  <2>2. w = SyncLevel[m]
    <3>1. level' = EntryLevel(t, m)
      <4>1. CASE took  BY <1>2, <4>1 DEF EntersAlone
      <4>2. CASE ~took  BY <1>2, <1>13, <4>2 DEF EntersToo, Nested
      <4> QED  BY <4>1, <4>2
    <3> QED  BY <1>1, <1>11, <1>13, <3>1 DEF EntryLevel, Nested
  <2>3. DOMAIN f2 = {1} /\ f2[1].held = 0 /\ f2[1].method = m
    <3>1. n + 1 = 1 /\ 1..1 = {1}  BY <2>1
    <3>2. Len(s) = 0  BY <2>1
    <3> QED  BY <1>6, <1>7, <1>9, <3>1, <3>2
  <2>4. Chain(f2, <<>>, SyncLevel[m], o2)
    <3>1. f2 \in Seq(Frame)  BY <1>1, <1>5
    <3>2. Chain(f2, <<>>, SyncLevel[f2[1].method], o2)  BY <2>3, <3>1, ChainFirst
    <3> QED  BY <2>3, <3>2
  <2> QED  BY <1>2, <1>5, <1>8, <1>9, <1>11, <2>1, <2>2, <2>4
<1>14. CASE frames[t] # <<>>
  <2>1. n \in Nat \ {0} /\ Chain(frames[t], s, v, o)
    BY <1>1, <1>3, <1>8, <1>9, <1>10, <1>14
  <2>2. CASE took
    <3>1. HasMutex(m) /\ owner[m] = Nobody /\ level' = EntryLevel(t, m) /\ original'[m] = level[t]
      BY <1>2, <1>14, <2>2 DEF EntersAlone, Nested
    <3>2. \A j \in Took(frames[t]) : frames[t][j].method # m
      <4>1. ~Executes(t, m)  BY <1>2, <3>1, AloneElsewhere
      <4>2. \A j \in Took(frames[t]) : j \in DOMAIN frames[t]  BY <1>1, TookIs
      <4> QED  BY <4>1, <4>2 DEF Executes, FramesOf
    <3>3. w \in 0..15 /\ v <= w /\ SyncLevel[m] <= w /\ (w = v \/ w = SyncLevel[m])
      <4>1. CASE kind[m] = "serialized"
        <5>1. w = SyncLevel[m] /\ v <= SyncLevel[m]
          BY <1>1, <1>2, <1>10, <1>11, <1>14, <3>1, <4>1 DEF EntryLevel
        <5>2. PICK x \in 0..15 : x = SyncLevel[m]  BY <1>1
        <5>3. SyncLevel[m] <= SyncLevel[m]  BY <5>2
        <5> QED  BY <5>1, <5>2, <5>3
      <4>2. CASE kind[m] # "serialized"
        <5>1. w = v /\ SyncLevel[m] = 0
          BY <1>1, <1>10, <1>11, <1>12, <1>14, <3>1, <4>2 DEF EntryLevel, Nested
        <5>2. v <= v /\ 0 <= v  OBVIOUS
        <5> QED  BY <5>1, <5>2
      <4> QED  BY <4>1, <4>2
    <3>4. o2[m] = v /\ \A l \in Locks \ {m} : o2[l] = o[l]  BY <1>2, <1>8, <1>10, <3>1
    <3>5. PICK fs \in Seq(Frame) : fs = frames[t]  BY <1>1
    <3>6. Chain(f2, s, w, o2)
      <4>1. fs # <<>> /\ Chain(fs, s, v, o)  BY <1>14, <2>1, <3>5
      <4>2. \A i \in 1..Len(fs) : f2[i] = fs[i]  BY <1>3, <1>6, <3>5
      <4>3. \A j \in Took(fs) : fs[j].method # m  BY <3>2, <3>5
      <4>4. f2 \in Seq(Frame) /\ DOMAIN f2 = 1..(Len(fs) + 1)  BY <1>1, <1>3, <1>5, <1>6, <3>5
      <4>5. f2[Len(fs) + 1] = [method |-> m, took |-> TRUE, held |-> Len(s), made |-> FALSE]
        BY <1>3, <1>7, <1>9, <2>2, <3>5
      <4>6. Raised(v, m, w)  BY <3>3 DEF Raised
      <4> QED  BY ONLY <3>4, <4>1, <4>2, <4>3, <4>4, <4>5, <4>6, ChainPush,
                       fs \in Seq(Frame), s \in Seq(Mutexes)
    <3> QED  BY <1>2, <1>5, <1>8, <1>9, <1>11, <3>6
  <2>3. CASE ~took
    <3>1. w = v
      <4>1. CASE HasMutex(m)  BY <1>2, <1>10, <1>11, <2>3, <4>1 DEF EntersToo
      <4>2. CASE ~HasMutex(m)
        <5>1. level' = EntryLevel(t, m) /\ kind[m] # "serialized"
          BY <1>2, <2>3, <4>2 DEF EntersToo, HasMutex
        <5> QED  BY <1>1, <1>10, <1>11, <1>14, <5>1 DEF EntryLevel, Nested
      <4> QED  BY <4>1, <4>2
    <3>2. o2 = o
      <4>1. \A l \in Locks : original'[l] = original[l]  BY <1>2, <2>3 DEF EntersToo
      <4> QED  BY <1>1, <1>8, <4>1
    <3>3. ~f2[n + 1].took  BY <1>7, <2>3
    <3>4. Chain(f2, s, v, o)
      BY <1>1, <1>3, <1>5, <1>6, <1>9, <2>1, <3>3, ChainCall
    <3> QED  BY <1>2, <1>5, <1>8, <1>9, <1>11, <3>1, <3>2, <3>4
  <2> QED  BY <2>2, <2>3
<1> QED  BY <1>13, <1>14

\* A method's mutex is released with the frame that took it, and with no other.
LEMMA FreesWhatItTook ==
  ASSUME Inv, NEW t \in Threads, frames[t] # <<>>, TakenOnce(t), NEW m, m = Top(t).method
  PROVE  Top(t).took <=> HasMutex(m) /\ depth[m] = 1
<1>1. PICK fs \in Seq(Frame) : fs = frames[t]  BY DEF Inv, Typing, TypeOK
<1>2. PICK n \in Nat : n = Len(fs) /\ n \in DOMAIN fs /\ Top(t) = fs[n]
  <2>1. frames \in [Threads -> Seq(Frame)]  BY DEF Inv, Typing, TypeOK
  <2> QED  BY <1>1, <2>1, TopIsFrame DEF Top
<1>3. m \in Methods /\ n \in FramesOf(t, m) /\ Executes(t, m)
  <2>1. fs[n] \in Frame  BY <1>1, <1>2
  <2> QED  BY <1>1, <1>2, <2>1 DEF Frame, FramesOf, Executes
<1>4. HasMutex(m) /\ m \notin damaged => depth[m] = Cardinality(FramesOf(t, m))
  BY <1>3 DEF Inv, MutexFollows
<1>5. ASSUME Top(t).took PROVE HasMutex(m) /\ depth[m] = 1
  <2>1. n \in Took(frames[t]) /\ m = frames[t][n].method  BY <1>1, <1>2, <1>5 DEF Took
  <2>2. HasMutex(m) /\ m \notin damaged /\ \A k \in FramesOf(t, m) : n <= k
    BY <2>1 DEF TakenOnce, FramesOf
  <2>3. \A k \in FramesOf(t, m) : k \in 1..n
    <3>1. DOMAIN fs = 1..n  BY <1>1, <1>2
    <3> QED  BY <1>1, <3>1 DEF FramesOf
  <2>4. \A k \in FramesOf(t, m) : k = n  BY <2>2, <2>3
  <2>5. FramesOf(t, m) = {n}  BY <1>3, <2>4
  <2>6. Cardinality({n}) = 1  BY FS_Singleton
  <2> QED  BY <1>4, <2>2, <2>5, <2>6
<1>6. ASSUME ~Top(t).took, HasMutex(m) PROVE depth[m] # 1
  <2>1. PICK j \in Took(frames[t]) : frames[t][j].method = m
    BY <1>1, <1>2, <1>6 DEF TakenOnce
  <2>2. m \notin damaged  BY <2>1 DEF TakenOnce
  <2>3. j \in FramesOf(t, m) /\ j # n
    <3>1. j \in DOMAIN fs /\ fs[j].took  BY <1>1, <2>1, TookIs
    <3> QED  BY <1>1, <1>2, <1>6, <2>1, <3>1 DEF FramesOf
  <2>4. IsFiniteSet(FramesOf(t, m))  BY <1>3, FramesFinite DEF Inv, Typing, TypeOK
  <2>5. Cardinality(FramesOf(t, m)) # 1
    <3> SUFFICES ASSUME Cardinality(FramesOf(t, m)) = 1 PROVE FALSE  OBVIOUS
    <3>1. PICK e : FramesOf(t, m) = {e}  BY <2>4, FS_Singleton
    <3> QED  BY <1>3, <2>3, <3>1
  <2> QED  BY <1>4, <1>6, <2>2, <2>5
<1> QED  BY <1>5, <1>6

LEMMA ChainTerminate ==
  ASSUME Inv, NEW t \in Threads, AcpiDsTerminateControlMethod(t), t \notin skewed',
         frames'[t] # <<>>, t \notin skewed => TakenOnce(t)
             /\ Chain(frames[t], acquired[t], level[t], original)
  PROVE  Chain(frames'[t], acquired'[t], level'[t], original')
<1>1. /\ frames[t] \in Seq(Frame) /\ frames \in [Threads -> Seq(Frame)]
      /\ acquired[t] \in Seq(Mutexes) /\ level[t] \in 0..15 /\ level \in [Threads -> 0..15]
      /\ acquired \in [Threads -> Seq(Mutexes)] /\ Typing
  BY DEF Inv, Typing, TypeOK
<1>2. PICK m \in Methods : m = Top(t).method  BY TerminateSteps
<1>3. /\ frames[t] # <<>> /\ frames' = [frames EXCEPT ![t] = Front(@)] /\ Unlock(t, m)
      /\ acquired' = IF Len(frames[t]) = 1 THEN [acquired EXCEPT ![t] = <<>>] ELSE acquired
  BY <1>2, TerminateSteps
<1>4. PICK n \in Nat : n = Len(frames[t])  BY <1>1
<1>5. PICK f2 : f2 = frames'[t]  OBVIOUS
<1>6. /\ DOMAIN frames[t] = 1..n /\ DOMAIN f2 = 1..(n - 1) /\ n \in 1..n
      /\ \A i \in 1..(n - 1) : f2[i] = frames[t][i]
  BY <1>1, <1>3, <1>4, <1>5, FrameDropped
<1>7. f2 \in Seq(Frame)  BY <1>1, <1>3, <1>5, PoppedIsFrames
<1>8. n # 1 /\ n > 1
  <2>1. n # 1
    <3> SUFFICES ASSUME n = 1 PROVE FALSE  OBVIOUS
    <3>1. Len(f2) = 0  
      <4>1. DOMAIN f2 = 1..0  BY <1>6
      <4> QED  BY <1>7, <4>1
    <3> QED  BY <1>5, <1>7, <3>1
  <2> QED  BY <1>6, <2>1
<1>9. t \notin skewed /\ UNCHANGED original
  BY <1>3, <1>4, <1>8 DEF Unlock
<1>10. TakenOnce(t) /\ Chain(frames[t], acquired[t], level[t], original)  BY <1>9
<1>11. Top(t).took <=> HasMutex(m) /\ depth[m] = 1  BY <1>2, <1>3, <1>10, FreesWhatItTook
<1>12. Top(t) = frames[t][n]  BY <1>4 DEF Top
<1>13. IF frames[t][n].took
       THEN level'[t] = original[frames[t][n].method] /\ frames[t][n].held = Len(acquired[t])
       ELSE level'[t] = level[t]
  <2>1. CASE HasMutex(m) /\ FullyReleased(m)
    <3>1. level' = [level EXCEPT ![t] = original[m]]
      BY <1>3, <1>4, <1>8, <2>1 DEF Unlock
    <3>2. Len(acquired[t]) = Top(t).held
      BY <1>3, <1>4, <1>8, <2>1 DEF Unlock
    <3> QED  BY <1>1, <1>2, <1>11, <1>12, <2>1, <3>1, <3>2 DEF FullyReleased
  <2>2. CASE ~(HasMutex(m) /\ FullyReleased(m))
    <3>1. level' = [level EXCEPT ![t] = level[t]]
      BY <1>3, <1>4, <1>8, <2>2 DEF Unlock
    <3> QED  BY <1>1, <1>11, <1>12, <2>2, <3>1 DEF FullyReleased
  <2> QED  BY <2>1, <2>2
<1>14. PICK w : w = level'[t]  OBVIOUS
<1>15. Chain(f2, acquired[t], w, original)
  BY <1>1, <1>4, <1>6, <1>7, <1>8, <1>10, <1>13, <1>14, ChainPop
<1>16. acquired'[t] = acquired[t]  BY <1>3, <1>4, <1>8
<1> QED  BY <1>5, <1>9, <1>14, <1>15, <1>16

LEMMA ChainCalm ==
  ASSUME Inv, NEW t \in Threads, Calm \/ CreateObject(t), frames[t] # <<>>,
         frames'[t] \in Seq(Frame), Chain(frames[t], acquired[t], level[t], original)
  PROVE  Chain(frames'[t], acquired'[t], level'[t], original')
<1>1. Typing /\ frames[t] \in Seq(Frame) /\ acquired[t] \in Seq(Mutexes)
  BY DEF Inv, Typing, TypeOK
<1>2. CASE Calm  BY <1>2 DEF Calm
<1>3. CASE CreateObject(t)
  <2>1. UNCHANGED <<level, acquired, original>>  BY <1>1, <1>3, CreateSteps
  <2>2. PICK fs \in Seq(Frame), f2 \in Seq(Frame) : fs = frames[t] /\ f2 = frames'[t]
    BY <1>1
  <2>3. /\ DOMAIN f2 = DOMAIN fs
        /\ \A j \in DOMAIN fs : /\ f2[j].method = fs[j].method /\ f2[j].took = fs[j].took
                                /\ f2[j].held = fs[j].held
    BY <1>1, <1>3, <2>2, MadeSame
  <2>4a. PICK s \in Seq(Mutexes) : s = acquired[t]  BY <1>1
  <2>4. PICK v, o : s = acquired[t] /\ v = level[t] /\ o = original  BY <2>4a
  <2>5. Chain(f2, s, v, o)
    <3>1. fs # <<>> /\ Chain(fs, s, v, o)  BY <2>2, <2>4
    <3> QED  BY ONLY <2>3, <3>1, ChainSame, fs \in Seq(Frame), f2 \in Seq(Frame),
                     s \in Seq(Mutexes)
  <2> QED  BY <2>1, <2>2, <2>4, <2>5
<1> QED  BY <1>2, <1>3

LEMMA ChainedStep ==
  ASSUME Inv, Inv', Order, Taken, Taken', Chained, NEW t \in Threads, StepOf(t)
  PROVE  Chained'
<1>1. WaitOrder /\ Typing /\ frames' \in [Threads -> Seq(Frame)]
  BY DEF Inv, Order, Typing, TypeOK
<1> SUFFICES ASSUME NEW u \in Threads, u \notin skewed', frames'[u] # <<>>
             PROVE  Chain(frames'[u], acquired'[u], level'[u], original')
  BY DEF Chained
<1>2. u \notin skewed \/ (u = t /\ AcpiDsTerminateControlMethod(t))
  BY <1>1, StraightBefore
<1>3. u \notin skewed => /\ TakenOnce(u)
                         /\ frames[u] # <<>>
                              => Chain(frames[u], acquired[u], level[u], original)
  BY DEF Taken, Chained
<1>4. TakenOnce(u)'  BY DEF Taken
<1>5. CASE u # t
  <2>1. frames[u] # <<>> /\ u \notin skewed
    <3>1. frames'[u] = frames[u]  BY <1>1, <1>5, Classes DEF Apart
    <3> QED  BY <1>2, <1>5, <3>1
  <2> QED  BY <1>1, <1>3, <1>4, <1>5, <2>1, ChainOthers
<1>6. CASE u = t /\ AcpiDsTerminateControlMethod(t)
  <2>1. frames[t] # <<>>  BY <1>6, TerminateSteps
  <2>2. t \notin skewed => TakenOnce(t)
             /\ Chain(frames[t], acquired[t], level[t], original)
    BY <1>3, <1>6, <2>1
  <2> QED  BY <1>6, <2>2, ChainTerminate
<1>7. CASE u = t /\ u \notin skewed /\ (Calm \/ CreateObject(t))
  <2>1. frames[t] # <<>>
    <3>1. CASE Calm  BY <1>7, <3>1 DEF Calm
    <3>2. CASE CreateObject(t)  BY <3>2 DEF CreateObject, Nested
    <3> QED  BY <1>7, <3>1, <3>2
  <2> QED  BY <1>1, <1>3, <1>7, <2>1, ChainCalm
<1>8. ASSUME u = t, u \notin skewed, NEW x \in Mutexes, Links(t, x) \/ Release(t, x)
      PROVE  Chain(frames'[u], acquired'[u], level'[u], original')
  <2>1. UNCHANGED frames  BY <1>8 DEF Links, Link, Release, threadVars
  <2>2. frames[t] # <<>> /\ Chain(frames[t], acquired[t], level[t], original)
    BY <1>3, <1>8, <2>1
  <2> QED  BY <1>8, <2>2, ChainLinks, ChainRelease
<1>9. ASSUME u = t, u \notin skewed, NEW m \in Methods, NEW took \in BOOLEAN, Enters(t, m, took)
      PROVE  Chain(frames'[u], acquired'[u], level'[u], original')
  <2>1. t \notin skewed' /\ TakenOnce(t)
        /\ (frames[t] # <<>> => Chain(frames[t], acquired[t], level[t], original))
    BY <1>3, <1>9
  <2> QED  BY <1>9, <2>1, ChainEnters
<1>10. CASE u = t /\ \E m \in Methods : Aborts(t, m)  BY <1>10 DEF Aborts
<1>11. CASE u = t /\ ~AcpiDsTerminateControlMethod(t)
  <2>1. u \notin skewed  BY <1>2, <1>11
  <2>2. \/ Calm \/ CreateObject(t) \/ \E x \in Mutexes : Links(t, x) \/ Release(t, x)
        \/ \E m \in Methods : Aborts(t, m) \/ Enters(t, m, TRUE) \/ Enters(t, m, FALSE)
    BY <1>1, <1>11, Classes
  <2>3. CASE \E m \in Methods : Aborts(t, m) \/ Enters(t, m, TRUE) \/ Enters(t, m, FALSE)
    <3>1. TRUE \in BOOLEAN /\ FALSE \in BOOLEAN  OBVIOUS
    <3> QED  BY <1>9, <1>10, <1>11, <2>1, <2>3, <3>1
  <2> QED  BY <1>7, <1>8, <1>11, <2>1, <2>2, <2>3
<1> QED  BY <1>5, <1>6, <1>11

-----------------------------------------------------------------------------
(* The order of waiting, the levels and the objects                        *)

FurtherInv == /\ Order
              /\ LeavesAlone
              /\ SerializedKeepsObjects
              /\ Taken
              /\ Chained

LEMMA FurtherInit == Init => FurtherInv
<1> SUFFICES ASSUME Init PROVE FurtherInv  OBVIOUS
<1>1. \A t \in Threads : frames[t] = <<>> /\ pc[t] = "outside"  BY DEF Init
<1>2. DOMAIN <<>> = {}  OBVIOUS
<1>3. LeavesAlone  BY <1>1 DEF LeavesAlone
<1>4. SerializedKeepsObjects  BY <1>1, <1>2 DEF SerializedKeepsObjects
<1>5. Taken  BY <1>1, <1>2 DEF Taken, TakenOnce, Took
<1>6. Chained  BY <1>1 DEF Chained
<1> QED  BY OrderInit, <1>3, <1>4, <1>5, <1>6 DEF FurtherInv

LEMMA FurtherSame == FurtherInv /\ UNCHANGED vars => FurtherInv'
<1> SUFFICES ASSUME FurtherInv, UNCHANGED vars PROVE FurtherInv'  OBVIOUS
<1> USE DEF vars, threadVars, lockVars, methodVars, history
<1>1. \A m \in Methods : Covered(m)'
  BY DEF FurtherInv, Order, Covered, Entries, FramesOf
<1>2. Declared'  BY DEF FurtherInv, Order, Declared
<1>3. OwnersIn'  BY DEF FurtherInv, Order, OwnersIn, Executes, FramesOf
<1>4. WaitOrder'  BY DEF FurtherInv, Order, WaitOrder, Nested
<1>5. LeavesAlone'  BY DEF FurtherInv, LeavesAlone, Top, HasMutex
<1>6. SerializedKeepsObjects'  BY DEF FurtherInv, SerializedKeepsObjects, HasMutex
<1>7. Taken'  BY DEF FurtherInv, Taken, TakenOnce, HasMutex
<1>8. Chained'  BY DEF FurtherInv, Chained
<1> QED  BY <1>1, <1>2, <1>3, <1>4, <1>5, <1>6, <1>7, <1>8 DEF FurtherInv, Order

LEMMA FurtherStep == Inv /\ FurtherInv /\ [Next]_vars => FurtherInv'
<1> SUFFICES ASSUME Inv, FurtherInv, [Next]_vars PROVE FurtherInv'  OBVIOUS
<1>1. Inv'  BY InvStep
<1>2. CASE UNCHANGED vars  BY <1>2, FurtherSame
<1>3. ASSUME NEW t \in Threads, StepOf(t) PROVE FurtherInv'
  <2>1. Order'  BY <1>1, <1>3, OrderStep DEF FurtherInv
  <2>2. \A m \in Methods : Covered(m)'  BY <2>1 DEF Order
  <2>3. LeavesAlone'  BY <1>1, <1>3, <2>2, LeavesAloneStep DEF FurtherInv
  <2>4. SerializedKeepsObjects'  BY <1>1, <1>3, <2>2, ObjectsStep DEF FurtherInv
  <2>5. Taken'  BY <1>1, <1>3, <2>1, TakenStep DEF FurtherInv
  <2>6. Chained'  BY <1>1, <1>3, <2>5, ChainedStep DEF FurtherInv
  <2> QED  BY <2>1, <2>3, <2>4, <2>5, <2>6 DEF FurtherInv
<1>4. Next => \E t \in Threads : StepOf(t)  BY DEF Next, StepOf
<1> QED  BY <1>2, <1>3, <1>4

LEMMA FurtherHolds == Spec => [](Inv /\ FurtherInv)
BY InvInit, InvStep, FurtherInit, FurtherStep, PTL DEF Spec

\* What a call of a serialized method created exists as long as the call, although the
\* last thread to leave a method deletes its objects outside the interpreter.
THEOREM MethodsKeepObjects == Spec => []SerializedKeepsObjects
<1>1. Inv /\ FurtherInv => SerializedKeepsObjects  BY DEF FurtherInv
<1> QED  BY <1>1, FurtherHolds, PTL

\* A list's mutexes are those from the one that was acquired first.
LEMMA LowestAll ==
  ASSUME NEW s \in Seq(Mutexes)
  PROVE  Lowest(s, Len(s)) = ToSet(s)
<1>1. PICK n \in Nat : n = Len(s)  OBVIOUS
<1>2. DOMAIN s = 1..n  BY <1>1
<1>3. \A p \in 0..(n - 1) : n - p \in 1..n  OBVIOUS
<1>4. \A i \in 1..n : n - i \in 0..(n - 1) /\ n - (n - i) = i  OBVIOUS
<1>5. \A p \in 0..(n - 1) : Nth(s, p) = s[n - p]  BY <1>1 DEF Nth
<1>6. ToSet(s) = {s[i] : i \in 1..n}  BY <1>2 DEF ToSet
<1>7. ASSUME NEW x PROVE x \in Lowest(s, n) <=> x \in ToSet(s)
  <2>1. ASSUME NEW p \in 0..(n - 1), x = Nth(s, p) PROVE x \in ToSet(s)
    BY <1>3, <1>5, <1>6, <2>1
  <2>2. ASSUME NEW i \in 1..n, x = s[i] PROVE \E p \in 0..(n - 1) : x = Nth(s, p)
    <3>1. x = Nth(s, n - i)  BY <1>4, <1>5, <2>2
    <3> QED  BY <1>4, <3>1
  <2> QED  BY <1>6, <2>1, <2>2 DEF Lowest
<1> QED  BY <1>1, <1>7

\* Of a thread that releases what it acquires within the method that acquired it, the
\* current level is the highest of what it has, through recursive calls, calls of methods
\* of other levels and releases out of order.
THEOREM MethodsKeepLevels == Spec => []LevelIsHighestHeld
<1>1. Inv /\ FurtherInv => LevelIsHighestHeld
  <2> SUFFICES ASSUME Inv, FurtherInv, NEW t \in Threads, t \notin skewed, Nested(t)
               PROVE  level[t] = Max(LevelsHeld(t))
    BY DEF LevelIsHighestHeld
  <2>1. /\ frames[t] \in Seq(Frame) /\ frames[t] # <<>> /\ acquired[t] \in Seq(Mutexes)
        /\ Chain(frames[t], acquired[t], level[t], original)
    BY DEF Inv, Typing, TypeOK, Nested, FurtherInv, Chained
  <2>2. Took(frames[t]) = {j \in DOMAIN frames[t] : frames[t][j].took}  BY DEF Took
  <2>3. LevelsHeld(t) = LevelsOf(frames[t], Lowest(acquired[t], Len(acquired[t])),
                                 Took(frames[t]))
    BY <2>1, <2>2, LowestAll DEF LevelsHeld, LevelsOf
  <2>4. Highest(level[t], LevelsHeld(t))  BY <2>1, <2>3 DEF Chain
  <2>5. \A w \in LevelsHeld(t) : w \in 0..15
    <3>1. /\ Lowest(acquired[t], Len(acquired[t])) \subseteq Mutexes
          /\ Took(frames[t]) \subseteq Took(frames[t])
      <4>1. Len(acquired[t]) \in Nat /\ Len(acquired[t]) <= Len(acquired[t])  BY <2>1
      <4> QED  BY <2>1, <4>1, LowestIn
    <3> QED  BY <2>1, <2>3, <3>1, LevelsIn
  <2> DEFINE S == LevelsHeld(t)
             v == level[t]
  <2>6. v \in S /\ \A w \in S : w <= v /\ w \in 0..15  BY <2>4, <2>5 DEF Highest
  <2> HIDE DEF S, v
  <2>7. \A w \in S : w >= v => w = v  BY <2>6
  <2>8. \A w \in S : v >= w  BY <2>6
  <2>9. Max(S) = v  BY <2>6, <2>7, <2>8 DEF Max
  <2> QED  BY <2>9 DEF S, v
<1> QED  BY <1>1, FurtherHolds, PTL

\* A lock's owner runs, at the level of the lock or above it.
LEMMA LevelOfOwner ==
  ASSUME Inv, FurtherInv, NEW u \in Threads, u \notin skewed, NEW l \in Locks, l \notin damaged,
         owner[l] = u, l \in Methods => HasMutex(l)
  PROVE  Nested(u) /\ SyncLevel[l] <= level[u]
<1>1. /\ acquired[u] \in Seq(Mutexes) /\ frames[u] \in Seq(Frame)
      /\ OwnersIn /\ TakenOnce(u)
      /\ frames[u] # <<>> => Chain(frames[u], acquired[u], level[u], original)
  BY DEF Inv, Typing, TypeOK, FurtherInv, Order, Taken, Chained
<1>2. frames[u] # <<>> => Highest(level[u], LevelsOf(frames[u],
                              Lowest(acquired[u], Len(acquired[u])), Took(frames[u])))
  BY <1>1 DEF Chain
<1>3. CASE l \in Mutexes
  <2>1. Contains(acquired[u], l)  BY <1>3 DEF Inv, Listed
  <2>2. l \in ToSet(acquired[u])  BY <2>1 DEF Contains, ToSet
  <2>3. frames[u] # <<>>
    <3>1. acquired[u] # <<>>  BY <1>1, <2>1 DEF Contains
    <3> QED  BY <1>1, <3>1 DEF OwnersIn
  <2>4. l \in Lowest(acquired[u], Len(acquired[u]))  BY <1>1, <2>2, LowestAll
  <2>5. SyncLevel[l] \in LevelsOf(frames[u], Lowest(acquired[u], Len(acquired[u])),
                                  Took(frames[u]))
    BY <2>4 DEF LevelsOf
  <2> QED  BY <1>2, <2>3, <2>5 DEF Highest, Nested
<1>4. CASE l \in Methods
  <2>1. Executes(u, l) /\ HasMutex(l)  BY <1>1, <1>4 DEF OwnersIn
  <2>2. PICK i \in DOMAIN frames[u] : frames[u][i].method = l
    BY <2>1 DEF Executes, FramesOf
  <2>3. PICK j \in Took(frames[u]) : frames[u][j].method = l
    BY <1>1, <2>1, <2>2 DEF TakenOnce
  <2>4. frames[u] # <<>>  BY <2>2
  <2>5. SyncLevel[l] \in LevelsOf(frames[u], Lowest(acquired[u], Len(acquired[u])),
                                  Took(frames[u]))
    BY <2>3, LevelsAre
  <2> QED  BY <1>2, <2>4, <2>5 DEF Highest, Nested
<1> QED  BY <1>3, <1>4 DEF Locks

LEMMA Peak ==
  ASSUME NEW S, S # {}, NEW f, \A t \in S : f[t] \in 0..15
  PROVE  \E t \in S : \A u \in S : f[u] <= f[t]
<1> DEFINE Above(d) == \A t \in S : \E u \in S : f[u] >= f[t] + d
<1> SUFFICES ASSUME \A t \in S : \E u \in S : ~(f[u] <= f[t]) PROVE FALSE  OBVIOUS
<1>1. Above(1)
  <2> SUFFICES ASSUME NEW t \in S PROVE \E u \in S : f[u] >= f[t] + 1  OBVIOUS
  <2>1. PICK u \in S : ~(f[u] <= f[t])  OBVIOUS
  <2>2. f[t] \in 0..15 /\ f[u] \in 0..15  OBVIOUS
  <2>3. f[u] >= f[t] + 1  BY ONLY <2>1, <2>2
  <2> QED  BY <2>3
<1>2. ASSUME NEW d \in Nat, Above(d) PROVE Above(d + d)
  <2> SUFFICES ASSUME NEW t \in S PROVE \E u \in S : f[u] >= f[t] + (d + d)  OBVIOUS
  <2>1. PICK u \in S : f[u] >= f[t] + d  BY <1>2
  <2>2. PICK v \in S : f[v] >= f[u] + d  BY <1>2
  <2>3. f[t] \in 0..15 /\ f[u] \in 0..15 /\ f[v] \in 0..15  OBVIOUS
  <2>4. f[v] >= f[t] + (d + d)  BY ONLY <2>1, <2>2, <2>3, d \in Nat
  <2> QED  BY <2>4
<1> HIDE DEF Above
<1>3. 1 + 1 = 2 /\ 2 + 2 = 4 /\ 4 + 4 = 8 /\ 8 + 8 = 16 /\ {1, 2, 4, 8} \subseteq Nat  OBVIOUS
<1>4. Above(2)  BY <1>1, <1>2, <1>3
<1>5. Above(4)  BY <1>2, <1>3, <1>4
<1>6. Above(8)  BY <1>2, <1>3, <1>5
<1>7. Above(16)  BY <1>2, <1>3, <1>6
<1>8. PICK t \in S, u \in S : f[u] >= f[t] + 16  BY <1>7 DEF Above
<1>9. f[t] \in 0..15 /\ f[u] \in 0..15  OBVIOUS
<1> QED  BY ONLY <1>8, <1>9

\* Threads that wait for each other in a circle wait for two locks of one level, if each
\* releases what it acquires within the method that acquired it, and the locks are in
\* order: the one that waits for the highest level waits for a thread of that level, which
\* waits for no lower one.
THEOREM MethodsWaitInOrder == Spec => []NoCircularWait
<1>1. Inv /\ FurtherInv => NoCircularWait
  <2> SUFFICES ASSUME Inv, FurtherInv, NEW S, S \subseteq Threads, S # {},
                      \A t \in S : /\ Waits(t) /\ t \notin skewed
                                   /\ wants[t] \in Methods => kind[wants[t]] = "serialized"
                                   /\ wants[t] \notin damaged
                                   /\ \E u \in S : owner[wants[t]] = u
               PROVE  \E t, u \in S : t # u /\ SyncLevel[wants[t]] = SyncLevel[wants[u]]
    BY DEF NoCircularWait
  <2>1. WaitOrder /\ level \in [Threads -> 0..15]
    BY DEF FurtherInv, Order, Inv, Typing, TypeOK
  <2>2. ASSUME NEW t \in S PROVE wants[t] \in Locks /\ SyncLevel[wants[t]] \in 0..15
    <3>1. wants[t] \in Locks  BY DEF Inv, Typing, Places, Waits
    <3> QED  BY <3>1, MethodAssumption DEF Locks
  <2>3. PICK t \in S : \A u \in S : SyncLevel[wants[u]] <= SyncLevel[wants[t]]
    <3> DEFINE f == [u \in S |-> SyncLevel[wants[u]]]
    <3>1. \A u \in S : f[u] = SyncLevel[wants[u]] /\ f[u] \in 0..15  BY <2>2
    <3> HIDE DEF f
    <3>2. \E v \in S : \A u \in S : f[u] <= f[v]  BY <3>1, Peak
    <3> QED  BY <3>1, <3>2
  <2>4. PICK u \in S : owner[wants[t]] = u  OBVIOUS
  <2>5. Nested(u) /\ SyncLevel[wants[t]] <= level[u]
    <3>1. /\ u \in Threads /\ u \notin skewed /\ wants[t] \in Locks /\ wants[t] \notin damaged
          /\ wants[t] \in Methods => HasMutex(wants[t])
      BY <2>2 DEF HasMutex
    <3> QED  BY <2>4, <3>1, LevelOfOwner
  <2>6. level[u] <= SyncLevel[wants[u]]  BY <2>1, <2>5 DEF WaitOrder, Waits
  <2>7. t # u  BY <2>1, <2>4 DEF WaitOrder, Waits
  <2>8. SyncLevel[wants[t]] = SyncLevel[wants[u]]
    <3>1. level[u] \in 0..15  BY <2>1
    <3>2. SyncLevel[wants[t]] \in 0..15 /\ SyncLevel[wants[u]] \in 0..15  BY <2>2
    <3>3. SyncLevel[wants[u]] <= SyncLevel[wants[t]]  BY <2>3
    <3> QED  BY ONLY <2>5, <2>6, <3>1, <3>2, <3>3
  <2> QED  BY <2>7, <2>8
<1> QED  BY <1>1, FurtherHolds, PTL
=============================================================================
