--------------------- MODULE AddressSpaceHandlersProofs ---------------------
(***************************************************************************)
(* Proofs about the address space handlers, for any threads, readers,      *)
(* clients and any number of registrations and removals.                   *)
(*                                                                         *)
(* Three invariants beside the types. FirstOf: as long as only one write   *)
(* was begun in a space it is a registration, so a member goes from Null   *)
(* to its client once and what was loaded stays true. OwnPair: while no    *)
(* two writers meet, what a writer has stored stays as it stored it.       *)
(* QuietOf: beside a read that was not overlapped nobody writes, so what   *)
(* it has loaded is what is there.                                         *)
(***************************************************************************)
EXTENDS AddressSpaceHandlers, TLAPS

Loaded(t)     == Members \ thread[t].todo
Writing(t, s) == thread[t].pc \in {"register", "unregister"} /\ thread[t].space = s
Alone(s)      == \A t \in Threads : ~Writing(t, s)

FirstOf(s) ==
    /\ writes[s] = 0 => enrolled[s] = {}
    /\ writes[s] <= 1 =>
         /\ \A m \in Members : members[s][m] # Null => enrolled[s] = {members[s][m]}
         /\ \A t \in Threads : Writing(t, s) =>
                thread[t].pc = "register" /\ enrolled[s] = {thread[t].client}
         /\ \A t \in Threads : thread[t].space = s =>
                /\ thread[t].pc = "load" =>
                     \A m \in Loaded(t) : thread[t].seen[m] \in {Null, members[s][m]}
                /\ thread[t].pc \in {"call", "called"} =>
                     \A m \in Members : /\ thread[t].seen[m] # Null
                                        /\ thread[t].seen[m] = members[s][m]

OwnPair(s) ==
    s \notin mixed =>
      /\ \A t, u \in Threads : Writing(t, s) /\ Writing(u, s) => t = u
      /\ Alone(s) => members[s].context \in {Null, members[s].handler}
      /\ \A t \in Threads : Writing(t, s) =>
           /\ thread[t].todo # {}
           /\ \A m \in Loaded(t) : members[s][m] = Stored(t, m)

QuietOf(t) ==
    LET th == thread[t] IN
    t \in Reading \ overlapped =>
      /\ \A s \in Spaces : Alone(s)
      /\ \/ th.space = th.asked
         \/ th.space = "SMBus" /\ ~Callable(members[th.asked])
      /\ th.pc = "load" => \A m \in Loaded(t) : th.seen[m] = members[th.space][m]
      /\ th.pc \in {"call", "called"} => th.seen = members[th.space] /\ Callable(th.seen)
      /\ th.pc = "none" => ~Callable(members[th.asked]) /\ ~Callable(members["SMBus"])

Inv == /\ TypeOK
       /\ \A s \in Spaces : FirstOf(s)
       /\ \A s \in Spaces : OwnPair(s)
       /\ \A t \in Threads : QuietOf(t)

-----------------------------------------------------------------------------
(* What the steps do                                                       *)

LEMMA WritersAlone == \A s : Writers(s) = {} <=> Alone(s)
  BY DEF Writers, Alone, Writing

\* A pair is read and written by the names of its members.
LEMMA PairFields ==
  ASSUME NEW p \in Pair
  PROVE  p["handler"] = p.handler /\ p["context"] = p.context
  BY DEF Pair

LEMMA PairEqual ==
  ASSUME NEW p \in Pair, NEW q \in Pair, \A m \in Members : p[m] = q[m]
  PROVE  p = q
  BY DEF Pair, Members

LEMMA CallableIs ==
  ASSUME NEW p \in Pair
  PROVE  Callable(p) <=> \A m \in Members : p[m] # Null
  BY DEF Pair, Members, Callable

\* The other threads are left alone.
Others(t) == \A u \in Threads : u # t => thread'[u] = thread[u]

LEMMA BeginWriteDoes ==
  ASSUME TypeOK, NEW t \in Threads, NEW what \in {"register", "unregister"},
         NEW s \in Spaces, NEW c \in Clients, BeginWrite(t, what, s, c)
  PROVE  /\ thread[t].pc = "idle"
         /\ thread' \in [Threads -> Thread]
         /\ thread'[t].pc = what /\ thread'[t].space = s /\ thread'[t].client = c
         /\ thread'[t].todo = Members
         /\ Others(t)
         /\ writes' \in [Spaces -> 0..MaxWrites]
         /\ writes'[s] = writes[s] + 1
         /\ \A u \in Spaces : u # s => writes'[u] = writes[u]
  <1>1. thread \in [Threads -> Thread] /\ writes \in [Spaces -> 0..MaxWrites] /\ MaxWrites \in Nat
    BY HandlerAssumption DEF TypeOK
  <1>2. PICK r : r = [Idle EXCEPT !.pc = what, !.space = s, !.client = c, !.todo = Members]
    OBVIOUS
  <1>3. /\ r \in Thread
        /\ r.pc = what /\ r.space = s /\ r.client = c /\ r.todo = Members
    BY <1>2 DEF Idle, Thread, Spaces, Members, Pair, NoPair
  <1>4. thread' = [thread EXCEPT ![t] = r] /\ thread[t].pc = "idle"
    BY <1>2 DEF BeginWrite, At
  <1>5. writes["EC"] + writes["SMBus"] < MaxWrites /\ writes' = [writes EXCEPT ![s] = @ + 1]
    BY DEF BeginWrite
  <1>6. writes[s] + 1 \in 0..MaxWrites
    <2>1. PICK a \in Nat, b \in Nat : a = writes["EC"] /\ b = writes["SMBus"]
      BY <1>1 DEF Spaces
    <2>2. a < MaxWrites /\ b < MaxWrites
      BY <1>1, <1>5, <2>1
    <2>3. writes[s] \in {a, b}
      BY <2>1 DEF Spaces
    <2> QED BY <1>1, <2>2, <2>3
  <1>7. writes' \in [Spaces -> 0..MaxWrites] /\ writes'[s] = writes[s] + 1
        /\ \A u \in Spaces : u # s => writes'[u] = writes[u]
    BY <1>1, <1>5, <1>6
  <1>8. thread' \in [Threads -> Thread] /\ thread'[t] = r /\ Others(t)
    BY <1>1, <1>3, <1>4 DEF Others
  <1> QED BY <1>3, <1>4, <1>7, <1>8

\* One member takes what the writer stores. The writer goes on, or is done.
LEMMA StoreDoes ==
  ASSUME TypeOK, NEW t \in Threads, NEW m \in Members, Store(t, m)
  PROVE  /\ Writing(t, thread[t].space)
         /\ m \in thread[t].todo
         /\ thread[t].space \in Spaces
         /\ members' \in [Spaces -> Pair]
         /\ \A s \in Spaces, n \in Members :
              members'[s][n] = IF s = thread[t].space /\ n = m THEN Stored(t, m) ELSE members[s][n]
         /\ thread' \in [Threads -> Thread]
         /\ Others(t)
         /\ \/ thread[t].todo = {m} /\ thread'[t].pc = "idle"
            \/ /\ thread[t].todo # {m}
               /\ thread'[t].pc = thread[t].pc
               /\ thread'[t].space = thread[t].space
               /\ thread'[t].client = thread[t].client
               /\ thread'[t].todo = thread[t].todo \ {m}
  <1>1. members \in [Spaces -> Pair] /\ thread \in [Threads -> Thread]
    BY DEF TypeOK
  <1>2. /\ thread[t].pc \in {"register", "unregister"} /\ m \in thread[t].todo
        /\ members' = [members EXCEPT ![thread[t].space][m] = Stored(t, m)]
        /\ thread' = [thread EXCEPT ![t] = IF thread[t].todo = {m} THEN Idle
                                           ELSE [thread[t] EXCEPT !.todo = @ \ {m}]]
    BY DEF Store, At
  <1>3. PICK s \in Spaces : s = thread[t].space
    BY <1>1 DEF Thread
  <1>4. PICK x : x = Stored(t, m)
    OBVIOUS
  <1>5. x \in Clients \cup {Null} /\ (m = "context" => x \in WithContext \cup {Null})
    BY <1>1, <1>4 DEF Stored, Thread
  <1>6. members' = [members EXCEPT ![s][m] = x]
    BY <1>2, <1>3, <1>4
  <1>7. members' \in [Spaces -> Pair]
    BY <1>1, <1>5, <1>6 DEF Pair, Members
  <1>8. \A r \in Spaces, n \in Members :
          members'[r][n] = IF r = s /\ n = m THEN x ELSE members[r][n]
    BY <1>1, <1>6 DEF Pair, Members
  <1>9. Idle \in Thread /\ Idle.pc = "idle"
    BY DEF Idle, Thread, Spaces, Members, Pair, NoPair
  <1>10. PICK r : r = [thread[t] EXCEPT !.todo = @ \ {m}]
    OBVIOUS
  <1>11. /\ r \in Thread /\ r.pc = thread[t].pc /\ r.space = thread[t].space
         /\ r.client = thread[t].client /\ r.todo = thread[t].todo \ {m}
    BY <1>1, <1>10 DEF Thread
  <1>12. /\ thread' \in [Threads -> Thread]
         /\ thread'[t] = IF thread[t].todo = {m} THEN Idle ELSE r
         /\ Others(t)
    BY <1>1, <1>2, <1>9, <1>10, <1>11 DEF Others
  <1>13. \/ thread[t].todo = {m} /\ thread'[t].pc = "idle"
         \/ /\ thread[t].todo # {m}
            /\ thread'[t].pc = thread[t].pc
            /\ thread'[t].space = thread[t].space
            /\ thread'[t].client = thread[t].client
            /\ thread'[t].todo = thread[t].todo \ {m}
    BY <1>9, <1>11, <1>12
  <1> QED BY <1>2, <1>3, <1>4, <1>7, <1>8, <1>12, <1>13 DEF Writing

\* A step of a reader.
LEMMA ReaderDoes ==
  ASSUME TypeOK, NEW t \in Threads, NEW r \in Thread,
         thread' = [thread EXCEPT ![t] = r]
  PROVE  /\ thread' \in [Threads -> Thread]
         /\ thread'[t] = r
         /\ Others(t)
  BY DEF TypeOK, Others

LEMMA LoadDoes ==
  ASSUME TypeOK, NEW t \in Threads, NEW m \in Members, Load(t, m)
  PROVE  /\ thread[t].pc \in {"load", "call"} /\ thread'[t].pc = thread[t].pc
         /\ thread[t].space \in Spaces
         /\ thread'[t].space = thread[t].space /\ thread'[t].asked = thread[t].asked
         /\ thread'[t].todo = thread[t].todo \ {m}
         /\ \A n \in Members : thread'[t].seen[n] =
               IF n = m THEN members[thread[t].space][m] ELSE thread[t].seen[n]
         /\ thread' \in [Threads -> Thread]
         /\ Others(t)
         /\ UNCHANGED <<members, enrolled, writes, mixed, overlapped>>
  <1>1. members \in [Spaces -> Pair] /\ thread \in [Threads -> Thread]
    BY DEF TypeOK
  <1>2. PICK th \in Thread : th = thread[t]
    BY <1>1
  <1>3. PICK x : x = members[th.space][m]
    OBVIOUS
  <1>4. th.space \in Spaces /\ th.seen \in Pair /\ th.todo \in SUBSET Members
    BY DEF Thread
  <1>5. x \in Clients \cup {Null} /\ (m = "context" => x \in WithContext \cup {Null})
    <2>1. PICK q \in Pair : q = members[th.space]
      BY <1>1, <1>4
    <2>2. x = q[m] /\ m \in {"handler", "context"}
      BY <1>3, <2>1 DEF Members
    <2>3. q["handler"] \in Clients \cup {Null} /\ q["context"] \in WithContext \cup {Null}
      BY DEF Pair
    <2> QED BY <2>2, <2>3, HandlerAssumption
  <1>6. PICK p : p = [th.seen EXCEPT ![m] = x]
    OBVIOUS
  <1>7. p \in Pair /\ \A n \in Members : p[n] = IF n = m THEN x ELSE th.seen[n]
    BY <1>4, <1>5, <1>6 DEF Pair, Members
  <1>8. PICK r : r = [th EXCEPT !.seen = p, !.todo = th.todo \ {m}]
    OBVIOUS
  <1>9. /\ r \in Thread
        /\ r.pc = th.pc /\ r.space = th.space /\ r.asked = th.asked
        /\ r.todo = th.todo \ {m} /\ r.seen = p
    BY <1>2, <1>4, <1>7, <1>8 DEF Thread
  <1>10. thread' = [thread EXCEPT ![t] = r]
    BY <1>1, <1>2, <1>3, <1>6, <1>8 DEF Load, Thread
  <1>11. thread' \in [Threads -> Thread] /\ thread'[t] = r /\ Others(t)
    BY <1>9, <1>10, ReaderDoes
  <1>12. /\ th.pc \in {"load", "call"}
         /\ UNCHANGED <<members, enrolled, writes, mixed, overlapped>>
    BY <1>2 DEF Load, At, readVars
  <1> QED BY <1>2, <1>3, <1>4, <1>7, <1>9, <1>11, <1>12

LEMMA ReadDoes ==
  ASSUME TypeOK, NEW t \in Threads, NEW s \in Spaces, readAddressSpace(t, s)
  PROVE  /\ thread[t].pc = "idle" /\ thread'[t].pc = "load"
         /\ thread'[t].space = s /\ thread'[t].asked = s
         /\ thread'[t].todo = Members
         /\ thread' \in [Threads -> Thread]
         /\ Others(t)
         /\ UNCHANGED <<members, enrolled, writes, mixed>>
         /\ overlapped' = IF \E u \in Spaces : Writers(u) # {}
                          THEN overlapped \cup {t} ELSE overlapped
  <1>1. PICK r : r = [Idle EXCEPT !.pc = "load", !.space = s, !.asked = s, !.todo = Members]
    OBVIOUS
  <1>2. r \in Thread /\ r.pc = "load" /\ r.space = s /\ r.asked = s /\ r.todo = Members
    BY <1>1 DEF Idle, Thread, Spaces, Members, Pair, NoPair
  <1>3. thread' = [thread EXCEPT ![t] = r]
    BY <1>1 DEF readAddressSpace
  <1> QED BY <1>2, <1>3, ReaderDoes DEF readAddressSpace, At, readVars

LEMMA PassedDoes ==
  ASSUME TypeOK, NEW t \in Threads, TestPassed(t)
  PROVE  /\ thread[t].pc = "load" /\ thread'[t].pc = "call"
         /\ thread'[t].space = thread[t].space /\ thread'[t].asked = thread[t].asked
         /\ thread[t].todo = {}
         /\ thread'[t].seen = thread[t].seen /\ Callable(thread[t].seen)
         /\ thread' \in [Threads -> Thread]
         /\ Others(t)
         /\ UNCHANGED <<members, enrolled, writes, mixed, overlapped>>
  <1>1. thread \in [Threads -> Thread]
    BY DEF TypeOK
  <1>2. PICK r : r = [thread[t] EXCEPT !.pc = "call", !.todo = Members]
    OBVIOUS
  <1>3. /\ r \in Thread /\ r.pc = "call" /\ r.space = thread[t].space
        /\ r.asked = thread[t].asked /\ r.seen = thread[t].seen
    BY <1>1, <1>2 DEF Thread
  <1>4. thread' = [thread EXCEPT ![t] = r]
    BY <1>1, <1>2 DEF TestPassed, Thread
  <1> QED BY <1>3, <1>4, ReaderDoes DEF TestPassed, At, readVars

LEMMA FailedDoes ==
  ASSUME TypeOK, NEW t \in Threads, TestFailed(t)
  PROVE  /\ thread[t].pc = "load" /\ thread[t].todo = {} /\ ~Callable(thread[t].seen)
         /\ thread'[t].asked = thread[t].asked
         /\ \/ /\ thread[t].space = "EC" /\ thread'[t].space = "SMBus"
               /\ thread'[t].pc = "load" /\ thread'[t].todo = Members
            \/ /\ thread[t].space = "SMBus" /\ thread'[t].space = "SMBus"
               /\ thread'[t].pc = "none"
         /\ thread' \in [Threads -> Thread]
         /\ Others(t)
         /\ UNCHANGED <<members, enrolled, writes, mixed, overlapped>>
  <1>1. thread \in [Threads -> Thread]
    BY DEF TypeOK
  <1>2. /\ thread[t].pc = "load" /\ thread[t].todo = {} /\ ~Callable(thread[t].seen)
        /\ UNCHANGED <<members, enrolled, writes, mixed, overlapped>>
    BY DEF TestFailed, At, readVars
  <1>3. CASE \E s \in Below(thread[t].space) :
               thread' = [thread EXCEPT ![t].space = s, ![t].todo = Members]
    <2>1. thread[t].space = "EC" /\ thread' = [thread EXCEPT ![t].space = "SMBus", ![t].todo = Members]
      BY <1>3 DEF Below
    <2>2. PICK r : r = [thread[t] EXCEPT !.space = "SMBus", !.todo = Members]
      OBVIOUS
    <2>3. /\ r \in Thread /\ r.pc = "load" /\ r.space = "SMBus"
          /\ r.asked = thread[t].asked /\ r.todo = Members
      BY <1>1, <1>2, <2>2 DEF Thread, Spaces
    <2>4. thread' = [thread EXCEPT ![t] = r]
      BY <1>1, <2>1, <2>2 DEF Thread
    <2> QED BY <1>2, <2>1, <2>3, <2>4, ReaderDoes
  <1>4. CASE Below(thread[t].space) = {} /\ thread' = [thread EXCEPT ![t].pc = "none"]
    <2>1. thread[t].space = "SMBus"
      BY <1>1, <1>4 DEF Below, Thread, Spaces
    <2>2. PICK r : r = [thread[t] EXCEPT !.pc = "none"]
      OBVIOUS
    <2>3. /\ r \in Thread /\ r.pc = "none" /\ r.space = "SMBus" /\ r.asked = thread[t].asked
      BY <1>1, <2>1, <2>2 DEF Thread, Spaces
    <2>4. thread' = [thread EXCEPT ![t] = r]
      BY <1>1, <1>4, <2>2 DEF Thread
    <2> QED BY <1>2, <2>1, <2>3, <2>4, ReaderDoes
  <1> QED BY <1>3, <1>4 DEF TestFailed

LEMMA CallDoes ==
  ASSUME TypeOK, NEW t \in Threads, Call(t)
  PROVE  /\ thread[t].pc = "call" /\ thread'[t].pc = "called"
         /\ thread'[t].space = thread[t].space /\ thread'[t].asked = thread[t].asked
         /\ thread'[t].seen = thread[t].seen
         /\ thread' \in [Threads -> Thread]
         /\ Others(t)
         /\ UNCHANGED <<members, enrolled, writes, mixed, overlapped>>
  <1>1. thread \in [Threads -> Thread]
    BY DEF TypeOK
  <1>2. PICK r : r = [thread[t] EXCEPT !.pc = "called", !.todo = {}]
    OBVIOUS
  <1>3. /\ r \in Thread /\ r.pc = "called" /\ r.space = thread[t].space
        /\ r.asked = thread[t].asked /\ r.seen = thread[t].seen
    BY <1>1, <1>2 DEF Thread
  <1>4. thread' = [thread EXCEPT ![t] = r]
    BY <1>1, <1>2 DEF Call, Thread
  <1> QED BY <1>3, <1>4, ReaderDoes DEF Call, At, readVars

LEMMA ReturnDoes ==
  ASSUME TypeOK, NEW t \in Threads, Return(t)
  PROVE  /\ thread[t].pc \in {"called", "none"} /\ thread'[t].pc = "idle"
         /\ thread' \in [Threads -> Thread]
         /\ Others(t)
         /\ UNCHANGED <<members, enrolled, writes, mixed>>
         /\ overlapped' = overlapped \ {t}
  <1>1. Idle \in Thread /\ Idle.pc = "idle"
    BY DEF Idle, Thread, Spaces, Members, Pair, NoPair
  <1> QED BY <1>1, ReaderDoes DEF Return, At, readVars

Reads(t) == \/ \E m \in Members : Load(t, m)
            \/ \E s \in Spaces : readAddressSpace(t, s)
            \/ TestPassed(t) \/ TestFailed(t) \/ Call(t) \/ Return(t)

LEMMA Cases ==
  ASSUME [Next]_vars
  PROVE  \/ UNCHANGED vars
         \/ \E t \in Threads, s \in Spaces, c \in Clients : registerAddressSpaceHandler(t, s, c)
         \/ \E t \in Threads, s \in Spaces, c \in Clients : unregisterAddressSpaceHandler(t, s, c)
         \/ \E t \in Threads, m \in Members : Store(t, m)
         \/ \E t \in Threads : Reads(t)
  BY DEF Next, Write, Read, Reads

\* What all steps of a reader have in common: nobody else sees them.
LEMMA ReadsOnly ==
  ASSUME TypeOK, NEW t \in Threads, Reads(t)
  PROVE  /\ UNCHANGED <<members, enrolled, writes, mixed>>
         /\ thread' \in [Threads -> Thread]
         /\ Others(t)
         /\ \A s : ~Writing(t, s) /\ ~Writing(t, s)'
         /\ overlapped' \in {overlapped, overlapped \cup {t}, overlapped \ {t}}
  <1>1. CASE \E m \in Members : Load(t, m)
    BY <1>1, LoadDoes DEF Writing
  <1>2. CASE \E s \in Spaces : readAddressSpace(t, s)
    BY <1>2, ReadDoes DEF Writing
  <1>3. CASE TestPassed(t)
    BY <1>3, PassedDoes DEF Writing
  <1>4. CASE TestFailed(t)
    BY <1>4, FailedDoes DEF Writing
  <1>5. CASE Call(t)
    BY <1>5, CallDoes DEF Writing
  <1>6. CASE Return(t)
    BY <1>6, ReturnDoes DEF Writing
  <1> QED BY <1>1, <1>2, <1>3, <1>4, <1>5, <1>6 DEF Reads

LEMMA TypeStep == TypeOK /\ [Next]_vars => TypeOK'
  <1> SUFFICES ASSUME TypeOK, [Next]_vars PROVE TypeOK'
    OBVIOUS
  <1>0. /\ members \in [Spaces -> Pair] /\ enrolled \in [Spaces -> SUBSET Clients]
        /\ writes \in [Spaces -> 0..MaxWrites] /\ mixed \subseteq Spaces
        /\ overlapped \subseteq Threads /\ thread \in [Threads -> Thread]
    BY DEF TypeOK
  <1>1. ASSUME NEW t \in Threads, NEW s \in Spaces, NEW c \in Clients,
               registerAddressSpaceHandler(t, s, c)
        PROVE  TypeOK'
    <2>1. BeginWrite(t, "register", s, c) /\ enrolled' = [enrolled EXCEPT ![s] = @ \cup {c}]
      BY <1>1 DEF registerAddressSpaceHandler
    <2>2. thread' \in [Threads -> Thread] /\ writes' \in [Spaces -> 0..MaxWrites]
      BY <2>1, BeginWriteDoes
    <2>3. mixed' \subseteq Spaces /\ overlapped' \subseteq Threads /\ members' = members
      BY <1>0, <2>1 DEF BeginWrite, Reading
    <2>4. enrolled' \in [Spaces -> SUBSET Clients]
      BY <1>0, <2>1
    <2> QED BY <1>0, <2>2, <2>3, <2>4 DEF TypeOK
  <1>2. ASSUME NEW t \in Threads, NEW s \in Spaces, NEW c \in Clients,
               unregisterAddressSpaceHandler(t, s, c)
        PROVE  TypeOK'
    <2>1. BeginWrite(t, "unregister", s, c) /\ enrolled' = [enrolled EXCEPT ![s] = @ \ {c}]
      BY <1>2 DEF unregisterAddressSpaceHandler
    <2>2. thread' \in [Threads -> Thread] /\ writes' \in [Spaces -> 0..MaxWrites]
      BY <2>1, BeginWriteDoes
    <2>3. mixed' \subseteq Spaces /\ overlapped' \subseteq Threads /\ members' = members
      BY <1>0, <2>1 DEF BeginWrite, Reading
    <2>4. enrolled' \in [Spaces -> SUBSET Clients]
      BY <1>0, <2>1
    <2> QED BY <1>0, <2>2, <2>3, <2>4 DEF TypeOK
  <1>3. ASSUME NEW t \in Threads, NEW m \in Members, Store(t, m) PROVE TypeOK'
    <2>1. UNCHANGED <<enrolled, writes, mixed, overlapped>>
      BY <1>3 DEF Store
    <2> QED BY <1>0, <1>3, <2>1, StoreDoes DEF TypeOK
  <1>4. ASSUME NEW t \in Threads, Reads(t) PROVE TypeOK'
    <2>1. overlapped' \subseteq Threads
      BY <1>0, <1>4, ReadsOnly
    <2> QED BY <1>0, <1>4, <2>1, ReadsOnly DEF TypeOK
  <1>5. CASE UNCHANGED vars
    BY <1>0, <1>5 DEF vars, TypeOK
  <1> QED BY Cases, <1>1, <1>2, <1>3, <1>4, <1>5

-----------------------------------------------------------------------------
(* The first registration                                                  *)

LEMMA FirstRegister ==
  ASSUME Inv, NEW s \in Spaces, NEW t \in Threads, NEW r \in Spaces, NEW c \in Clients,
         registerAddressSpaceHandler(t, r, c)
  PROVE  FirstOf(s)'
  <1>1. /\ BeginWrite(t, "register", r, c)
        /\ enrolled' = [enrolled EXCEPT ![r] = @ \cup {c}] /\ members' = members
    BY DEF registerAddressSpaceHandler, BeginWrite
  <1>2. TypeOK /\ FirstOf(s) /\ enrolled \in [Spaces -> SUBSET Clients]
        /\ writes \in [Spaces -> 0..MaxWrites]
    BY DEF Inv, TypeOK
  <1>3. /\ thread'[t].pc = "register" /\ thread'[t].space = r /\ thread'[t].client = c
        /\ Others(t)
        /\ writes'[r] = writes[r] + 1
        /\ \A u \in Spaces : u # r => writes'[u] = writes[u]
    BY <1>1, <1>2, BeginWriteDoes
  <1>4. CASE r # s
    <2>1. writes'[s] = writes[s] /\ enrolled'[s] = enrolled[s]
      BY <1>1, <1>2, <1>3, <1>4
    <2>2. \A u \in Threads : u = t \/ thread'[u] = thread[u]
      BY <1>3 DEF Others
    <2> QED BY <1>1, <1>2, <1>3, <1>4, <2>1, <2>2 DEF FirstOf, Writing, Loaded
  <1>5. CASE r = s
    <2>1. writes'[s] # 0 /\ writes[s] \in Nat
      BY <1>2, <1>3, <1>5
    <2>2. SUFFICES ASSUME writes'[s] <= 1 PROVE FirstOf(s)'
      BY <2>1 DEF FirstOf
    <2>3. writes[s] = 0
      BY <1>3, <1>5, <2>1, <2>2
    <2>4. enrolled[s] = {} /\ enrolled'[s] = {c}
      BY <1>1, <1>2, <1>5, <2>3 DEF FirstOf
    <2>a. writes[s] <= 1
      BY <2>3
    <2>b. /\ \A m \in Members : members[s][m] # Null => {} = {members[s][m]}
          /\ \A u \in Threads : Writing(u, s) => {} = {thread[u].client}
      BY <1>2, <2>4, <2>a DEF FirstOf
    <2>5. /\ \A m \in Members : members[s][m] = Null
          /\ \A u \in Threads : ~Writing(u, s)
      BY <2>b
    <2>6. \A u \in Threads : Writing(u, s)' => u = t
      BY <1>3, <2>5 DEF Others, Writing
    <2>7. \A u \in Threads : thread'[u].space = s =>
             /\ thread'[u].pc = "load" =>
                  \A m \in Loaded(u)' : thread'[u].seen[m] \in {Null, members'[s][m]}
             /\ thread'[u].pc \in {"call", "called"} =>
                  \A m \in Members : /\ thread'[u].seen[m] # Null
                                     /\ thread'[u].seen[m] = members'[s][m]
      BY <1>1, <1>2, <1>3, <2>3 DEF FirstOf, Others, Loaded
    <2> QED BY <1>1, <1>3, <1>5, <2>1, <2>4, <2>5, <2>6, <2>7 DEF FirstOf
  <1> QED BY <1>4, <1>5

LEMMA FirstUnregister ==
  ASSUME Inv, NEW s \in Spaces, NEW t \in Threads, NEW r \in Spaces, NEW c \in Clients,
         unregisterAddressSpaceHandler(t, r, c)
  PROVE  FirstOf(s)'
  <1>1. /\ BeginWrite(t, "unregister", r, c) /\ c \in enrolled[r]
        /\ enrolled' = [enrolled EXCEPT ![r] = @ \ {c}] /\ members' = members
    BY DEF unregisterAddressSpaceHandler, BeginWrite
  <1>2. TypeOK /\ FirstOf(s) /\ enrolled \in [Spaces -> SUBSET Clients]
        /\ writes \in [Spaces -> 0..MaxWrites]
    BY DEF Inv, TypeOK
  <1>3. /\ thread'[t].pc = "unregister" /\ thread'[t].space = r
        /\ Others(t)
        /\ writes'[r] = writes[r] + 1
        /\ \A u \in Spaces : u # r => writes'[u] = writes[u]
    BY <1>1, <1>2, BeginWriteDoes
  <1>4. CASE r # s
    <2>1. writes'[s] = writes[s] /\ enrolled'[s] = enrolled[s]
      BY <1>1, <1>2, <1>3, <1>4
    <2>2. \A u \in Threads : u = t \/ thread'[u] = thread[u]
      BY <1>3 DEF Others
    <2> QED BY <1>1, <1>2, <1>3, <1>4, <2>1, <2>2 DEF FirstOf, Writing, Loaded
  <1>5. CASE r = s
    <2>1. writes[s] \in Nat /\ writes[s] # 0
      BY <1>1, <1>2, <1>5 DEF FirstOf
    <2>2. ~(writes'[s] <= 1) /\ writes'[s] # 0
      BY <1>3, <1>5, <2>1
    <2> QED BY <2>2 DEF FirstOf
  <1> QED BY <1>4, <1>5

LEMMA FirstStore ==
  ASSUME Inv, NEW s \in Spaces, NEW t \in Threads, NEW m \in Members, Store(t, m)
  PROVE  FirstOf(s)'
  <1>1. UNCHANGED <<enrolled, writes, mixed, overlapped>>
    BY DEF Store
  <1>2. TypeOK /\ FirstOf(s) /\ members \in [Spaces -> Pair] /\ thread \in [Threads -> Thread]
    BY DEF Inv, TypeOK
  <1>3. /\ Writing(t, thread[t].space)
        /\ \A n \in Members :
              members'[s][n] = IF s = thread[t].space /\ n = m THEN Stored(t, m) ELSE members[s][n]
        /\ Others(t)
        /\ \A r : Writing(t, r)' => Writing(t, r) /\ thread'[t].client = thread[t].client
                                    /\ thread'[t].pc = thread[t].pc
        /\ thread'[t].pc \notin {"load", "call", "called"}
    BY <1>2, StoreDoes DEF Writing
  <1>4. \A u \in Threads : u = t \/ thread'[u] = thread[u]
    BY <1>3 DEF Others
  <1>5. CASE s # thread[t].space
    BY <1>1, <1>2, <1>3, <1>4, <1>5 DEF FirstOf, Writing, Loaded
  <1>6. CASE s = thread[t].space
    <2>1. SUFFICES ASSUME writes[s] <= 1 PROVE FirstOf(s)'
      BY <1>1, <1>2 DEF FirstOf
    <2>2. thread[t].pc = "register" /\ enrolled[s] = {thread[t].client}
      BY <1>2, <1>3, <1>6, <2>1 DEF FirstOf
    <2>3. Stored(t, m) \in {Null, thread[t].client}
      BY DEF Stored
    <2>4. ASSUME members[s][m] # Null PROVE Stored(t, m) = members[s][m]
      <3>1. members[s][m] = thread[t].client
        BY <1>2, <2>1, <2>2, <2>4 DEF FirstOf
      <3>2. CASE m = "context"
        <4>1. members[s][m] \in WithContext
          BY <1>2, <2>4, <3>2 DEF Pair
        <4> QED BY <2>2, <3>1, <4>1 DEF Stored
      <3>3. CASE m # "context"
        BY <2>2, <3>1, <3>3 DEF Stored
      <3> QED BY <3>2, <3>3
    <2>5. \A n \in Members : \/ members'[s][n] = members[s][n]
                             \/ /\ members[s][n] = Null
                                /\ members'[s][n] = thread[t].client
      BY <1>3, <2>3, <2>4
    <2>6. \A n \in Members : members'[s][n] # Null => enrolled[s] = {members'[s][n]}
      BY <1>2, <2>1, <2>2, <2>5 DEF FirstOf
    <2>7. \A u \in Threads : Writing(u, s)' =>
              thread'[u].pc = "register" /\ enrolled[s] = {thread'[u].client}
      BY <1>2, <1>3, <1>4, <2>1 DEF FirstOf, Writing
    <2>8. \A u \in Threads : thread'[u].space = s =>
             /\ thread'[u].pc = "load" =>
                  \A n \in Loaded(u)' : thread'[u].seen[n] \in {Null, members'[s][n]}
             /\ thread'[u].pc \in {"call", "called"} =>
                  \A n \in Members : /\ thread'[u].seen[n] # Null
                                     /\ thread'[u].seen[n] = members'[s][n]
      BY <1>2, <1>3, <1>4, <2>1, <2>5 DEF FirstOf, Loaded
    <2> QED BY <1>1, <1>2, <2>6, <2>7, <2>8 DEF FirstOf
  <1> QED BY <1>5, <1>6

\* What FirstOf says of one reader.
ReaderFirst(t, s) ==
    thread[t].space = s =>
      /\ thread[t].pc = "load" =>
           \A m \in Loaded(t) : thread[t].seen[m] \in {Null, members[s][m]}
      /\ thread[t].pc \in {"call", "called"} =>
           \A m \in Members : /\ thread[t].seen[m] # Null
                              /\ thread[t].seen[m] = members[s][m]

LEMMA FirstRead ==
  ASSUME Inv, NEW s \in Spaces, NEW t \in Threads, Reads(t)
  PROVE  FirstOf(s)'
  <1>1. TypeOK /\ FirstOf(s) /\ thread \in [Threads -> Thread]
    BY DEF Inv, TypeOK
  <1>2. /\ UNCHANGED <<members, enrolled, writes, mixed>> /\ Others(t)
        /\ ~Writing(t, s)'
    BY <1>1, ReadsOnly
  <1>3. SUFFICES ASSUME writes[s] <= 1 PROVE FirstOf(s)'
    BY <1>1, <1>2 DEF FirstOf
  <1>4. \A u \in Threads : ReaderFirst(u, s)
    BY <1>1, <1>3 DEF FirstOf, ReaderFirst
  <1>5. thread[t].seen \in Pair
    BY <1>1 DEF Thread
  <1>6. ReaderFirst(t, s)'
    <2>1. ASSUME NEW m \in Members, Load(t, m) PROVE ReaderFirst(t, s)'
      BY <1>1, <1>2, <1>4, <2>1, LoadDoes DEF ReaderFirst, Loaded
    <2>2. ASSUME NEW r \in Spaces, readAddressSpace(t, r) PROVE ReaderFirst(t, s)'
      BY <1>1, <2>2, ReadDoes DEF ReaderFirst, Loaded
    <2>3. CASE TestPassed(t)
      <3>1. \A m \in Members : thread[t].seen[m] # Null
        BY <1>1, <1>5, <2>3, PassedDoes, CallableIs
      <3> QED BY <1>1, <1>2, <1>4, <2>3, <3>1, PassedDoes DEF ReaderFirst, Loaded
    <2>4. CASE TestFailed(t)
      BY <1>1, <2>4, FailedDoes DEF ReaderFirst, Loaded
    <2>5. CASE Call(t)
      BY <1>1, <1>2, <1>4, <2>5, CallDoes DEF ReaderFirst, Loaded
    <2>6. CASE Return(t)
      BY <1>1, <2>6, ReturnDoes DEF ReaderFirst, Loaded
    <2> QED BY <2>1, <2>2, <2>3, <2>4, <2>5, <2>6 DEF Reads
  <1>7. \A u \in Threads : ReaderFirst(u, s)'
    BY <1>2, <1>4, <1>6 DEF Others, ReaderFirst, Loaded
  <1>8. \A u \in Threads : Writing(u, s)' =>
           thread'[u].pc = "register" /\ enrolled'[s] = {thread'[u].client}
    BY <1>1, <1>2, <1>3 DEF FirstOf, Others, Writing
  <1> QED BY <1>1, <1>2, <1>3, <1>7, <1>8 DEF FirstOf, ReaderFirst

-----------------------------------------------------------------------------
(* A pair that one writer at a time has stored                             *)

LEMMA OwnBegin ==
  ASSUME Inv, NEW s \in Spaces, NEW t \in Threads, NEW what \in {"register", "unregister"},
         NEW r \in Spaces, NEW c \in Clients, BeginWrite(t, what, r, c)
  PROVE  OwnPair(s)'
  <1>1. TypeOK /\ OwnPair(s) /\ mixed \subseteq Spaces
    BY DEF Inv, TypeOK
  <1>2. /\ members' = members
        /\ mixed' = IF Writers(r) = {} THEN mixed \ {r} ELSE mixed \cup {r}
    BY DEF BeginWrite
  <1>3. /\ thread[t].pc = "idle"
        /\ thread'[t].pc = what /\ thread'[t].space = r /\ thread'[t].todo = Members
        /\ Others(t)
    BY <1>1, BeginWriteDoes
  <1>4. \A u \in Threads : u = t \/ thread'[u] = thread[u]
    BY <1>3 DEF Others
  <1>5. SUFFICES ASSUME s \notin mixed' PROVE OwnPair(s)'
    BY DEF OwnPair
  <1>6. CASE r # s
    <2>1. s \notin mixed
      BY <1>2, <1>5, <1>6
    <2>2. \A u \in Threads : Writing(u, s)' <=> Writing(u, s)
      BY <1>3, <1>4, <1>6 DEF Writing
    <2>3. Alone(s)' <=> Alone(s)
      BY <2>2 DEF Alone
    <2>4. ~Writing(t, s)
      BY <1>3 DEF Writing
    <2>5. \A u \in Threads : Writing(u, s) => thread'[u] = thread[u]
      BY <1>4, <2>4
    <2> QED BY <1>1, <1>2, <2>1, <2>2, <2>3, <2>5 DEF OwnPair, Loaded, Stored
  <1>7. CASE r = s
    <2>1. Alone(s)
      BY <1>2, <1>5, <1>7, WritersAlone
    <2>2. \A u \in Threads : Writing(u, s)' => u = t
      BY <1>4, <2>1 DEF Alone, Writing
    <2>3. Writing(t, s)' /\ Loaded(t)' = {} /\ thread'[t].todo # {}
      BY <1>3, <1>7 DEF Writing, Loaded, Members
    <2> QED BY <2>2, <2>3 DEF OwnPair, Alone
  <1> QED BY <1>6, <1>7

LEMMA OwnStore ==
  ASSUME Inv, NEW s \in Spaces, NEW t \in Threads, NEW m \in Members, Store(t, m)
  PROVE  OwnPair(s)'
  <1>1. UNCHANGED <<enrolled, writes, mixed, overlapped>>
    BY DEF Store
  <1>2. TypeOK /\ OwnPair(s) /\ members' \in [Spaces -> Pair] /\ thread \in [Threads -> Thread]
    BY StoreDoes DEF Inv, TypeOK
  <1>3. /\ Writing(t, thread[t].space)
        /\ m \in thread[t].todo
        /\ \A n \in Members :
              members'[s][n] = IF s = thread[t].space /\ n = m THEN Stored(t, m) ELSE members[s][n]
        /\ Others(t)
        /\ \/ thread[t].todo = {m} /\ thread'[t].pc = "idle"
           \/ /\ thread[t].todo # {m}
              /\ thread'[t].pc = thread[t].pc
              /\ thread'[t].space = thread[t].space
              /\ thread'[t].client = thread[t].client
              /\ thread'[t].todo = thread[t].todo \ {m}
    BY <1>2, StoreDoes
  <1>4. \A u \in Threads : u = t \/ thread'[u] = thread[u]
    BY <1>3 DEF Others
  <1>5. SUFFICES ASSUME s \notin mixed PROVE OwnPair(s)'
    BY <1>1 DEF OwnPair
  <1>6. \A u \in Threads : Writing(u, s)' => Writing(u, s)
    BY <1>3, <1>4 DEF Writing
  <1>7. \A u, v \in Threads : Writing(u, s)' /\ Writing(v, s)' => u = v
    BY <1>2, <1>5, <1>6 DEF OwnPair
  <1>8. CASE s # thread[t].space
    <2>1. \A u \in Threads : Writing(u, s) => u # t
      BY <1>8 DEF Writing
    <2>2. \A u \in Threads : Writing(u, s)' <=> Writing(u, s)
      BY <1>4, <1>6, <2>1 DEF Writing
    <2>3. \A n \in Members : members'[s][n] = members[s][n]
      BY <1>3, <1>8
    <2>4. members'[s] = members[s]
      BY <1>2, <2>3, PairEqual DEF TypeOK
    <2> QED BY <1>2, <1>4, <1>5, <1>7, <2>1, <2>2, <2>4 DEF OwnPair, Alone, Loaded, Stored
  <1>9. CASE s = thread[t].space
    <2>1. \A u \in Threads : Writing(u, s) => u = t
      BY <1>2, <1>3, <1>5, <1>9 DEF OwnPair
    <2>2. \A n \in Members \ thread[t].todo : members[s][n] = Stored(t, n)
      BY <1>2, <1>3, <1>5, <1>9 DEF OwnPair, Loaded
    <2>3. \A n \in Members \ (thread[t].todo \ {m}) : members'[s][n] = Stored(t, n)
      BY <1>3, <1>9, <2>2
    <2>4. CASE thread[t].todo = {m} /\ thread'[t].pc = "idle"
      <3>1. members'[s]["handler"] = Stored(t, "handler")
            /\ members'[s]["context"] = Stored(t, "context")
        BY <2>3, <2>4 DEF Members
      <3>2. members'[s].handler = Stored(t, "handler") /\ members'[s].context = Stored(t, "context")
        BY <1>2, <3>1, PairFields
      <3>3. members'[s].context \in {Null, members'[s].handler}
        BY <3>2 DEF Stored
      <3>4. \A u \in Threads : ~Writing(u, s)'
        BY <1>6, <2>1, <2>4 DEF Writing
      <3> QED BY <1>7, <3>3, <3>4 DEF OwnPair
    <2>5. CASE /\ thread[t].todo # {m}
               /\ thread'[t].pc = thread[t].pc
               /\ thread'[t].space = thread[t].space
               /\ thread'[t].client = thread[t].client
               /\ thread'[t].todo = thread[t].todo \ {m}
      <3>1. Writing(t, s)' /\ thread'[t].todo # {}
        BY <1>3, <1>9, <2>5 DEF Writing
      <3>2. \A n : Stored(t, n)' = Stored(t, n)
        BY <2>5 DEF Stored
      <3>3. \A n \in Loaded(t)' : members'[s][n] = Stored(t, n)'
        BY <2>3, <2>5, <3>2 DEF Loaded
      <3>4. \A u \in Threads : Writing(u, s)' => u = t
        BY <1>6, <2>1
      <3> QED BY <1>7, <3>1, <3>3, <3>4 DEF OwnPair, Alone
    <2> QED BY <1>3, <2>4, <2>5
  <1> QED BY <1>8, <1>9

LEMMA OwnRead ==
  ASSUME Inv, NEW s \in Spaces, NEW t \in Threads, Reads(t)
  PROVE  OwnPair(s)'
  <1>1. TypeOK /\ OwnPair(s)
    BY DEF Inv
  <1>2. /\ UNCHANGED <<members, enrolled, writes, mixed>> /\ Others(t)
        /\ ~Writing(t, s) /\ ~Writing(t, s)'
    BY <1>1, ReadsOnly
  <1>3. \A u \in Threads : u = t \/ thread'[u] = thread[u]
    BY <1>2 DEF Others
  <1>4. \A u \in Threads : Writing(u, s)' <=> Writing(u, s)
    BY <1>2, <1>3 DEF Writing
  <1>5. \A u \in Threads : Writing(u, s) => thread'[u] = thread[u]
    BY <1>2, <1>3
  <1> QED BY <1>1, <1>2, <1>4, <1>5 DEF OwnPair, Alone, Loaded, Stored

-----------------------------------------------------------------------------
(* A read that was not overlapped                                          *)

LEMMA QuietBegin ==
  ASSUME Inv, NEW u \in Threads, NEW t \in Threads, NEW what \in {"register", "unregister"},
         NEW s \in Spaces, NEW c \in Clients, BeginWrite(t, what, s, c)
  PROVE  QuietOf(u)'
  <1>1. /\ thread'[t].pc = what /\ Others(t)
        /\ overlapped' = overlapped \cup Reading
    BY BeginWriteDoes DEF Inv, BeginWrite
  <1>2. u \in Reading' => u \in Reading
    BY <1>1 DEF Reading, Others
  <1> QED BY <1>1, <1>2 DEF QuietOf

LEMMA QuietStore ==
  ASSUME Inv, NEW u \in Threads, NEW t \in Threads, NEW m \in Members, Store(t, m)
  PROVE  QuietOf(u)'
  <1>1. /\ Writing(t, thread[t].space) /\ thread[t].space \in Spaces
        /\ thread'[t].pc \in {"idle", "register", "unregister"} /\ Others(t)
        /\ overlapped' = overlapped
    BY StoreDoes DEF Inv, Store, Writing
  <1>2. u \in Reading' => u \in Reading
    BY <1>1 DEF Reading, Others
  <1>3. u \in Reading \ overlapped => Alone(thread[t].space)
    BY <1>1 DEF Inv, QuietOf
  <1>4. ~Alone(thread[t].space)
    BY <1>1 DEF Alone
  <1> QED BY <1>1, <1>2, <1>3, <1>4 DEF QuietOf

\* The reader that takes the step.
LEMMA QuietSelf ==
  ASSUME Inv, NEW t \in Threads, Reads(t)
  PROVE  QuietOf(t)'
  <1>1. /\ TypeOK /\ QuietOf(t) /\ thread \in [Threads -> Thread]
        /\ members \in [Spaces -> Pair]
    BY DEF Inv, TypeOK
  <1>2. /\ UNCHANGED <<members, enrolled, writes, mixed>> /\ Others(t)
        /\ thread' \in [Threads -> Thread]
        /\ \A s : ~Writing(t, s) /\ ~Writing(t, s)'
    BY <1>1, ReadsOnly
  <1>3. \A s : Alone(s) => Alone(s)'
    BY <1>2 DEF Alone, Writing, Others
  <1>4. thread[t].seen \in Pair /\ thread'[t].seen \in Pair
        /\ thread[t].space \in Spaces /\ thread[t].asked \in Spaces
    BY <1>1, <1>2 DEF Thread
  <1>5. SUFFICES ASSUME t \in Reading' \ overlapped' PROVE QuietOf(t)'
    BY DEF QuietOf
  <1>6. ASSUME NEW m \in Members, Load(t, m) PROVE QuietOf(t)'
    <2>1. /\ thread[t].pc \in {"load", "call"} /\ thread'[t].pc = thread[t].pc
          /\ thread'[t].space = thread[t].space /\ thread'[t].asked = thread[t].asked
          /\ thread'[t].todo = thread[t].todo \ {m}
          /\ \A n \in Members : thread'[t].seen[n] =
               IF n = m THEN members[thread[t].space][m] ELSE thread[t].seen[n]
          /\ overlapped' = overlapped
      BY <1>1, <1>6, LoadDoes
    <2>2. t \in Reading \ overlapped
      BY <1>5, <2>1 DEF Reading
    <2>3. /\ \A s \in Spaces : Alone(s)'
          /\ \/ thread[t].space = thread[t].asked
             \/ thread[t].space = "SMBus" /\ ~Callable(members[thread[t].asked])
      BY <1>1, <1>3, <2>2 DEF QuietOf
    <2>4. CASE thread[t].pc = "load"
      <3>1. \A n \in Loaded(t) : thread[t].seen[n] = members[thread[t].space][n]
        BY <1>1, <2>2, <2>4 DEF QuietOf
      <3>2. \A n \in Loaded(t)' : thread'[t].seen[n] = members[thread[t].space][n]
        BY <2>1, <3>1 DEF Loaded
      <3> QED BY <1>2, <2>1, <2>3, <2>4, <3>2 DEF QuietOf
    <2>5. CASE thread[t].pc = "call"
      <3>1. thread[t].seen = members[thread[t].space] /\ Callable(thread[t].seen)
        BY <1>1, <2>2, <2>5 DEF QuietOf
      <3>2. thread'[t].seen = thread[t].seen
        BY <1>4, <2>1, <3>1, PairEqual
      <3> QED BY <1>2, <2>1, <2>3, <2>5, <3>1, <3>2 DEF QuietOf
    <2> QED BY <2>1, <2>4, <2>5
  <1>7. ASSUME NEW r \in Spaces, readAddressSpace(t, r) PROVE QuietOf(t)'
    <2>1. /\ thread'[t].pc = "load" /\ thread'[t].space = r /\ thread'[t].asked = r
          /\ Loaded(t)' = {}
          /\ overlapped' = IF \E s \in Spaces : Writers(s) # {}
                           THEN overlapped \cup {t} ELSE overlapped
      BY <1>1, <1>7, ReadDoes DEF Loaded
    <2>2. \A s \in Spaces : Writers(s) = {}
      BY <1>5, <2>1
    <2>3. \A s \in Spaces : Alone(s)'
      BY <1>3, <2>2, WritersAlone
    <2> QED BY <2>1, <2>3 DEF QuietOf
  <1>8. ASSUME thread[t].pc = "load", thread[t].todo = {}, overlapped' = overlapped
        PROVE  /\ \A s \in Spaces : Alone(s)'
               /\ \/ thread[t].space = thread[t].asked
                  \/ thread[t].space = "SMBus" /\ ~Callable(members[thread[t].asked])
               /\ thread[t].seen = members[thread[t].space]
    <2>1. t \in Reading \ overlapped
      BY <1>5, <1>8 DEF Reading
    <2>2. \A m \in Members : thread[t].seen[m] = members[thread[t].space][m]
      BY <1>1, <1>8, <2>1 DEF QuietOf, Loaded
    <2>3. thread[t].seen = members[thread[t].space]
      BY <1>1, <1>4, <2>2, PairEqual
    <2> QED BY <1>1, <1>3, <2>1, <2>3 DEF QuietOf
  <1>9. CASE TestPassed(t)
    <2>1. /\ thread[t].pc = "load" /\ thread[t].todo = {} /\ overlapped' = overlapped
          /\ thread'[t].pc = "call"
          /\ thread'[t].space = thread[t].space /\ thread'[t].asked = thread[t].asked
          /\ thread'[t].seen = thread[t].seen /\ Callable(thread[t].seen)
      BY <1>1, <1>9, PassedDoes
    <2> QED BY <1>2, <1>8, <2>1 DEF QuietOf
  <1>10. CASE TestFailed(t)
    <2>1. /\ thread[t].pc = "load" /\ thread[t].todo = {} /\ overlapped' = overlapped
          /\ thread'[t].asked = thread[t].asked
          /\ ~Callable(thread[t].seen)
          /\ \/ /\ thread[t].space = "EC" /\ thread'[t].space = "SMBus"
                /\ thread'[t].pc = "load" /\ thread'[t].todo = Members
             \/ /\ thread[t].space = "SMBus" /\ thread'[t].space = "SMBus"
                /\ thread'[t].pc = "none"
      BY <1>1, <1>10, FailedDoes
    <2>2. ~Callable(members[thread[t].asked])
      BY <1>8, <2>1
    <2>3. thread[t].space = "SMBus" => ~Callable(members["SMBus"])
      BY <1>8, <2>1
    <2>4. thread'[t].pc = "load" => Loaded(t)' = {}
      BY <2>1 DEF Loaded
    <2> QED BY <1>2, <1>8, <2>1, <2>2, <2>3, <2>4 DEF QuietOf
  <1>11. CASE Call(t)
    <2>1. /\ thread[t].pc = "call" /\ thread'[t].pc = "called" /\ overlapped' = overlapped
          /\ thread'[t].space = thread[t].space /\ thread'[t].asked = thread[t].asked
          /\ thread'[t].seen = thread[t].seen
      BY <1>1, <1>11, CallDoes
    <2>2. t \in Reading \ overlapped
      BY <1>5, <2>1 DEF Reading
    <2> QED BY <1>1, <1>2, <1>3, <2>1, <2>2 DEF QuietOf
  <1>12. CASE Return(t)
    BY <1>1, <1>5, <1>12, ReturnDoes DEF Reading
  <1> QED BY <1>6, <1>7, <1>9, <1>10, <1>11, <1>12 DEF Reads

LEMMA QuietReader ==
  ASSUME Inv, NEW u \in Threads, NEW t \in Threads, Reads(t)
  PROVE  QuietOf(u)'
  <1>1. CASE u = t
    BY <1>1, QuietSelf
  <1>2. CASE u # t
    <2>1. /\ UNCHANGED <<members, enrolled, writes, mixed>> /\ Others(t)
          /\ \A s : ~Writing(t, s) /\ ~Writing(t, s)'
          /\ overlapped' \in {overlapped, overlapped \cup {t}, overlapped \ {t}}
      BY ReadsOnly DEF Inv
    <2>2. thread'[u] = thread[u]
      BY <1>2, <2>1 DEF Others
    <2>3. u \in Reading' \ overlapped' => u \in Reading \ overlapped
      BY <1>2, <2>1, <2>2 DEF Reading
    <2>4. \A s : Alone(s) => Alone(s)'
      BY <2>1 DEF Alone, Writing, Others
    <2> QED BY <2>1, <2>2, <2>3, <2>4 DEF Inv, QuietOf, Loaded
  <1> QED BY <1>1, <1>2

-----------------------------------------------------------------------------
(* The invariant                                                           *)

LEMMA InvInit == Init => Inv
  <1> SUFFICES ASSUME Init PROVE Inv
    OBVIOUS
  <1>1. NoPair \in Pair /\ Idle \in Thread /\ Idle.pc = "idle"
    BY DEF NoPair, Pair, Idle, Thread, Spaces, Members
  <1>2. members \in [Spaces -> Pair]
    BY <1>1 DEF Init
  <1>3. thread \in [Threads -> Thread]
    BY <1>1 DEF Init
  <1>4. writes \in [Spaces -> 0..MaxWrites]
    BY HandlerAssumption DEF Init
  <1>5. TypeOK
    BY <1>2, <1>3, <1>4 DEF Init, TypeOK
  <1>6. \A t \in Threads : thread[t].pc = "idle"
    BY <1>1 DEF Init
  <1>7. \A s \in Spaces, m \in Members : members[s][m] = Null
    BY DEF Init, NoPair, Members
  <1>8. \A t \in Threads, s \in Spaces : ~Writing(t, s)
    BY <1>6 DEF Writing
  <1>9. ASSUME NEW s \in Spaces PROVE FirstOf(s)
    <2>1. enrolled[s] = {}
      BY DEF Init
    <2> QED BY <1>6, <1>7, <1>8, <2>1 DEF FirstOf
  <1>10. ASSUME NEW s \in Spaces PROVE OwnPair(s)
    <2>1. members[s].context = Null
      BY DEF Init, NoPair
    <2> QED BY <1>8, <2>1 DEF OwnPair
  <1>11. \A t \in Threads : QuietOf(t)
    BY <1>6 DEF QuietOf, Reading
  <1> QED BY <1>5, <1>9, <1>10, <1>11 DEF Inv

\* The parts of Inv that speak of one space.
SpaceInv(s) == FirstOf(s) /\ OwnPair(s)

LEMMA InvStep == Inv /\ [Next]_vars => Inv'
  <1> SUFFICES ASSUME Inv, [Next]_vars PROVE Inv'
    OBVIOUS
  <1>1. TypeOK'
    BY TypeStep DEF Inv
  <1>2. ASSUME NEW s \in Spaces PROVE SpaceInv(s)'
    <2>1. ASSUME NEW t \in Threads, NEW r \in Spaces, NEW c \in Clients,
                 registerAddressSpaceHandler(t, r, c)
          PROVE  SpaceInv(s)'
      BY <2>1, FirstRegister, OwnBegin DEF SpaceInv, registerAddressSpaceHandler
    <2>2. ASSUME NEW t \in Threads, NEW r \in Spaces, NEW c \in Clients,
                 unregisterAddressSpaceHandler(t, r, c)
          PROVE  SpaceInv(s)'
      BY <2>2, FirstUnregister, OwnBegin DEF SpaceInv, unregisterAddressSpaceHandler
    <2>3. ASSUME NEW t \in Threads, NEW m \in Members, Store(t, m) PROVE SpaceInv(s)'
      BY <2>3, FirstStore, OwnStore DEF SpaceInv
    <2>4. ASSUME NEW t \in Threads, Reads(t) PROVE SpaceInv(s)'
      BY <2>4, FirstRead, OwnRead DEF SpaceInv
    <2>5. CASE UNCHANGED vars
      BY <2>5 DEF vars, Inv, SpaceInv, FirstOf, OwnPair, Alone, Writing, Loaded, Stored
    <2> QED BY Cases, <2>1, <2>2, <2>3, <2>4, <2>5
  <1>3. ASSUME NEW u \in Threads PROVE QuietOf(u)'
    <2>1. ASSUME NEW t \in Threads, NEW r \in Spaces, NEW c \in Clients,
                 registerAddressSpaceHandler(t, r, c)
          PROVE  QuietOf(u)'
      BY <2>1, QuietBegin DEF registerAddressSpaceHandler
    <2>2. ASSUME NEW t \in Threads, NEW r \in Spaces, NEW c \in Clients,
                 unregisterAddressSpaceHandler(t, r, c)
          PROVE  QuietOf(u)'
      BY <2>2, QuietBegin DEF unregisterAddressSpaceHandler
    <2>3. ASSUME NEW t \in Threads, NEW m \in Members, Store(t, m) PROVE QuietOf(u)'
      BY <2>3, QuietStore
    <2>4. ASSUME NEW t \in Threads, Reads(t) PROVE QuietOf(u)'
      BY <2>4, QuietReader
    <2>5. CASE UNCHANGED vars
      BY <2>5 DEF vars, Inv, QuietOf, Reading, Alone, Writing, Loaded, Callable
    <2> QED BY Cases, <2>1, <2>2, <2>3, <2>4, <2>5
  <1> QED BY <1>1, <1>2, <1>3 DEF Inv, SpaceInv

LEMMA InvAlways == Spec => []Inv
  BY InvInit, InvStep, PTL DEF Spec

-----------------------------------------------------------------------------
(* Theorems                                                                *)

\* The variables keep their types: a context member of PDACPIPlatformExpert never
\* holds a handler, and no thread is left between the two spaces.
THEOREM TypeCorrect == Spec => []TypeOK
  <1>1. Inv => TypeOK
    BY DEF Inv
  <1> QED BY InvAlways, <1>1, PTL

\* A read beside the only registration of its space calls the whole pair or
\* nothing, though registerAddressSpaceHandler stores and readAddressSpace loads
\* the two members in any order, and loads them again for the call.
THEOREM FirstIsWhole == Spec => []FirstRegistrationWhole
  <1>1. Inv => FirstRegistrationWhole
    <2> SUFFICES ASSUME Inv, NEW t \in Threads,
                        thread[t].pc = "called", writes[thread[t].space] = 1
                 PROVE  /\ thread[t].seen.handler # Null
                        /\ thread[t].seen.context = thread[t].seen.handler
      BY DEF FirstRegistrationWhole
    <2>1. PICK s \in Spaces : s = thread[t].space
      BY DEF Inv, TypeOK, Thread
    <2>2. thread[t].seen \in Pair
      BY DEF Inv, TypeOK, Thread
    <2>3. FirstOf(s) /\ writes[s] <= 1
      BY <2>1 DEF Inv
    <2>4. \A m \in Members : thread[t].seen[m] # Null /\ enrolled[s] = {thread[t].seen[m]}
      BY <2>1, <2>3 DEF FirstOf
    <2>5. /\ thread[t].seen["handler"] # Null
          /\ thread[t].seen["context"] = thread[t].seen["handler"]
      BY <2>4 DEF Members
    <2> QED BY <2>2, <2>5, PairFields
  <1> QED BY InvAlways, <1>1, PTL

\* A read that no registration or removal overlapped does what a read of one moment
\* does: it calls the registered handler with its context, and the read of the EC
\* goes on to the SMBus only when the EC has no handler to call.
THEOREM QuietReads == Spec => []QuietRead
  <1>1. Inv => QuietRead
    <2> SUFFICES ASSUME Inv, NEW t \in Threads \ overlapped
                 PROVE  LET th == thread[t] IN
        /\ th.pc = "called" => /\ th.seen = Expected(th.space)
                               /\ th.space \notin mixed => th.seen.context = th.seen.handler
                               /\ th.space # th.asked => Expected(th.asked) = NoPair
        /\ th.pc = "none" => Expected(th.asked) = NoPair /\ Expected("SMBus") = NoPair
      BY DEF QuietRead
    <2>1. QuietOf(t)
      BY DEF Inv
    <2>2. CASE thread[t].pc = "called"
      <3>1. t \in Reading \ overlapped
        BY <2>2 DEF Reading
      <3>2. PICK s \in Spaces : s = thread[t].space
        BY DEF Inv, TypeOK, Thread
      <3>3. /\ Alone(s) /\ OwnPair(s)
            /\ thread[t].seen = members[s] /\ Callable(members[s])
            /\ \/ s = thread[t].asked
               \/ ~Callable(members[thread[t].asked])
        BY <2>1, <2>2, <3>1, <3>2 DEF QuietOf, Inv
      <3>4. s \notin mixed => members[s].context = members[s].handler
        BY <3>3 DEF OwnPair, Callable
      <3> QED BY <2>2, <3>2, <3>3, <3>4 DEF Expected
    <2>3. CASE thread[t].pc = "none"
      <3>1. t \in Reading \ overlapped
        BY <2>3 DEF Reading
      <3> QED BY <2>1, <2>3, <3>1 DEF QuietOf, Expected
    <2> QED BY <2>2, <2>3
  <1> QED BY InvAlways, <1>1, PTL
=============================================================================
