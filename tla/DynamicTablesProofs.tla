------------------------- MODULE DynamicTablesProofs -------------------------
(***************************************************************************)
(* The safety properties of DynamicTables, for any finite set of threads,  *)
(* any nesting, any tables, inside whichever others, and any owner ids.    *)
(* The inductive invariant has three parts: Typing; Locked, what the three *)
(* variables of the reader/writer lock say of where the calls are; and     *)
(* Owning, who may have or change the owner id, the flag and the node of a *)
(* table that was never unloaded twice at a time.                          *)
(***************************************************************************)
EXTENDS DynamicTables, FiniteSetTheorems, TLAPS

NodesTyped == /\ DOMAIN node \subseteq Tables /\ node \in [DOMAIN node -> Ids]
              /\ before \subseteq (DOMAIN node) \X (DOMAIN node)

Typing == /\ loaded \in [Tables -> BOOLEAN]
          /\ ownerId \in [Tables -> Ids]
          /\ NodesTyped
          /\ numReaders \in Nat
          /\ readerMutex \in BOOLEAN
          /\ writerMutex \in BOOLEAN
          /\ interpreter \in Threads \cup {Nobody}
          /\ call \in [Calls -> Call]
          /\ twice \subseteq Tables
          /\ \A c \in Calls :
                call[c].at \in Loading \cup Unloading \cup Visiting \cup NodeGone
                    => Table(c) \in Tables

\* What a step makes of the call it is about, which leaves the others alone.
Becomes(c, where, tb, i) ==
    /\ call' \in [Calls -> Call]
    /\ call'[c].at = where /\ call'[c].table = tb /\ call'[c].id = i
    /\ \A d \in Calls \ {c} : call'[d] = call[d]

LEMMA CallFields ==
  ASSUME Typing, NEW c \in Calls
  PROVE  call[c].at \in Place /\ Table(c) \in Tables \cup {Nobody} /\ call[c].id \in Ids
<1>1. call[c] \in Call  BY DEF Typing
<1> QED  BY <1>1 DEF Call, Table

LEMMA Moved ==
  ASSUME Typing, NEW c \in Calls, NEW r \in Call, call' = [call EXCEPT ![c] = r]
  PROVE  Becomes(c, r.at, r.table, r.id)
BY DEF Typing, Becomes

LEMMA Went ==
  ASSUME Typing, NEW c \in Calls, NEW w \in Place, Goto(c, w)
  PROVE  Becomes(c, w, Table(c), call[c].id)
<1> DEFINE r == [call[c] EXCEPT !.at = w]
<1>1. call[c] \in Call  BY DEF Typing
<1>2. r \in Call /\ r.at = w /\ r.table = Table(c) /\ r.id = call[c].id
  BY <1>1 DEF Call, Table
<1>3. call' = [call EXCEPT ![c] = r]  BY DEF Goto
<1> HIDE DEF r
<1> QED  BY <1>2, <1>3, Moved

LEMMA Forgot ==
  ASSUME Typing, NEW c \in Calls, NEW w \in Place, Forget(c, w)
  PROVE  Becomes(c, w, Table(c), 0)
<1> DEFINE r == [call[c] EXCEPT !.at = w, !.id = 0]
<1>1. call[c] \in Call  BY DEF Typing
<1>2. r \in Call /\ r.at = w /\ r.table = Table(c) /\ r.id = 0
  BY <1>1 DEF Call, Table, Ids
<1>3. call' = [call EXCEPT ![c] = r]  BY DEF Forget
<1> HIDE DEF r
<1> QED  BY <1>2, <1>3, Moved

LEMMA WentFor ==
  ASSUME Typing, NEW c \in Calls, NEW w \in Place, NEW tb \in Tables \cup {Nobody},
         call' = [call EXCEPT ![c] = [Idle EXCEPT !.at = w, !.table = tb]]
  PROVE  Becomes(c, w, tb, 0)
<1> DEFINE r == [Idle EXCEPT !.at = w, !.table = tb]
<1>1. r \in Call /\ r.at = w /\ r.table = tb /\ r.id = 0  BY DEF Call, Idle, Ids, Place
<1>2. call' = [call EXCEPT ![c] = r]  OBVIOUS
<1> HIDE DEF r
<1> QED  BY <1>1, <1>2, Moved

LEMMA Begun ==
  ASSUME Typing, NEW c \in Calls, NEW w \in Place, NEW tb \in Tables \cup {Nobody},
         Begin(c, w, tb)
  PROVE  At(c, "idle") /\ Becomes(c, w, tb, 0)
BY WentFor DEF Begin, MayBegin

LEMMA Became ==
  ASSUME Typing, NEW c \in Calls, NEW w \in Place, Become(c, w)
  PROVE  Becomes(c, w, Nobody, 0)
<1> DEFINE r == [Idle EXCEPT !.at = w]
<1>1. r \in Call /\ r.at = w /\ r.table = Nobody /\ r.id = 0  BY DEF Call, Idle, Ids, Place
<1>2. call' = [call EXCEPT ![c] = r]  BY DEF Become
<1> HIDE DEF r
<1> QED  BY <1>1, <1>2, Moved

LEMMA Returned ==
  ASSUME Typing, NEW c \in Calls, Return(c)
  PROVE  Becomes(c, "idle", Nobody, 0)
<1>1. Idle \in Call /\ Idle.at = "idle" /\ Idle.table = Nobody /\ Idle.id = 0
  BY DEF Call, Idle, Ids, Place
<1>2. call' = [call EXCEPT ![c] = Idle]  BY DEF Return
<1> QED  BY <1>1, <1>2, Moved

-----------------------------------------------------------------------------
(* Types                                                                    *)

\* Others than the call itself keep their place; a deletion takes nodes from walks.
Turns(c, where, tb, i) ==
    /\ call' \in [Calls -> Call]
    /\ call'[c].at = where /\ call'[c].table = tb /\ call'[c].id = i
    /\ \A d \in Calls \ {c} :
           /\ call'[d].table = call[d].table /\ call'[d].id = call[d].id
           /\ \/ call'[d].at = call[d].at
              \/ call[d].at \in Visiting /\ call'[d].at \in NodeGone

LEMMA BecomesTurns ==
  ASSUME NEW c, NEW w, NEW tb, NEW i, Becomes(c, w, tb, i)
  PROVE  Turns(c, w, tb, i)
BY DEF Becomes, Turns

\* A call keeps a table where its place asks for one.
LEMMA TypingTurn ==
  ASSUME Typing, NEW c \in Calls, NEW w, NEW tb, NEW i, Turns(c, w, tb, i),
         w \in Loading \cup Unloading \cup Visiting \cup NodeGone => tb \in Tables
  PROVE  \A d \in Calls : call'[d].at \in Loading \cup Unloading \cup Visiting \cup NodeGone
                              => call'[d].table \in Tables
<1> SUFFICES ASSUME NEW d \in Calls,
                    call'[d].at \in Loading \cup Unloading \cup Visiting \cup NodeGone
             PROVE  call'[d].table \in Tables
  OBVIOUS
<1>1. CASE d = c  BY <1>1 DEF Turns
<1>2. CASE d # c
  <2>1. call[d].at \in Loading \cup Unloading \cup Visiting \cup NodeGone
    BY <1>2 DEF Turns
  <2>2. call[d].table \in Tables  BY <2>1 DEF Typing, Table
  <2> QED  BY <1>2, <2>2 DEF Turns
<1> QED  BY <1>1, <1>2

\* A turn that keeps the tables and the lock as they are typed keeps the types.
LEMMA TypingKept ==
  ASSUME Typing, NEW c \in Calls, NEW w, NEW tb, NEW i, Turns(c, w, tb, i),
         w \in Loading \cup Unloading \cup Visiting \cup NodeGone => tb \in Tables,
         loaded' \in [Tables -> BOOLEAN], ownerId' \in [Tables -> Ids],
         NodesTyped', twice' \subseteq Tables,
         numReaders' \in Nat, readerMutex' \in BOOLEAN, writerMutex' \in BOOLEAN,
         interpreter' \in Threads \cup {Nobody}
  PROVE  Typing'
<1>1. \A d \in Calls : call'[d].at \in Loading \cup Unloading \cup Visiting \cup NodeGone
                           => call'[d].table \in Tables
  BY TypingTurn
<1>2. call' \in [Calls -> Call]  BY DEF Turns
<1> QED  BY <1>1, <1>2 DEF Typing, Table

\* Most steps leave the tables alone, or the lock, or both.
LEMMA TypingQuiet ==
  ASSUME Typing, NEW c \in Calls, NEW w, NEW tb, NEW i, Turns(c, w, tb, i),
         w \in Loading \cup Unloading \cup Visiting \cup NodeGone => tb \in Tables,
         UNCHANGED <<tableVars, lockVars>>, interpreter' \in Threads \cup {Nobody},
         twice' \subseteq Tables
  PROVE  Typing'
<1>1. /\ loaded' \in [Tables -> BOOLEAN] /\ ownerId' \in [Tables -> Ids]
      /\ NodesTyped'
  BY DEF tableVars, nodeVars, Typing, NodesTyped
<1>2. numReaders' \in Nat /\ readerMutex' \in BOOLEAN /\ writerMutex' \in BOOLEAN
  BY DEF lockVars, Typing
<1> QED  BY <1>1, <1>2, TypingKept

-----------------------------------------------------------------------------
(* What each action makes of its call, and of what it does not touch        *)

LEMMA CallsFinite == IsFiniteSet(Calls)
<1> DEFINE f == [t \in Threads |-> {t} \X (1..MaxLevel[t])]
           S == {{t} \X (1..MaxLevel[t]) : t \in Threads}
<1>1. f \in Surjection(Threads, S)  BY DEF Surjection
<1>2. IsFiniteSet(S)
  <2>1. IsFiniteSet(Threads)  BY TablesAssumption
  <2> HIDE DEF f, S
  <2> QED  BY <1>1, <2>1, FS_Surjection
<1>3. \A T \in S : IsFiniteSet(T)
  <2> SUFFICES ASSUME NEW t \in Threads PROVE IsFiniteSet({t} \X (1..MaxLevel[t]))
    OBVIOUS
  <2>1. IsFiniteSet({t})  BY FS_Singleton
  <2>2. 1 \in Int /\ MaxLevel[t] \in Int  BY TablesAssumption
  <2>3. IsFiniteSet(1..MaxLevel[t])  BY <2>2, FS_Interval
  <2> QED  BY <2>1, <2>3, FS_Product
<1> HIDE DEF f, S
<1>4. IsFiniteSet(UNION S)  BY <1>2, <1>3, FS_UNION
<1> QED  BY <1>4 DEF S, Calls

\* The places of a load of a table with an id, of one that knows the id, of one that has
\* made the node; of an unload that has yet to give the id back, of any that has found
\* the table loaded; and the places that have nothing to do with either.
Holding == {"allocated", "enter", "parse", "created", "away", "resumed", "flag", "failing",
            "failed", "release"}
Knowing == {"enter", "parse", "failed"}
Made    == {"created", "away", "resumed", "flag"}
Ending  == {"owner", "write", "delete", "unlock", "free"}
Past    == Unloading \ {"test"}
Writing == {"delete", "unlock"}
Free    == Place \ (Holding \cup Unloading)

\* The turn changes nothing that the lock knows of.
LocksAlike(c, w) == /\ call[c].at \in Walking <=> w \in Walking
                    /\ call[c].at = "first" <=> w = "first"
                    /\ call[c].at \in Writing <=> w \in Writing

\* Calls that begin, walk or end, and have no table to hold.
FreeMove(c, w, tb) == /\ call[c].at \in Free /\ w \in Free
                      /\ LocksAlike(c, w)
                      /\ call[c].at \in Visiting => w \notin NodeGone
                      /\ w \in Loading \cup Visiting \cup NodeGone => tb \in Tables

LEMMA FollowingIsNode ==
  ASSUME NEW c \in Calls, call[c].at \in {"next", "returned", "gone"}
  PROVE  Following(c) \subseteq DOMAIN node
<1>1. First(DOMAIN node) \subseteq DOMAIN node  BY DEF First
<1>2. First(After(Table(c))) \subseteq DOMAIN node  BY DEF First, After
<1> QED  BY <1>1, <1>2 DEF Following, At

LEMMA FreeSteps ==
  ASSUME Typing, NEW c \in Calls,
         \/ EnterMethod(c) \/ EndMethod(c) \/ AcpiWalkNamespace(c) \/ AcpiNsWalkNamespace(c)
         \/ UserFunctionReturns(c) \/ CheckNotLoaded(c) \/ NoOwnerId(c) \/ InitializeObjects(c)
         \/ \E tb \in Tables : AcpiLoadTable(c, tb) \/ AcpiExLoadOp(c, tb)
  PROVE  /\ UNCHANGED <<tableVars, lockVars>>
         /\ interpreter' \in Threads \cup {Nobody}
         /\ \E w, tb, i : Becomes(c, w, tb, i) /\ FreeMove(c, w, tb)
<1> USE DEF FreeMove, LocksAlike, Free, Holding, Unloading, Walking, Visiting, NodeGone, Writing,
            Loading
<1>0. c[1] \in Threads /\ interpreter \in Threads \cup {Nobody}
  BY DEF Typing, Calls
<1>1. CASE EnterMethod(c)
  <2>1. At(c, "idle") /\ Becomes(c, "method", Nobody, 0)
    BY <1>1, Begun DEF EnterMethod, Place
  <2> QED  BY <1>0, <1>1, <2>1 DEF EnterMethod, Place, At
<1>2. CASE EndMethod(c)
  <2>1. Becomes(c, "idle", Nobody, 0)  BY <1>2, Returned DEF EndMethod
  <2> QED  BY <1>0, <1>2, <2>1 DEF EndMethod, Place, At
<1>3. CASE AcpiWalkNamespace(c)
  <2>1. At(c, "idle") /\ Becomes(c, "read", Nobody, 0)
    BY <1>3, Begun DEF AcpiWalkNamespace, Place
  <2> QED  BY <1>0, <1>3, <2>1 DEF AcpiWalkNamespace, Place, At
<1>4. CASE AcpiNsWalkNamespace(c)
  <2>1. CASE \E tb \in Following(c) :
                call' = [call EXCEPT ![c].at = "callback", ![c].table = tb]
    <3>1. PICK tb \in Following(c) :
                call' = [call EXCEPT ![c].at = "callback", ![c].table = tb]
      BY <2>1
    <3>2. tb \in Tables
      BY <1>4, <3>1, FollowingIsNode DEF Typing, NodesTyped, AcpiNsWalkNamespace
    <3> DEFINE r == [call[c] EXCEPT !.at = "callback", !.table = tb]
    <3>3. call[c] \in Call  BY DEF Typing
    <3>4. r \in Call /\ r.at = "callback" /\ r.table = tb
      BY <3>2, <3>3 DEF Call, Place
    <3>5. call' = [call EXCEPT ![c] = r]  BY <3>1
    <3> HIDE DEF r
    <3>6. Becomes(c, "callback", tb, r.id)  BY <3>4, <3>5, Moved
    <3> QED  BY <1>0, <1>4, <3>2, <3>6 DEF AcpiNsWalkNamespace, Place, At
  <2>2. CASE Become(c, "unread")
    <3>1. Becomes(c, "unread", Nobody, 0)  BY <2>2, Became DEF Place
    <3> QED  BY <1>0, <1>4, <3>1 DEF AcpiNsWalkNamespace, Place, At
  <2> QED  BY <1>4, <2>1, <2>2 DEF AcpiNsWalkNamespace
<1>5. CASE UserFunctionReturns(c)
  <2>1. Table(c) \in Tables  BY <1>5 DEF UserFunctionReturns, Typing
  <2>2. CASE At(c, "callback")
    <3>1. Becomes(c, "returned", Table(c), call[c].id)
      BY <1>5, <2>2, Went DEF UserFunctionReturns, Place
    <3> QED  BY <1>0, <1>5, <2>1, <2>2, <3>1 DEF UserFunctionReturns, Place, At
  <2>3. CASE ~At(c, "callback")
    <3>1. Becomes(c, "gone", Table(c), call[c].id)
      BY <1>5, <2>3, Went DEF UserFunctionReturns, Place
    <3> QED  BY <1>0, <1>5, <2>1, <2>3, <3>1 DEF UserFunctionReturns, Place, At
  <2> QED  BY <2>2, <2>3
<1>6. CASE CheckNotLoaded(c)
  <2>1. Table(c) \in Tables  BY <1>6 DEF CheckNotLoaded, Typing, At
  <2>2. CASE Return(c)
    <3>1. Becomes(c, "idle", Nobody, 0)  BY <2>2, Returned
    <3> QED  BY <1>0, <1>6, <3>1 DEF CheckNotLoaded, Place, At
  <2>3. CASE Goto(c, "allocate")
    <3>1. Becomes(c, "allocate", Table(c), call[c].id)  BY <2>3, Went DEF Place
    <3> QED  BY <1>0, <1>6, <2>1, <3>1 DEF CheckNotLoaded, Place, At
  <2> QED  BY <1>6, <2>2, <2>3 DEF CheckNotLoaded
<1>7. CASE NoOwnerId(c)
  <2>1. Becomes(c, "idle", Nobody, 0)  BY <1>7, Returned DEF NoOwnerId
  <2> QED  BY <1>0, <1>7, <2>1 DEF NoOwnerId, Place, At
<1>8. CASE InitializeObjects(c)
  <2>1. CASE Become(c, "read")
    <3>1. Becomes(c, "read", Nobody, 0)  BY <2>1, Became DEF Place
    <3> QED  BY <1>0, <1>8, <3>1 DEF InitializeObjects, Place, At
  <2>2. CASE Return(c)
    <3>1. Becomes(c, "idle", Nobody, 0)  BY <2>2, Returned
    <3> QED  BY <1>0, <1>8, <3>1 DEF InitializeObjects, Place, At
  <2> QED  BY <1>8, <2>1, <2>2 DEF InitializeObjects
<1>9. CASE \E tb \in Tables : AcpiLoadTable(c, tb)
  <2>1. PICK tb \in Tables : AcpiLoadTable(c, tb)  BY <1>9
  <2>2. At(c, "idle") /\ Becomes(c, "check", tb, 0)
    BY <2>1, Begun DEF AcpiLoadTable, Place
  <2> QED  BY <1>0, <2>1, <2>2 DEF AcpiLoadTable, Place, At
<1>10. CASE \E tb \in Tables : AcpiExLoadOp(c, tb)
  <2>1. PICK tb \in Tables : AcpiExLoadOp(c, tb)  BY <1>10
  <2>2. call' = [call EXCEPT ![c] = [Idle EXCEPT !.at = "check", !.table = tb]]
    BY <2>1 DEF AcpiExLoadOp, FromMethod
  <2>3. Becomes(c, "check", tb, 0)  BY <2>2, WentFor DEF Place
  <2>4. FreeMove(c, "check", tb)  BY <2>1 DEF AcpiExLoadOp, FromMethod, Place, At
  <2>5. UNCHANGED <<tableVars, lockVars>> /\ interpreter' = Nobody
    BY <2>1 DEF AcpiExLoadOp, FromMethod
  <2> QED  BY ONLY <2>3, <2>4, <2>5
<1> QED  BY <1>1, <1>2, <1>3, <1>4, <1>5, <1>6, <1>7, <1>8, <1>9, <1>10

\* A load on its way through the table, which keeps the id.
HoldMove(c, w, i) ==
    /\ call[c].at \in Holding \ {"release"} /\ w \in Holding \ {"release"}
    /\ w \in Made => call[c].at \in Made
    /\ w \in Knowing => i = ownerId[Table(c)] \/ (call[c].at \in Knowing /\ i = call[c].id)

LEMMA HoldSteps ==
  ASSUME Typing, NEW c \in Calls,
         \/ GetOwnerId(c) \/ ParseTable(c) \/ Pause(c) \/ Resume(c) \/ Parsed(c)
         \/ ParseFails(c)
  PROVE  /\ UNCHANGED <<tableVars, lockVars>>
         /\ interpreter' \in Threads \cup {Nobody}
         /\ Table(c) \in Tables
         /\ \E w, i : Becomes(c, w, Table(c), i) /\ HoldMove(c, w, i)
<1> USE DEF HoldMove, Holding, Knowing, Made
<1>0. c[1] \in Threads /\ interpreter \in Threads \cup {Nobody}
  BY DEF Typing, Calls
<1>1. Table(c) \in Tables
  BY DEF GetOwnerId, ParseTable, Pause, Resume, Parsed, ParseFails, Typing, At, Loading
<1>2. CASE GetOwnerId(c)
  <2>0. PICK w \in {"enter", "failed"} : w = IF call[c].at = "allocated" THEN "enter" ELSE "failed"
    OBVIOUS
  <2> DEFINE r == [call[c] EXCEPT !.at = w, !.id = ownerId[Table(c)]]
  <2>1. call[c] \in Call /\ ownerId[Table(c)] \in Ids  BY <1>1 DEF Typing
  <2>2. r \in Call /\ r.at = w /\ r.table = Table(c) /\ r.id = ownerId[Table(c)]
    BY <2>0, <2>1 DEF Call, Place, Table, Loading
  <2>3. call' = [call EXCEPT ![c] = r]  BY <1>2, <2>0 DEF GetOwnerId
  <2> HIDE DEF r
  <2>4. Becomes(c, w, Table(c), ownerId[Table(c)])  BY <2>2, <2>3, Moved
  <2>5. HoldMove(c, w, ownerId[Table(c)])  BY <1>2, <2>0 DEF GetOwnerId
  <2> QED  BY <1>0, <1>1, <1>2, <2>4, <2>5 DEF GetOwnerId
<1>7. CASE ParseTable(c)
  <2>1. Becomes(c, "parse", Table(c), call[c].id)  BY <1>7, Went DEF ParseTable, Place, Loading
  <2> QED  BY <1>0, <1>1, <1>7, <2>1 DEF ParseTable, At
<1>3. CASE Pause(c)
  <2>1. Becomes(c, "away", Table(c), call[c].id)  BY <1>3, Went DEF Pause, Place, Loading
  <2> QED  BY <1>0, <1>1, <1>3, <2>1 DEF Pause, At
<1>4. CASE Resume(c)
  <2>1. Becomes(c, "resumed", Table(c), call[c].id)  BY <1>4, Went DEF Resume, Place, Loading
  <2> QED  BY <1>0, <1>1, <1>4, <2>1 DEF Resume, At
<1>5. CASE Parsed(c)
  <2>1. Becomes(c, "flag", Table(c), call[c].id)  BY <1>5, Went DEF Parsed, Place, Loading
  <2> QED  BY <1>0, <1>1, <1>5, <2>1 DEF Parsed, At
<1>6. CASE ParseFails(c)
  <2>1. Becomes(c, "failing", Table(c), 0)  BY <1>6, Forgot DEF ParseFails, Place, Loading
  <2> QED  BY <1>0, <1>1, <1>6, <2>1 DEF ParseFails, At
<1> QED  BY <1>2, <1>3, <1>4, <1>5, <1>6, <1>7

\* A deletion turns its call, and those whose node it takes.
LEMMA Deleting ==
  ASSUME Typing, NEW c \in Calls, NEW i, NEW w \in Place, DeleteNamespaceByOwner(c, i, w)
  PROVE  /\ Turns(c, w, Table(c), 0)
         /\ \A d \in Calls : call[d].at \in Visiting /\ call'[d].at \in NodeGone /\ d # c
                                 => Table(d) \in Doomed(i)
<1> DEFINE new(d) == IF d = c THEN [call[d] EXCEPT !.at = w, !.id = 0]
                     ELSE IF call[d].at \in Visiting /\ Table(d) \in Doomed(i)
                     THEN [call[d] EXCEPT !.at = IF @ = "callback" THEN "dangling" ELSE "gone"]
                     ELSE call[d]
<1>1. call' = [d \in Calls |-> new(d)]  BY DEF DeleteNamespaceByOwner
<1>2. \A d \in Calls : call[d] \in Call  BY DEF Typing
<1>3. \A d \in Calls : new(d) \in Call /\ new(d).table = call[d].table
  BY <1>2 DEF Call, Place, Walking, NodeGone, Ids
<1>4. new(c).at = w /\ new(c).id = 0  BY <1>2 DEF Call
<1>5. \A d \in Calls \ {c} :
          \/ new(d) = call[d]
          \/ /\ call[d].at \in Visiting /\ new(d).at \in NodeGone
             /\ new(d).id = call[d].id /\ Table(d) \in Doomed(i)
  BY <1>2 DEF Call, NodeGone
<1>6. Visiting \cap NodeGone = {}  BY DEF Visiting, NodeGone
<1> HIDE DEF new
<1>7. call' \in [Calls -> Call] /\ \A d \in Calls : call'[d] = new(d)  BY <1>1, <1>3
<1> QED  BY <1>3, <1>4, <1>5, <1>6, <1>7 DEF Turns, Table

\* The nodes that are left are as they were.
LEMMA NodesLeft ==
  ASSUME NEW c, NEW i, NEW w, DeleteNamespaceByOwner(c, i, w)
  PROVE  /\ DOMAIN node' = DOMAIN node \ Doomed(i)
         /\ \A u \in DOMAIN node' : node'[u] = node[u]
BY DEF DeleteNamespaceByOwner

LEMMA NodesTypedLeft ==
  ASSUME Typing, NEW c, NEW i, NEW w, DeleteNamespaceByOwner(c, i, w)
  PROVE  NodesTyped'
<1>1. DOMAIN node \subseteq Tables /\ node \in [DOMAIN node -> Ids]
  BY DEF Typing, NodesTyped
<1>2. node' = [tb \in DOMAIN node \ Doomed(i) |-> node[tb]]  BY DEF DeleteNamespaceByOwner
<1>3. DOMAIN node' = DOMAIN node \ Doomed(i)  BY <1>2
<1>4. node' \in [DOMAIN node' -> Ids]
  <2>1. \A u \in DOMAIN node \ Doomed(i) : node[u] \in Ids  BY <1>1
  <2>2. node' \in [DOMAIN node \ Doomed(i) -> Ids]  BY <1>2, <2>1
  <2> QED  BY <1>3, <2>2
<1>5. before' \subseteq (DOMAIN node') \X (DOMAIN node')
  <2> SUFFICES ASSUME NEW p \in before' PROVE p \in (DOMAIN node') \X (DOMAIN node')
    OBVIOUS
  <2>1. p \in before /\ {p[1], p[2]} \cap Doomed(i) = {}  BY DEF DeleteNamespaceByOwner
  <2>2. p \in (DOMAIN node) \X (DOMAIN node)  BY <2>1 DEF Typing, NodesTyped
  <2> QED  BY <1>3, <2>1, <2>2
<1> QED  BY <1>1, <1>3, <1>4, <1>5 DEF NodesTyped

\* A new node is typed as the others are.
LEMMA NodesTypedMore ==
  ASSUME Typing, NEW c \in Calls, Table(c) \in Tables, CreateNode(c)
  PROVE  /\ NodesTyped'
         /\ DOMAIN node' = DOMAIN node \cup {Table(c)} /\ Table(c) \notin DOMAIN node
         /\ node'[Table(c)] = call[c].id /\ \A u \in DOMAIN node : node'[u] = node[u]
<1> DEFINE tb == Table(c)
<1>1. DOMAIN node \subseteq Tables /\ node \in [DOMAIN node -> Ids] /\ call[c].id \in Ids
  BY CallFields DEF Typing, NodesTyped
<1>2. /\ node' = [u \in DOMAIN node \cup {tb} |-> IF u = tb THEN call[c].id ELSE node[u]]
      /\ before' = before \cup (Preceding(tb) \X {tb})
                          \cup ({tb} \X (DOMAIN node \ Preceding(tb)))
      /\ tb \notin DOMAIN node
  BY DEF CreateNode
<1>3. Preceding(tb) \subseteq DOMAIN node  BY DEF Preceding
<1>4. tb \in Tables  OBVIOUS
<1> HIDE DEF tb
<1>5. DOMAIN node' = DOMAIN node \cup {tb}  BY <1>2
<1>6. node' \in [DOMAIN node' -> Ids]
  <2>1. \A u \in DOMAIN node \cup {tb} : (IF u = tb THEN call[c].id ELSE node[u]) \in Ids
    BY <1>1
  <2>2. node' \in [DOMAIN node \cup {tb} -> Ids]  BY <1>2, <2>1
  <2> QED  BY <1>5, <2>2
<1>7. before' \subseteq (DOMAIN node') \X (DOMAIN node')
  <2>1. before \subseteq (DOMAIN node) \X (DOMAIN node)  BY DEF Typing, NodesTyped
  <2> QED  BY <1>2, <1>3, <1>5, <2>1
<1>8. NodesTyped'  BY <1>1, <1>4, <1>5, <1>6, <1>7 DEF NodesTyped
<1>9. node'[tb] = call[c].id /\ \A u \in DOMAIN node : node'[u] = node[u]  BY <1>2
<1> QED  BY <1>2, <1>5, <1>8, <1>9 DEF tb

-----------------------------------------------------------------------------
(* Types hold                                                               *)

\* The tables, and the lock, keep their types where nothing changes them.
LEMMA TablesSame ==
  ASSUME Typing, UNCHANGED tableVars
  PROVE  /\ loaded' \in [Tables -> BOOLEAN] /\ ownerId' \in [Tables -> Ids]
         /\ NodesTyped'
BY DEF Typing, NodesTyped, tableVars, nodeVars

LEMMA LocksSame ==
  ASSUME Typing, UNCHANGED lockVars
  PROVE  numReaders' \in Nat /\ readerMutex' \in BOOLEAN /\ writerMutex' \in BOOLEAN
BY DEF Typing, lockVars

LEMMA InterpreterSame ==
  ASSUME Typing, UNCHANGED interpreter
  PROVE  interpreter' \in Threads \cup {Nobody}
BY DEF Typing

LEMMA TypingReads ==
  ASSUME Typing, NEW c \in Calls,
         AcpiUtAcquireReadLock(c) \/ FirstReader(c),
         twice' \subseteq Tables
  PROVE  Typing'
<1>1. UNCHANGED tableVars /\ UNCHANGED interpreter
  BY DEF AcpiUtAcquireReadLock, FirstReader
<1>2. numReaders' \in Nat /\ readerMutex' \in BOOLEAN /\ writerMutex' \in BOOLEAN
  <2>1. CASE AcpiUtAcquireReadLock(c)
    <3>1. numReaders' = numReaders + 1 /\ writerMutex' = writerMutex
      BY <2>1 DEF AcpiUtAcquireReadLock, CountReader
    <3>2. readerMutex' = (numReaders = 0)  BY <2>1 DEF AcpiUtAcquireReadLock
    <3>3. readerMutex' \in BOOLEAN  BY ONLY <3>2
    <3>4. numReaders \in Nat /\ writerMutex \in BOOLEAN  BY DEF Typing
    <3>5. numReaders + 1 \in Nat  BY <3>4
    <3> QED  BY ONLY <3>1, <3>3, <3>4, <3>5
  <2>2. CASE FirstReader(c)
    <3>1. numReaders' = numReaders /\ writerMutex' = TRUE /\ readerMutex' = FALSE
      BY <2>2 DEF FirstReader
    <3>2. numReaders \in Nat  BY DEF Typing
    <3> QED  BY ONLY <3>1, <3>2
  <2> QED  BY <2>1, <2>2
<1>3. PICK w \in {"first", "next"} : Goto(c, w)
  <2>1. AcpiUtAcquireReadLock(c) => Goto(c, "first") \/ Goto(c, "next")
    <3>1. CASE numReaders = 0  BY <3>1 DEF AcpiUtAcquireReadLock
    <3>2. CASE numReaders # 0  BY <3>2 DEF AcpiUtAcquireReadLock
    <3> QED  BY <3>1, <3>2
  <2>2. FirstReader(c) => Goto(c, "next")  BY DEF FirstReader
  <2> QED  BY <2>1, <2>2
<1>4. w \in Place /\ w \notin Loading \cup Unloading \cup Visiting \cup NodeGone
  BY <1>3 DEF Place, Walking, Loading, Unloading, Visiting, NodeGone
<1>5. Turns(c, w, Table(c), call[c].id)  BY <1>3, <1>4, Went, BecomesTurns
<1> QED  BY <1>1, <1>2, <1>4, <1>5, TablesSame, InterpreterSame, TypingKept

LEMMA TypingReadEnds ==
  ASSUME Typing, NEW c \in Calls, AcpiUtReleaseReadLock(c), numReaders # 0,
         twice' \subseteq Tables
  PROVE  Typing'
<1>1. UNCHANGED tableVars /\ UNCHANGED interpreter  BY DEF AcpiUtReleaseReadLock
<1>2. numReaders' \in Nat /\ readerMutex' \in BOOLEAN /\ writerMutex' \in BOOLEAN
  <2>1. numReaders' = numReaders - 1 /\ readerMutex' = readerMutex
    BY DEF AcpiUtReleaseReadLock
  <2>2. writerMutex' = (writerMutex /\ ~LastReader)  BY DEF AcpiUtReleaseReadLock
  <2>3. writerMutex' \in BOOLEAN  BY ONLY <2>2
  <2>4. numReaders \in Nat /\ readerMutex \in BOOLEAN  BY DEF Typing
  <2>5. numReaders - 1 \in Nat  BY <2>4
  <2> QED  BY ONLY <2>1, <2>3, <2>4, <2>5
<1>3. Turns(c, "idle", Nobody, 0)  BY Returned, BecomesTurns DEF AcpiUtReleaseReadLock
<1>4. "idle" \notin Loading \cup Unloading \cup Visiting \cup NodeGone
  BY DEF Loading, Unloading, Visiting, NodeGone
<1> QED  BY <1>1, <1>2, <1>3, <1>4, TablesSame, InterpreterSame, TypingKept

\* A thread on its way through an unload keeps its table.
LEMMA TypingUnloads ==
  ASSUME Typing, NEW c \in Calls,
         \/ CheckLoaded(c) \/ ReadOwnerId(c) \/ AcpiUtAcquireWriteLock(c)
         \/ AcpiUtReleaseWriteLock(c) \/ ReleaseOwnerId(c) \/ ClearTableLoaded(c),
         twice' \subseteq Tables
  PROVE  Typing'
<1>1. Table(c) \in Tables /\ UNCHANGED interpreter
  BY DEF CheckLoaded, ReadOwnerId, AcpiUtAcquireWriteLock, AcpiUtReleaseWriteLock,
         ReleaseOwnerId, ClearTableLoaded, At, Typing, Unloading
<1>2. "idle" \notin Loading \cup Unloading \cup Visiting \cup NodeGone
  BY DEF Loading, Unloading, Visiting, NodeGone
<1>3. Unloading \subseteq Place  BY DEF Place
<1>4. CASE CheckLoaded(c)
  <2>1. UNCHANGED tableVars /\ UNCHANGED lockVars  BY <1>4 DEF CheckLoaded
  <2>2. CASE Goto(c, "owner")
    <3>1. Turns(c, "owner", Table(c), call[c].id)
      BY <1>3, <2>2, Went, BecomesTurns DEF Unloading
    <3> QED  BY <1>1, <2>1, <3>1, TablesSame, LocksSame, InterpreterSame, TypingKept
  <2>3. CASE Return(c)
    <3>1. Turns(c, "idle", Nobody, 0)  BY <2>3, Returned, BecomesTurns
    <3> QED  BY <1>1, <1>2, <2>1, <3>1, TablesSame, LocksSame, InterpreterSame, TypingKept
  <2> QED  BY <1>4, <2>2, <2>3 DEF CheckLoaded
<1>5. CASE ReadOwnerId(c)
  <2> DEFINE r == [call[c] EXCEPT !.at = "write", !.id = ownerId[Table(c)]]
  <2>1. call[c] \in Call /\ ownerId[Table(c)] \in Ids  BY <1>1 DEF Typing
  <2>2. r \in Call /\ r.at = "write" /\ r.table = Table(c) /\ r.id = ownerId[Table(c)]
    BY <1>3, <2>1 DEF Call, Table, Unloading
  <2>3. call' = [call EXCEPT ![c] = r]  BY <1>5 DEF ReadOwnerId
  <2> HIDE DEF r
  <2>4. Turns(c, "write", Table(c), ownerId[Table(c)])
    BY <2>2, <2>3, Moved, BecomesTurns
  <2>5. UNCHANGED tableVars /\ UNCHANGED lockVars  BY <1>5 DEF ReadOwnerId
  <2> QED  BY <1>1, <2>4, <2>5, TablesSame, LocksSame, InterpreterSame, TypingKept
<1>6. CASE AcpiUtAcquireWriteLock(c)
  <2>1. Turns(c, "delete", Table(c), call[c].id)
    BY <1>3, <1>6, Went, BecomesTurns DEF AcpiUtAcquireWriteLock, Unloading
  <2>2. /\ UNCHANGED tableVars
        /\ numReaders' \in Nat /\ readerMutex' \in BOOLEAN /\ writerMutex' \in BOOLEAN
    BY <1>6 DEF AcpiUtAcquireWriteLock, Typing
  <2> QED  BY <1>1, <2>1, <2>2, TablesSame, InterpreterSame, TypingKept
<1>7. CASE AcpiUtReleaseWriteLock(c)
  <2>1. Turns(c, "free", Table(c), call[c].id)
    BY <1>3, <1>7, Went, BecomesTurns DEF AcpiUtReleaseWriteLock, Unloading
  <2>2. /\ UNCHANGED tableVars
        /\ numReaders' \in Nat /\ readerMutex' \in BOOLEAN /\ writerMutex' \in BOOLEAN
    BY <1>7 DEF AcpiUtReleaseWriteLock, Typing
  <2> QED  BY <1>1, <2>1, <2>2, TablesSame, InterpreterSame, TypingKept
<1>8. CASE ReleaseOwnerId(c)
  <2>1. Turns(c, "unflag", Table(c), call[c].id)
    BY <1>3, <1>8, Went, BecomesTurns DEF ReleaseOwnerId, Unloading
  <2>2. /\ ownerId' \in [Tables -> Ids] /\ loaded' \in [Tables -> BOOLEAN]
        /\ NodesTyped' /\ UNCHANGED lockVars
    BY <1>1, <1>8 DEF ReleaseOwnerId, Typing, NodesTyped, nodeVars, Ids
  <2> QED  BY <1>1, <2>1, <2>2, LocksSame, InterpreterSame, TypingKept
<1>9. CASE ClearTableLoaded(c)
  <2>1. Turns(c, "idle", Nobody, 0)  BY <1>9, Returned, BecomesTurns DEF ClearTableLoaded
  <2>2. /\ ownerId' \in [Tables -> Ids] /\ loaded' \in [Tables -> BOOLEAN]
        /\ NodesTyped' /\ UNCHANGED lockVars
    BY <1>1, <1>9 DEF ClearTableLoaded, Typing, NodesTyped, nodeVars
  <2> QED  BY <1>1, <1>2, <2>1, <2>2, LocksSame, InterpreterSame, TypingKept
<1> QED  BY <1>4, <1>5, <1>6, <1>7, <1>8, <1>9

\* An unload begins.
LEMMA TestSteps ==
  ASSUME Typing, NEW c \in Calls, NEW tb \in Tables,
         AcpiUnloadTable(c, tb) \/ AcpiExUnloadTable(c, tb)
  PROVE  /\ UNCHANGED <<tableVars, lockVars>>
         /\ interpreter' \in Threads \cup {Nobody}
         /\ call[c].at \in {"idle", "method"} /\ Becomes(c, "test", tb, 0)
<1>1. "test" \in Place  BY DEF Place, Unloading
<1>2. CASE AcpiUnloadTable(c, tb)
  <2>1. At(c, "idle") /\ Becomes(c, "test", tb, 0)
    BY <1>1, <1>2, Begun DEF AcpiUnloadTable
  <2>2. interpreter' \in Threads \cup {Nobody}
    BY <1>2, InterpreterSame DEF AcpiUnloadTable
  <2> QED  BY <1>2, <2>1, <2>2 DEF AcpiUnloadTable, At
<1>3. CASE AcpiExUnloadTable(c, tb)
  <2>1. call' = [call EXCEPT ![c] = [Idle EXCEPT !.at = "test", !.table = tb]]
    BY <1>3 DEF AcpiExUnloadTable, FromMethod
  <2>2. Becomes(c, "test", tb, 0)  BY <1>1, <2>1, WentFor
  <2> QED  BY <1>3, <2>2 DEF AcpiExUnloadTable, FromMethod, At
<1> QED  BY <1>2, <1>3

LEMMA TypingTest ==
  ASSUME Typing, NEW c \in Calls, NEW tb \in Tables,
         AcpiUnloadTable(c, tb) \/ AcpiExUnloadTable(c, tb), twice' \subseteq Tables
  PROVE  Typing'
<1>1. /\ UNCHANGED <<tableVars, lockVars>>
      /\ interpreter' \in Threads \cup {Nobody} /\ Becomes(c, "test", tb, 0)
  BY TestSteps
<1> QED  BY <1>1, BecomesTurns, TypingQuiet

\* A load that gets the id, has the node, sets the flag, or gives the id back.
LEMMA LoadSteps ==
  ASSUME Typing, NEW c \in Calls
  PROVE  /\ AllocateOwnerId(c) => /\ Table(c) \in Tables
                               /\ Becomes(c, "allocated", Table(c), call[c].id)
         /\ CreateNode(c) => Table(c) \in Tables /\ Becomes(c, "created", Table(c), 0)
         /\ SetTableLoaded(c) => /\ Table(c) \in Tables
                                 /\ Becomes(c, "initialize", Table(c), call[c].id)
         /\ ReleaseFailed(c) => Table(c) \in Tables /\ Becomes(c, "idle", Nobody, 0)
<1>1. Loading \subseteq Place  BY DEF Place
<1>2. AllocateOwnerId(c) => Becomes(c, "allocated", Table(c), call[c].id)
  BY <1>1, Went DEF AllocateOwnerId, Loading
<1>3. CreateNode(c) => Becomes(c, "created", Table(c), 0)
  BY <1>1, Forgot DEF CreateNode, Loading
<1>4. SetTableLoaded(c) => Becomes(c, "initialize", Table(c), call[c].id)
  BY <1>1, Went DEF SetTableLoaded, Loading
<1>5. ReleaseFailed(c) => Becomes(c, "idle", Nobody, 0)  BY Returned DEF ReleaseFailed
<1>6. AllocateOwnerId(c) \/ CreateNode(c) \/ SetTableLoaded(c) \/ ReleaseFailed(c)
         => Table(c) \in Tables
  BY DEF AllocateOwnerId, CreateNode, SetTableLoaded, ReleaseFailed, At, Typing, Loading
<1> QED  BY <1>2, <1>3, <1>4, <1>5, <1>6

LEMMA TypingLoads ==
  ASSUME Typing, NEW c \in Calls,
         AllocateOwnerId(c) \/ SetTableLoaded(c) \/ ReleaseFailed(c) \/ CreateNode(c),
         twice' \subseteq Tables
  PROVE  Typing'
<1>1. "idle" \notin Loading \cup Unloading \cup Visiting \cup NodeGone
  BY DEF Loading, Unloading, Visiting, NodeGone
<1>2. CASE AllocateOwnerId(c)
  <2>1. Table(c) \in Tables /\ Turns(c, "allocated", Table(c), call[c].id)
    BY <1>2, LoadSteps, BecomesTurns
  <2>2. PICK i \in FreeIds(Table(c)) : ownerId' = [ownerId EXCEPT ![Table(c)] = i]
    BY <1>2 DEF AllocateOwnerId
  <2>3. i \in Ids  BY <2>2 DEF FreeIds, Ids
  <2>4. /\ ownerId' \in [Tables -> Ids] /\ loaded' \in [Tables -> BOOLEAN]
        /\ NodesTyped'
    BY <1>2, <2>1, <2>2, <2>3 DEF AllocateOwnerId, Typing, NodesTyped, nodeVars
  <2>5. UNCHANGED lockVars /\ UNCHANGED interpreter  BY <1>2 DEF AllocateOwnerId
  <2> QED  BY <2>1, <2>4, <2>5, LocksSame, InterpreterSame, TypingKept
<1>3. CASE SetTableLoaded(c)
  <2>1. Table(c) \in Tables /\ Turns(c, "initialize", Table(c), call[c].id)
    BY <1>3, LoadSteps, BecomesTurns
  <2>2. /\ ownerId' \in [Tables -> Ids] /\ loaded' \in [Tables -> BOOLEAN]
        /\ NodesTyped'
    BY <1>3, <2>1 DEF SetTableLoaded, Typing, NodesTyped, nodeVars
  <2>3. UNCHANGED lockVars /\ UNCHANGED interpreter  BY <1>3 DEF SetTableLoaded
  <2> QED  BY <2>1, <2>2, <2>3, LocksSame, InterpreterSame, TypingKept
<1>4. CASE ReleaseFailed(c)
  <2>1. Table(c) \in Tables /\ Turns(c, "idle", Nobody, 0)
    BY <1>4, LoadSteps, BecomesTurns
  <2>2. /\ ownerId' \in [Tables -> Ids] /\ loaded' \in [Tables -> BOOLEAN]
        /\ NodesTyped'
    BY <1>4, <2>1 DEF ReleaseFailed, Typing, NodesTyped, nodeVars, Ids
  <2>3. UNCHANGED lockVars /\ UNCHANGED interpreter  BY <1>4 DEF ReleaseFailed
  <2> QED  BY <1>1, <2>1, <2>2, <2>3, LocksSame, InterpreterSame, TypingKept
<1>5. CASE CreateNode(c)
  <2>1. Table(c) \in Tables /\ Turns(c, "created", Table(c), 0)
    BY <1>5, LoadSteps, BecomesTurns
  <2>2. NodesTyped'  BY <1>5, <2>1, NodesTypedMore
  <2>3. ownerId' \in [Tables -> Ids] /\ loaded' \in [Tables -> BOOLEAN]
    BY <1>5 DEF CreateNode, Typing
  <2>4. UNCHANGED lockVars /\ UNCHANGED interpreter  BY <1>5 DEF CreateNode
  <2> QED  BY <2>1, <2>2, <2>3, <2>4, LocksSame, InterpreterSame, TypingKept
<1> QED  BY <1>2, <1>3, <1>4, <1>5

LEMMA TypingDeletes ==
  ASSUME Typing, NEW c \in Calls, DeleteFailed(c) \/ DeleteUnloaded(c),
         twice' \subseteq Tables
  PROVE  Typing'
<1>1. Table(c) \in Tables
  BY DEF DeleteFailed, DeleteUnloaded, At, Typing, Loading, Unloading
<1>2. PICK w \in {"release", "unlock"} : \E j : DeleteNamespaceByOwner(c, j, w)
  BY DEF DeleteFailed, DeleteUnloaded
<1> PICK i : DeleteNamespaceByOwner(c, i, w)  BY <1>2
<1>3. w \in Place  BY DEF Place, Loading, Unloading
<1>4. Turns(c, w, Table(c), 0)  BY <1>2, <1>3, Deleting
<1>5. UNCHANGED <<loaded, ownerId, lockVars, interpreter>>
  BY <1>2 DEF DeleteNamespaceByOwner
<1>6. /\ ownerId' \in [Tables -> Ids] /\ loaded' \in [Tables -> BOOLEAN]
      /\ NodesTyped'
  BY <1>2, <1>5, NodesTypedLeft DEF Typing
<1>7. UNCHANGED lockVars /\ UNCHANGED interpreter  BY <1>5
<1> QED  BY <1>1, <1>4, <1>6, <1>7, LocksSame, InterpreterSame, TypingKept

-----------------------------------------------------------------------------
(* The reader/writer lock                                                   *)

Readers == {c \in Calls : call[c].at \in Walking \cup {"first"}}

\* The readers are counted. The first of them is alone until it has the WriterMutex,
\* which is taken as long as one walks; an unload that deletes has it alone.
Locked ==
    /\ numReaders = Cardinality(Readers)
    /\ \A c \in Calls : At(c, "first") => readerMutex /\ Readers = {c}
    /\ \A c \in Calls : call[c].at \in Walking => writerMutex
    /\ \A c \in Calls : call[c].at \in Writing =>
           /\ writerMutex
           /\ \A d \in Calls : call[d].at \in Walking \cup Writing => d = c

LEMMA ReadersFinite == IsFiniteSet(Readers) /\ Cardinality(Readers) \in Nat
<1>1. Readers \subseteq Calls  BY DEF Readers
<1> QED  BY <1>1, CallsFinite, FS_Subset, FS_CardinalityType

\* A step that the lock does not know of.
LEMMA LockedKept ==
  ASSUME Locked, NEW c \in Calls, NEW w, NEW tb, NEW i, Turns(c, w, tb, i),
         LocksAlike(c, w), UNCHANGED lockVars
  PROVE  Locked'
<1>1. \A d \in Calls : /\ call'[d].at \in Walking <=> call[d].at \in Walking
                       /\ call'[d].at \in Writing <=> call[d].at \in Writing
  BY DEF Turns, LocksAlike, Walking, Visiting, NodeGone, Writing
<1>2. \A d \in Calls : call'[d].at = "first" <=> call[d].at = "first"
  BY DEF Turns, LocksAlike, Visiting, NodeGone
<1>3. Readers' = Readers  BY <1>1, <1>2 DEF Readers
<1>4. numReaders' = numReaders /\ readerMutex' = readerMutex /\ writerMutex' = writerMutex
  BY DEF lockVars
<1>5. numReaders' = Cardinality(Readers')  BY <1>3, <1>4 DEF Locked
<1>6. \A d \in Calls : call'[d].at = "first" => readerMutex' /\ Readers' = {d}
  BY <1>2, <1>3, <1>4 DEF Locked, At
<1>7. \A d \in Calls : call'[d].at \in Walking => writerMutex'
  BY <1>1, <1>4 DEF Locked
<1>8. \A d \in Calls : call'[d].at \in Writing =>
          /\ writerMutex'
          /\ \A e \in Calls : call'[e].at \in Walking \cup Writing => e = d
  BY <1>1, <1>4 DEF Locked
<1> QED  BY <1>5, <1>6, <1>7, <1>8 DEF Locked, At

LEMMA LockedRead ==
  ASSUME Typing, Locked, NEW c \in Calls, AcpiUtAcquireReadLock(c)
  PROVE  Locked'
<1> DEFINE w == IF numReaders = 0 THEN "first" ELSE "next"
<1>1. At(c, "read") /\ ~readerMutex /\ writerMutex' = writerMutex
  BY DEF AcpiUtAcquireReadLock
<1>2. numReaders' = numReaders + 1 /\ readerMutex' = (numReaders = 0)
  BY DEF AcpiUtAcquireReadLock, CountReader
<1>3. w \in Place  BY DEF Place, Walking
<1>4. Goto(c, w)  BY DEF AcpiUtAcquireReadLock
<1> HIDE DEF w
<1>5. Becomes(c, w, Table(c), call[c].id)  BY <1>3, <1>4, Went
<1>6. Readers' = Readers \cup {c} /\ c \notin Readers
  <2>1. w \in Walking \cup {"first"}  BY DEF w, Walking
  <2>2. "read" \notin Walking \cup {"first"}  BY DEF Walking, Visiting, NodeGone
  <2> QED  BY <1>1, <1>5, <2>1, <2>2 DEF Readers, Becomes, At
<1>7. Cardinality(Readers') = Cardinality(Readers) + 1
  BY <1>6, ReadersFinite, FS_AddElement
<1>8. \A d \in Calls : ~At(d, "first")  BY <1>1 DEF Locked
<1>9. numReaders' = Cardinality(Readers')  BY <1>2, <1>7 DEF Locked
<1>10. CASE numReaders = 0
  <2>1. Readers = {}  BY <1>10, ReadersFinite, FS_EmptySet DEF Locked
  <2>2. w = "first" /\ Readers' = {c}  BY <1>6, <1>10, <2>1 DEF w
  <2>3. readerMutex'  BY <1>2, <1>10
  <2>4. \A d \in Calls : call'[d].at \notin Walking
    <3>1. \A d \in Calls : call[d].at \notin Walking  BY <2>1 DEF Readers
    <3> QED  BY <1>5, <2>2, <3>1 DEF Becomes, Walking, Visiting, NodeGone
  <2>5. \A d \in Calls : call'[d].at = "first" => d = c
    BY <1>5, <1>8 DEF Becomes, At
  <2>6. \A d \in Calls : call'[d].at \in Writing => d # c /\ call[d].at \in Writing
    BY <1>5, <2>2 DEF Becomes, Writing
  <2>7. \A d \in Calls : call'[d].at \in Writing =>
            /\ writerMutex'
            /\ \A e \in Calls : call'[e].at \in Walking \cup Writing => e = d
    BY <1>1, <2>4, <2>6 DEF Locked
  <2>8. \A d \in Calls : call'[d].at = "first" => readerMutex' /\ Readers' = {d}
    BY <2>2, <2>3, <2>5
  <2> QED  BY <1>9, <2>4, <2>7, <2>8 DEF Locked, At
<1>11. CASE numReaders # 0
  <2>1. PICK d \in Readers : TRUE
    BY <1>11, FS_EmptySet DEF Locked
  <2>2. d \in Calls /\ call[d].at \in Walking  BY <1>8, <2>1 DEF Readers, At
  <2>3. writerMutex  BY <2>2 DEF Locked
  <2>4. \A e \in Calls : call[e].at \notin Writing
    BY <2>2 DEF Locked, Walking, Writing, Visiting, NodeGone
  <2>5. w = "next"  BY <1>11 DEF w
  <2>6. \A e \in Calls : call'[e].at \notin Writing /\ call'[e].at # "first"
    BY <1>5, <1>8, <2>4, <2>5 DEF Becomes, Writing, At
  <2>7. writerMutex'  BY <1>1, <2>3
  <2> QED  BY <1>9, <2>6, <2>7 DEF Locked, At
<1> QED  BY <1>10, <1>11

LEMMA LockedFirst ==
  ASSUME Typing, Locked, NEW c \in Calls, FirstReader(c)
  PROVE  Locked'
<1>1. /\ At(c, "first") /\ ~writerMutex /\ numReaders' = numReaders
      /\ writerMutex' = TRUE /\ readerMutex' = FALSE
  BY DEF FirstReader
<1>2. "next" \in Place /\ "next" \in Walking  BY DEF Place, Walking
<1>3. Becomes(c, "next", Table(c), call[c].id)  BY <1>2, Went DEF FirstReader
<1>4. Readers = {c}  BY <1>1 DEF Locked
<1>5. Readers' = Readers  BY <1>1, <1>2, <1>3 DEF Readers, Becomes, At
<1>6. \A d \in Calls : call[d].at \notin Writing  BY <1>1 DEF Locked
<1>7. \A d \in Calls : call'[d].at \notin Writing  BY <1>3, <1>6 DEF Becomes, Writing
<1>8. \A d \in Calls : call'[d].at # "first"
  BY <1>3, <1>4 DEF Becomes, Readers
<1>9. numReaders' = Cardinality(Readers')  BY <1>1, <1>5 DEF Locked
<1> QED  BY <1>1, <1>7, <1>8, <1>9 DEF Locked, At

LEMMA LockedUnread ==
  ASSUME Typing, Locked, NEW c \in Calls, AcpiUtReleaseReadLock(c)
  PROVE  Locked' /\ numReaders # 0
<1>1. At(c, "unread") /\ ~readerMutex /\ numReaders' = numReaders - 1
  BY DEF AcpiUtReleaseReadLock
<1>2. writerMutex' = (writerMutex /\ numReaders # 1)
  BY DEF AcpiUtReleaseReadLock, LastReader
<1>3. Becomes(c, "idle", Nobody, 0)  BY Returned DEF AcpiUtReleaseReadLock
<1>4. "idle" \notin Walking \cup Writing \cup {"first"}
  BY DEF Walking, Visiting, NodeGone, Writing
<1>5. call[c].at \in Walking /\ call[c].at \notin Writing
  BY <1>1 DEF At, Walking, Writing
<1>6. c \in Readers /\ Readers' = Readers \ {c}
  BY <1>3, <1>4, <1>5 DEF Readers, Becomes
<1>7. Cardinality(Readers') = Cardinality(Readers) - 1
  BY <1>6, ReadersFinite, FS_RemoveElement
<1>8. numReaders # 0  BY <1>6, ReadersFinite, FS_EmptySet DEF Locked
<1>9. numReaders' = Cardinality(Readers')  BY <1>1, <1>7 DEF Locked
<1>10. \A d \in Calls : ~At(d, "first")  BY <1>1 DEF Locked
<1>11. \A d \in Calls : call[d].at \notin Writing  BY <1>5 DEF Locked
<1>12. \A d \in Calls : call'[d].at \notin Writing /\ call'[d].at # "first"
  BY <1>3, <1>4, <1>10, <1>11 DEF Becomes, At
<1>13. ASSUME NEW d \in Calls, call'[d].at \in Walking PROVE writerMutex'
  <2>1. d # c /\ d \in Readers'  BY <1>3, <1>4, <1>13 DEF Becomes, Readers
  <2>2. numReaders # 1
    <3> SUFFICES ASSUME numReaders = 1 PROVE FALSE
      OBVIOUS
    <3>0. Cardinality(Readers) = 1  BY DEF Locked
    <3>1. Cardinality(Readers') = 0  BY ONLY <3>0, <1>7
    <3>2. IsFiniteSet(Readers')  BY <1>6, ReadersFinite, FS_RemoveElement
    <3> QED  BY <2>1, <3>1, <3>2, FS_EmptySet
  <2>3. writerMutex  BY <1>5 DEF Locked
  <2> QED  BY <1>2, <2>2, <2>3
<1> QED  BY <1>8, <1>9, <1>12, <1>13 DEF Locked, At

LEMMA LockedWrite ==
  ASSUME Typing, Locked, NEW c \in Calls,
         AcpiUtAcquireWriteLock(c) \/ AcpiUtReleaseWriteLock(c)
  PROVE  Locked'
<1>1. numReaders' = numReaders /\ readerMutex' = readerMutex
  BY DEF AcpiUtAcquireWriteLock, AcpiUtReleaseWriteLock
<1>2. "delete" \in Place /\ "free" \in Place  BY DEF Place, Unloading
<1>3. PICK w \in {"delete", "free"} : Becomes(c, w, Table(c), call[c].id)
  BY <1>2, Went DEF AcpiUtAcquireWriteLock, AcpiUtReleaseWriteLock
<1>4. w \notin Walking \cup {"first"} /\ call[c].at \notin Walking \cup {"first"}
  BY <1>3 DEF AcpiUtAcquireWriteLock, AcpiUtReleaseWriteLock, At, Walking, Visiting, NodeGone
<1>5. Readers' = Readers  BY <1>3, <1>4 DEF Readers, Becomes
<1>6. \A d \in Calls : call'[d].at = "first" => readerMutex' /\ Readers' = {d}
  BY <1>1, <1>3, <1>4, <1>5 DEF Locked, Becomes, At
<1>7. numReaders' = Cardinality(Readers')  BY <1>1, <1>5 DEF Locked
<1>8. \A d \in Calls \ {c} : call[d].at \notin Walking \cup Writing
  BY DEF Locked, AcpiUtAcquireWriteLock, AcpiUtReleaseWriteLock, At, Writing
<1>9. \A d \in Calls \ {c} : call'[d].at \notin Walking \cup Writing
  BY <1>3, <1>8 DEF Becomes
<1>10. call'[c].at \notin Walking  BY <1>3, <1>4 DEF Becomes
<1>11. call'[c].at \in Writing => writerMutex'
  <2>1. CASE AcpiUtAcquireWriteLock(c)  BY <2>1 DEF AcpiUtAcquireWriteLock
  <2>2. CASE AcpiUtReleaseWriteLock(c)
    <3>1. Becomes(c, "free", Table(c), call[c].id)
      BY <1>2, <2>2, Went DEF AcpiUtReleaseWriteLock
    <3> QED  BY <3>1 DEF Becomes, Writing
  <2> QED  BY <2>1, <2>2
<1> QED  BY <1>6, <1>7, <1>9, <1>10, <1>11 DEF Locked, At

-----------------------------------------------------------------------------
(* Who may have or change what a table has                                  *)

Holds(c, tb) == call[c].at \in Holding /\ Table(c) = tb

\* A node has its table's id.
NodeInv(tb) == tb \in DOMAIN node => node[tb] = ownerId[tb] /\ ownerId[tb] # 0

\* A load with the table's id is alone with the table, and no node is left when it
\* gives the id back.
LoadInv(c, tb) == Holds(c, tb) =>
    /\ ownerId[tb] # 0
    /\ \A d \in Calls : Holds(d, tb) => d = c
    /\ call[c].at \in Knowing => call[c].id = ownerId[tb]
    /\ At(c, "release") => tb \notin DOMAIN node

\* So is an unload that has found the table loaded, until it has given the id back; from
\* then on it is the only unload, but a load may have the table again.
UnloadInv(c, tb) == Unloads(c, tb) =>
    /\ \A d \in Calls : Unloads(d, tb) => d = c
    /\ call[c].at \in Ending => ownerId[tb] # 0 /\ \A d \in Calls : ~Holds(d, tb)
    /\ call[c].at \in {"write", "delete"} => call[c].id = ownerId[tb]
    /\ call[c].at \in {"unlock", "free"} => tb \notin DOMAIN node

Unflags(c, tb) == At(c, "unflag") /\ Table(c) = tb

\* A loaded table has an id that no load holds, unless its flag is about to go.
FlagInv(tb) == loaded[tb] /\ (\A d \in Calls : ~Unflags(d, tb)) =>
    ownerId[tb] # 0 /\ \A d \in Calls : ~Holds(d, tb)

TableInv(tb) == /\ NodeInv(tb) /\ FlagInv(tb)
                /\ \A c \in Calls : LoadInv(c, tb) /\ UnloadInv(c, tb)

\* A table that is loaded, or on its way there, has its node.
RootInv(tb) ==
    /\ loaded[tb] /\ ~Deleted(tb) => tb \in DOMAIN node
    /\ \A c \in Calls : call[c].at \in Made /\ Table(c) = tb => tb \in DOMAIN node

IdsDiffer == \A a, b \in Tables : a # b /\ ownerId[a] = ownerId[b] => ownerId[a] = 0

Roots == {tb \in Tables : Within[tb] = Nobody}

Owning == /\ IdsDiffer
          /\ \A tb \in Tables \ twice : TableInv(tb)
          /\ twice = {} => \A tb \in Roots : RootInv(tb)

\* The places that tables care about.
Busy == Holding \cup Past

LEMMA PlacesApart ==
  /\ Visiting \cap Busy = {} /\ NodeGone \cap Busy = {} /\ Holding \cap Past = {}
  /\ Ending \subseteq Past /\ Made \subseteq Holding
  /\ {"write", "delete", "unlock", "free"} \subseteq Ending
  /\ "unflag" \in Past /\ "unflag" \notin Ending
  /\ {"parse", "failed"} \subseteq Knowing /\ "created" \notin Knowing
  /\ "release" \in Holding \ (Made \cup Knowing) /\ Knowing \cap Past = {}
BY DEF Visiting, NodeGone, Busy, Holding, Knowing, Past, Unloading, Ending, Made

\* Calls other than the one that turns mean the same to a table as before.
LEMMA OthersStay ==
  ASSUME NEW c \in Calls, NEW w, NEW tb, NEW i, Turns(c, w, tb, i), NEW d \in Calls \ {c}
  PROVE  /\ call'[d].table = call[d].table /\ call'[d].id = call[d].id
         /\ \/ call'[d].at = call[d].at
            \/ call[d].at \notin Busy /\ call'[d].at \notin Busy
<1>1. /\ call'[d].table = call[d].table /\ call'[d].id = call[d].id
      /\ \/ call'[d].at = call[d].at
         \/ call[d].at \in Visiting /\ call'[d].at \in NodeGone
  BY DEF Turns
<1>2. Visiting \cap Busy = {} /\ NodeGone \cap Busy = {}  BY PlacesApart
<1> QED  BY <1>1, <1>2

\* So do all calls, to a table that the turning call is not about.
LEMMA OthersAlike ==
  ASSUME NEW c \in Calls, NEW w, NEW tb, NEW i, Turns(c, w, tb, i), NEW u,
         call[c].at \in Busy => Table(c) # u, w \in Busy => tb # u
  PROVE  \A d \in Calls :
            /\ (call'[d].at \in Busy /\ call'[d].table = u) <=> (call[d].at \in Busy /\ Table(d) = u)
            /\ call[d].at \in Busy /\ Table(d) = u => call'[d].at = call[d].at /\ call'[d].id = call[d].id
<1> SUFFICES ASSUME NEW d \in Calls
             PROVE  /\ (call'[d].at \in Busy /\ call'[d].table = u)
                           <=> (call[d].at \in Busy /\ Table(d) = u)
                    /\ call[d].at \in Busy /\ Table(d) = u
                           => call'[d].at = call[d].at /\ call'[d].id = call[d].id
  OBVIOUS
<1>1. CASE d = c
  <2>1. call'[c].at = w /\ call'[c].table = tb  BY DEF Turns
  <2> QED  BY <1>1, <2>1
<1>2. CASE d # c  BY <1>2, OthersStay DEF Table
<1> QED  BY <1>1, <1>2

\* A table that a step is not about keeps what is said of it; it may lose its node.
LEMMA OtherTable ==
  ASSUME NEW c \in Calls, NEW w, NEW tb, NEW i, Turns(c, w, tb, i), NEW u, TableInv(u),
         call[c].at \in Busy => Table(c) # u, w \in Busy => tb # u,
         loaded'[u] => loaded[u], ownerId'[u] = ownerId[u],
         u \in DOMAIN node' => u \in DOMAIN node /\ node'[u] = node[u]
  PROVE  TableInv(u)'
<1>1. \A d \in Calls :
          /\ (call'[d].at \in Busy /\ call'[d].table = u) <=> (call[d].at \in Busy /\ Table(d) = u)
          /\ call[d].at \in Busy /\ Table(d) = u
                 => call'[d].at = call[d].at /\ call'[d].id = call[d].id
  BY OthersAlike
<1>2. \A d \in Calls : /\ Holds(d, u)' <=> Holds(d, u)
                       /\ Unloads(d, u)' <=> Unloads(d, u)
                       /\ Unflags(d, u)' <=> Unflags(d, u)
                       /\ Holds(d, u) \/ Unloads(d, u)
                              => call'[d].at = call[d].at /\ call'[d].id = call[d].id
  BY <1>1, PlacesApart DEF Holds, Unloads, Unflags, Busy, Past, At, Table
<1>3. NodeInv(u)'  BY DEF TableInv, NodeInv
<1>4. FlagInv(u)'  BY <1>2 DEF TableInv, FlagInv
<1>5. ASSUME NEW d \in Calls PROVE LoadInv(d, u)'
  BY <1>2 DEF TableInv, LoadInv, At
<1>6. ASSUME NEW d \in Calls PROVE UnloadInv(d, u)'
  BY <1>2 DEF TableInv, UnloadInv
<1> QED  BY <1>3, <1>4, <1>5, <1>6 DEF TableInv

\* A table whose node stays keeps it as it must, unless the step gives it the flag or
\* takes away what excused it.
LEMMA RootKept ==
  ASSUME NEW c \in Calls, NEW w, NEW tb, NEW i, Turns(c, w, tb, i), NEW u, RootInv(u),
         loaded'[u] => loaded[u], u \in DOMAIN node => u \in DOMAIN node',
         w \in Made /\ tb = u => call[c].at \in Made /\ Table(c) = u,
         call[c].at \in {"unlock", "free", "unflag"} /\ Table(c) = u
             => w \in {"unlock", "free", "unflag"} /\ tb = u
  PROVE  RootInv(u)'
<1>1. call'[c].at = w /\ call'[c].table = tb  BY DEF Turns
<1>2. \A d \in Calls \ {c} :
          /\ call'[d].table = call[d].table
          /\ \/ call'[d].at = call[d].at
             \/ call[d].at \notin Busy /\ call'[d].at \notin Busy
  BY OthersStay
<1>3. Deleted(u) => Deleted(u)'
  <2> SUFFICES ASSUME NEW d \in Calls, Table(d) = u, call[d].at \in {"unlock", "free", "unflag"}
               PROVE  call'[d].table = u /\ call'[d].at \in {"unlock", "free", "unflag"}
    BY DEF Deleted, Table
  <2> QED  BY <1>1, <1>2, PlacesApart DEF Table, Busy
<1>4. \A d \in Calls : call'[d].at \in Made /\ call'[d].table = u
                           => call[d].at \in Made /\ Table(d) = u
  BY <1>1, <1>2, PlacesApart DEF Table, Busy
<1> QED  BY <1>3, <1>4 DEF RootInv, Table

\* What is to be shown of a step that is about the table T.
LEMMA OwningBy ==
  ASSUME Typing, Owning, NEW c \in Calls, NEW w, NEW tb, NEW i, Turns(c, w, tb, i),
         NEW T, call[c].at \in Busy => Table(c) = T, w \in Busy => tb = T,
         twice \subseteq twice',
         \A u \in Tables \ {T} : /\ loaded'[u] = loaded[u] /\ ownerId'[u] = ownerId[u]
                                 /\ u \in DOMAIN node' => u \in DOMAIN node /\ node'[u] = node[u],
         IdsDiffer',
         T \in Tables \ twice' => TableInv(T)',
         twice' = {} => \A u \in Roots : RootInv(u)'
  PROVE  Owning'
<1>1. ASSUME NEW u \in Tables \ twice' PROVE TableInv(u)'
  <2>1. CASE u = T  BY <2>1
  <2>2. CASE u # T
    <3>1. TableInv(u)  BY DEF Owning
    <3>2. (loaded'[u] => loaded[u]) /\ ownerId'[u] = ownerId[u]
      BY <2>2
    <3> QED  BY <2>2, <3>1, <3>2, OtherTable
  <2> QED  BY <2>1, <2>2
<1>2. Roots' = Roots  BY DEF Roots
<1> QED  BY <1>1, <1>2 DEF Owning

\* What the other calls mean to the table that a step is about.
LEMMA OthersMean ==
  ASSUME NEW c \in Calls, NEW w, NEW tb, NEW i, Turns(c, w, tb, i), NEW u, NEW d \in Calls \ {c}
  PROVE  /\ Holds(d, u)' <=> Holds(d, u)
         /\ Unloads(d, u)' <=> Unloads(d, u)
         /\ Unflags(d, u)' <=> Unflags(d, u)
         /\ Holds(d, u) \/ Unloads(d, u) => call'[d].at = call[d].at /\ call'[d].id = call[d].id
<1>1. /\ call'[d].table = call[d].table /\ call'[d].id = call[d].id
      /\ \/ call'[d].at = call[d].at
         \/ call[d].at \notin Busy /\ call'[d].at \notin Busy
  BY OthersStay
<1> QED  BY <1>1, PlacesApart DEF Holds, Unloads, Unflags, Busy, Past, At, Table

\* What the turning call means to it.
LEMMA TurnMeans ==
  ASSUME NEW c \in Calls, NEW w, NEW tb, NEW i, Turns(c, w, tb, i), NEW u
  PROVE  /\ call'[c].at = w /\ call'[c].table = tb /\ call'[c].id = i
         /\ Holds(c, u)' <=> w \in Holding /\ tb = u
         /\ Unloads(c, u)' <=> w \in Past /\ tb = u
         /\ Unflags(c, u)' <=> w = "unflag" /\ tb = u
<1>1. call'[c].at = w /\ call'[c].table = tb /\ call'[c].id = i  BY DEF Turns
<1> QED  BY <1>1 DEF Holds, Unloads, Unflags, Past, At, Table

\* A load or an unload goes on with its table.
OwnMove(c, w, i) ==
    \/ HoldMove(c, w, i)
    \/ /\ call[c].at \in Ending /\ w \in Ending
       /\ w \in {"write", "delete"} =>
              i = ownerId[Table(c)] \/ (call[c].at = "write" /\ i = call[c].id)
       /\ w \in {"unlock", "free"} <=> call[c].at \in {"unlock", "free"}

LEMMA OwnQuiet ==
  ASSUME NEW c \in Calls, NEW T, T = Table(c), NEW w, NEW i, Turns(c, w, T, i), OwnMove(c, w, i),
         TableInv(T), loaded' = loaded, ownerId' = ownerId, node' = node
  PROVE  TableInv(T)'
<1>1. \A d \in Calls \ {c} :
          /\ Holds(d, T)' <=> Holds(d, T)
          /\ Unloads(d, T)' <=> Unloads(d, T)
          /\ Unflags(d, T)' <=> Unflags(d, T)
          /\ Holds(d, T) \/ Unloads(d, T) => call'[d].at = call[d].at /\ call'[d].id = call[d].id
  BY OthersMean
<1>2. /\ call'[c].at = w /\ call'[c].id = i
      /\ Holds(c, T)' <=> w \in Holding
      /\ Unloads(c, T)' <=> w \in Past
      /\ Unflags(c, T)' <=> w = "unflag"
  BY TurnMeans
<1>3. NodeInv(T)'  BY DEF TableInv, NodeInv
<1>4. LoadInv(c, T) /\ UnloadInv(c, T)  BY DEF TableInv
<1>5. CASE HoldMove(c, w, i)
  <2>1. call[c].at \in Holding \ {"release"} /\ w \in Holding \ {"release"} /\ w \notin Past
    BY <1>5, PlacesApart DEF HoldMove
  <2>2. Holds(c, T) /\ Holds(c, T)' /\ ~Unloads(c, T)' /\ ~Unflags(c, T)' /\ ~Unflags(c, T)
    BY <1>2, <2>1, PlacesApart DEF Holds, Unflags, At
  <2>3. FlagInv(T)'  BY <1>1, <2>2 DEF TableInv, FlagInv
  <2>4. LoadInv(c, T)'  BY <1>1, <1>2, <1>4, <1>5, <2>1, <2>2 DEF LoadInv, HoldMove, At
  <2>5. ASSUME NEW d \in Calls \ {c} PROVE LoadInv(d, T)'
    BY <1>1, <1>4, <2>2 DEF LoadInv
  <2>6. ASSUME NEW d \in Calls PROVE UnloadInv(d, T)'
    <3>1. CASE d = c  BY <2>2, <3>1 DEF UnloadInv
    <3>2. CASE d # c  BY <1>1, <2>2, <3>2 DEF TableInv, UnloadInv
    <3> QED  BY <3>1, <3>2
  <2> QED  BY <1>3, <2>3, <2>4, <2>5, <2>6 DEF TableInv
<1>6. CASE ~HoldMove(c, w, i)
  <2>1. /\ call[c].at \in Ending /\ w \in Ending
        /\ w \in {"write", "delete"} =>
               i = ownerId[T] \/ (call[c].at = "write" /\ i = call[c].id)
        /\ w \in {"unlock", "free"} <=> call[c].at \in {"unlock", "free"}
    BY <1>6 DEF OwnMove
  <2>2. Unloads(c, T) /\ Unloads(c, T)' /\ ~Holds(c, T)' /\ ~Unflags(c, T)' /\ ~Unflags(c, T)
    BY <1>2, <2>1, PlacesApart DEF Unloads, Unflags, At, Past
  <2>3. \A d \in Calls : ~Holds(d, T)  BY <1>4, <2>1, <2>2 DEF UnloadInv
  <2>4. \A d \in Calls : ~Holds(d, T)'  BY <1>1, <2>2, <2>3
  <2>5. ownerId[T] # 0  BY <1>4, <2>1, <2>2 DEF UnloadInv
  <2>6. FlagInv(T)'  BY <2>4, <2>5 DEF FlagInv
  <2>7. \A d \in Calls : LoadInv(d, T)'  BY <2>4 DEF LoadInv
  <2>8. \A d \in Calls : Unloads(d, T)' => d = c  BY <1>1, <1>4, <2>2 DEF UnloadInv
  <2>9. UnloadInv(c, T)'
    BY <1>2, <1>4, <2>1, <2>2, <2>4, <2>5, <2>8 DEF UnloadInv
  <2>10. \A d \in Calls : UnloadInv(d, T)'  BY <2>8, <2>9 DEF UnloadInv
  <2> QED  BY <1>3, <2>6, <2>7, <2>10 DEF TableInv
<1> QED  BY <1>5, <1>6

\* The steps that leave the tables alone, also those that no table cares about.
LEMMA OwningKept ==
  ASSUME Typing, Owning, NEW c \in Calls, NEW w, NEW tb, NEW i, Turns(c, w, tb, i),
         \/ call[c].at \notin Busy /\ w \notin Busy
         \/ Table(c) = tb /\ OwnMove(c, w, i),
         UNCHANGED <<tableVars, twice>>
  PROVE  Owning'
<1>1. loaded' = loaded /\ ownerId' = ownerId /\ node' = node  BY DEF tableVars, nodeVars
<1>2. IdsDiffer'  BY <1>1 DEF Owning, IdsDiffer
<1>3. call[c].at \in Busy => Table(c) = tb  OBVIOUS
<1>4. OwnMove(c, w, i) => (w \in Made => call[c].at \in Made)
  <2>1. Ending \cap Made = {}  BY DEF Ending, Made
  <2> QED  BY <2>1 DEF OwnMove, HoldMove
<1>5. ASSUME OwnMove(c, w, i), call[c].at \in {"unlock", "free", "unflag"}
      PROVE  w \in {"unlock", "free", "unflag"}
  <2>1. call[c].at \notin Holding  BY <1>5 DEF Holding
  <2>2. /\ call[c].at \in Ending
        /\ w \in {"unlock", "free"} <=> call[c].at \in {"unlock", "free"}
    BY <1>5, <2>1 DEF OwnMove, HoldMove
  <2> QED  BY <1>5, <2>2 DEF Ending
<1>6. ASSUME NEW u, RootInv(u) PROVE RootInv(u)'
  <2>1. w \in Made /\ tb = u => call[c].at \in Made /\ Table(c) = u
    BY <1>4, PlacesApart DEF Busy
  <2>2. call[c].at \in {"unlock", "free", "unflag"} /\ Table(c) = u
            => w \in {"unlock", "free", "unflag"} /\ tb = u
    BY <1>5, PlacesApart DEF Busy
  <2> QED  BY <1>1, <1>6, <2>1, <2>2, RootKept
<1>7. ASSUME tb \in Tables \ twice' PROVE TableInv(tb)'
  <2>1. TableInv(tb)  BY <1>7 DEF Owning
  <2>2. CASE call[c].at \notin Busy /\ w \notin Busy
    BY <1>1, <2>1, <2>2, OtherTable
  <2>3. CASE Table(c) = tb /\ OwnMove(c, w, i)
    BY <1>1, <2>1, <2>3, OwnQuiet
  <2> QED  BY <2>2, <2>3
<1>8. twice' = {} => \A u \in Roots : RootInv(u)'  BY <1>6 DEF Owning
<1> QED  BY <1>1, <1>2, <1>3, <1>7, <1>8, OwningBy

LEMMA HoldIsOwn ==
  ASSUME NEW c \in Calls, NEW w, NEW i, HoldMove(c, w, i)
  PROVE  OwnMove(c, w, i) /\ LocksAlike(c, w)
<1>1. w \in Holding /\ call[c].at \in Holding  BY DEF HoldMove
<1>2. Holding \cap (Walking \cup Writing \cup {"first"}) = {}
  BY DEF Holding, Walking, Visiting, NodeGone, Writing
<1> QED  BY <1>1, <1>2 DEF OwnMove, LocksAlike

LEMMA FreeIsNotBusy == Free \cap Busy = {}
BY DEF Free, Busy, Past

\* The moves of the reader/writer lock.
LEMMA OwningLock ==
  ASSUME Typing, Owning, NEW c \in Calls, UNCHANGED twice,
         AcpiUtAcquireReadLock(c) \/ FirstReader(c) \/ AcpiUtReleaseReadLock(c)
  PROVE  Owning'
<1>1. UNCHANGED <<tableVars, twice>>
  BY DEF AcpiUtAcquireReadLock, FirstReader, AcpiUtReleaseReadLock
<1>2. call[c].at \in {"read", "first", "unread"}
  BY DEF AcpiUtAcquireReadLock, FirstReader, AcpiUtReleaseReadLock, At
<1>3. {"first", "next", "idle"} \subseteq Place  BY DEF Place, Walking
<1>4. PICK w \in {"first", "next", "idle"} : \E tb, i : Becomes(c, w, tb, i)
  <2>1. CASE AcpiUtAcquireReadLock(c)
    <3>1. CASE numReaders = 0
      <4>1. Goto(c, "first")  BY <2>1, <3>1 DEF AcpiUtAcquireReadLock
      <4> QED  BY <1>3, <4>1, Went
    <3>2. CASE numReaders # 0
      <4>1. Goto(c, "next")  BY <2>1, <3>2 DEF AcpiUtAcquireReadLock
      <4> QED  BY <1>3, <4>1, Went
    <3> QED  BY <3>1, <3>2
  <2>2. CASE FirstReader(c)  BY <1>3, <2>2, Went DEF FirstReader
  <2>3. CASE AcpiUtReleaseReadLock(c)  BY <2>3, Returned DEF AcpiUtReleaseReadLock
  <2> QED  BY <2>1, <2>2, <2>3
<1>5. PICK tb, i : Becomes(c, w, tb, i)  BY <1>4
<1>6. call[c].at \notin Busy /\ w \notin Busy
  BY <1>2 DEF Busy, Holding, Past, Unloading
<1> QED  BY <1>1, <1>5, <1>6, BecomesTurns, OwningKept

LEMMA OwningTest ==
  ASSUME Typing, Owning, NEW c \in Calls, NEW tb \in Tables, UNCHANGED twice,
         AcpiUnloadTable(c, tb) \/ AcpiExUnloadTable(c, tb)
  PROVE  Owning'
<1>1. /\ UNCHANGED <<tableVars, twice>> /\ call[c].at \in {"idle", "method"}
      /\ Becomes(c, "test", tb, 0)
  BY TestSteps
<1>2. call[c].at \notin Busy /\ "test" \notin Busy
  BY <1>1 DEF Busy, Holding, Past, Unloading
<1> QED  BY <1>1, <1>2, BecomesTurns, OwningKept

\* An unload that finds its table loaded is alone with it, or the table is unloaded twice.
LEMMA OwningCheck ==
  ASSUME Typing, Owning, NEW c \in Calls, CheckLoaded(c)
  PROVE  Owning'
<1>0. PICK T \in Tables : T = Table(c)  BY DEF CheckLoaded, At, Typing, Unloading
<1>1. /\ call[c].at = "test" /\ loaded' = loaded /\ ownerId' = ownerId /\ node' = node
      /\ twice' = twice \cup {tb \in {T} : loaded[tb] /\ \E d \in Calls : Unloads(d, tb)}
      /\ IF loaded[T] THEN Goto(c, "owner") ELSE Return(c)
  BY <1>0 DEF CheckLoaded, At, tableVars, nodeVars
<1>2. twice \subseteq twice'  BY <1>1
<1>3. call[c].at \notin Busy /\ "owner" \in Place /\ "owner" \notin Made
      /\ "idle" \notin Busy
  BY <1>1 DEF Busy, Holding, Past, Unloading, Place, Made
<1>4. PICK w \in {"owner", "idle"} : \E tb, i : Turns(c, w, tb, i) /\ (w = "owner" => tb = T)
  <2>1. CASE loaded[T]
    <3>1. Turns(c, "owner", T, call[c].id)
      BY <1>0, <1>1, <1>3, <2>1, Went, BecomesTurns
    <3> QED  BY <3>1
  <2>2. CASE ~loaded[T]
    <3>1. Turns(c, "idle", Nobody, 0)  BY <1>1, <2>2, Returned, BecomesTurns
    <3> QED  BY <3>1
  <2> QED  BY <2>1, <2>2
<1>5. PICK tb, i : Turns(c, w, tb, i) /\ (w = "owner" => tb = T)  BY <1>4
<1>11. w = "owner" => loaded[T]
  <2>1. ~loaded[T] => call'[c].at = "idle"  BY <1>1, Returned DEF Becomes
  <2>2. call'[c].at = w  BY <1>5 DEF Turns
  <2> QED  BY <2>1, <2>2
<1>6. IdsDiffer'  BY <1>1 DEF Owning, IdsDiffer
<1>7. ASSUME NEW u, RootInv(u) PROVE RootInv(u)'
  <2>1. w \notin Made  BY <1>3, PlacesApart DEF Busy
  <2>2. call[c].at \notin {"unlock", "free", "unflag"}  BY <1>1
  <2> QED  BY <1>1, <1>5, <1>7, <2>1, <2>2, RootKept
<1>8. ASSUME T \in Tables \ twice' PROVE TableInv(T)'
  <2>1. TableInv(T)  BY <1>2, <1>8 DEF Owning
  <2>2. CASE w = "idle"  BY <1>1, <1>3, <1>5, <2>1, <2>2, OtherTable
  <2>3. CASE w = "owner"
    <3>1. loaded[T] /\ tb = T  BY <1>5, <1>11, <2>3
    <3>2. \A d \in Calls : ~Unloads(d, T)  BY <1>1, <1>8, <3>1
    <3>3. \A d \in Calls : ~Unflags(d, T)
      BY <3>2, PlacesApart DEF Unloads, Unflags, At, Past
    <3>4. ownerId[T] # 0 /\ \A d \in Calls : ~Holds(d, T)
      BY <2>1, <3>1, <3>3 DEF TableInv, FlagInv
    <3>5. ~Holds(c, T)' /\ call'[c].at = "owner"
      BY <1>5, <2>3, TurnMeans DEF Holding
    <3>6. \A d \in Calls \ {c} : ~Holds(d, T)' /\ ~Unloads(d, T)'
      BY <1>5, <3>2, <3>4, OthersMean
    <3>7. \A d \in Calls : ~Holds(d, T)'  BY <3>5, <3>6
    <3>8. NodeInv(T)' /\ FlagInv(T)'
      BY <1>1, <2>1, <3>4, <3>7 DEF TableInv, NodeInv, FlagInv
    <3>9. \A d \in Calls : LoadInv(d, T)'  BY <3>7 DEF LoadInv
    <3>10. \A d \in Calls : UnloadInv(d, T)'
      BY <1>1, <3>4, <3>5, <3>6, <3>7 DEF UnloadInv
    <3> QED  BY <3>8, <3>9, <3>10 DEF TableInv
  <2> QED  BY <2>2, <2>3
<1>9. twice' = {} => \A u \in Roots : RootInv(u)'
  BY <1>2, <1>7 DEF Owning
<1>10. w \in Busy => tb = T  BY <1>3, <1>5
<1> QED  BY <1>1, <1>2, <1>3, <1>5, <1>6, <1>8, <1>9, <1>10, OwningBy

\* The moves of an unload that leave the tables alone.
LEMMA OwningUnload ==
  ASSUME Typing, Owning, NEW c \in Calls, UNCHANGED twice,
         ReadOwnerId(c) \/ AcpiUtAcquireWriteLock(c) \/ AcpiUtReleaseWriteLock(c)
  PROVE  Owning'
<1>1. UNCHANGED <<tableVars, twice>>
  BY DEF ReadOwnerId, AcpiUtAcquireWriteLock, AcpiUtReleaseWriteLock
<1>2. Table(c) \in Tables
  BY DEF ReadOwnerId, AcpiUtAcquireWriteLock, AcpiUtReleaseWriteLock, At, Unloading, Typing
<1>3. Unloading \subseteq Place  BY DEF Place
<1>4. CASE ReadOwnerId(c)
  <2> DEFINE r == [call[c] EXCEPT !.at = "write", !.id = ownerId[Table(c)]]
  <2>1. call[c] \in Call /\ ownerId[Table(c)] \in Ids  BY <1>2 DEF Typing
  <2>2. r \in Call /\ r.at = "write" /\ r.table = Table(c) /\ r.id = ownerId[Table(c)]
    BY <1>3, <2>1 DEF Call, Table, Unloading
  <2>3. call' = [call EXCEPT ![c] = r]  BY <1>4 DEF ReadOwnerId
  <2> HIDE DEF r
  <2>4. Becomes(c, "write", Table(c), ownerId[Table(c)])  BY <2>2, <2>3, Moved
  <2>5. OwnMove(c, "write", ownerId[Table(c)])
    BY <1>4 DEF OwnMove, ReadOwnerId, At, Ending
  <2> QED  BY <1>1, <2>4, <2>5, BecomesTurns, OwningKept
<1>5. CASE AcpiUtAcquireWriteLock(c)
  <2>1. Becomes(c, "delete", Table(c), call[c].id)
    BY <1>3, <1>5, Went DEF AcpiUtAcquireWriteLock, Unloading
  <2>2. OwnMove(c, "delete", call[c].id)
    BY <1>5 DEF OwnMove, AcpiUtAcquireWriteLock, At, Ending
  <2> QED  BY <1>1, <2>1, <2>2, BecomesTurns, OwningKept
<1>6. CASE AcpiUtReleaseWriteLock(c)
  <2>1. Becomes(c, "free", Table(c), call[c].id)
    BY <1>3, <1>6, Went DEF AcpiUtReleaseWriteLock, Unloading
  <2>2. OwnMove(c, "free", call[c].id)
    BY <1>6 DEF OwnMove, AcpiUtReleaseWriteLock, At, Ending
  <2> QED  BY <1>1, <2>1, <2>2, BecomesTurns, OwningKept
<1> QED  BY <1>4, <1>5, <1>6

\* An id is given to a table without one, which has no node then.
LEMMA OwningAllocate ==
  ASSUME Typing, Owning, NEW c \in Calls, UNCHANGED twice, AllocateOwnerId(c)
  PROVE  Owning'
<1>0. PICK T \in Tables : T = Table(c)  BY LoadSteps
<1>1. Turns(c, "allocated", T, call[c].id)  BY <1>0, LoadSteps, BecomesTurns
<1>2. PICK i \in FreeIds(T) : ownerId' = [ownerId EXCEPT ![T] = i]
  BY <1>0 DEF AllocateOwnerId
<1>3. call[c].at = "allocate" /\ loaded' = loaded /\ node' = node
  BY DEF AllocateOwnerId, At, nodeVars
<1>4. ownerId[T] = 0 /\ i \in OwnerIds /\ \A u \in Tables : ownerId[u] # i
  BY <1>2 DEF FreeIds
<1>5. i # 0  BY <1>4, TablesAssumption
<1>6. ownerId'[T] = i /\ \A u \in Tables \ {T} : ownerId'[u] = ownerId[u]
  BY <1>2 DEF Typing
<1>7. IdsDiffer'  BY <1>4, <1>6 DEF Owning, IdsDiffer
<1>8. call[c].at \notin Busy /\ "allocated" \notin Made
      /\ "allocated" \in Holding /\ "allocated" \notin Past \cup Knowing
      /\ "allocated" \notin {"release", "unflag"}
  BY <1>3 DEF Busy, Holding, Knowing, Past, Unloading, Made
<1>9. ASSUME T \in Tables \ twice PROVE TableInv(T)'
  <2>1. TableInv(T)  BY <1>9 DEF Owning
  <2>2. T \notin DOMAIN node  BY <1>4, <2>1 DEF TableInv, NodeInv
  <2>3. \A d \in Calls : ~Holds(d, T)  BY <1>4, <2>1 DEF TableInv, LoadInv
  <2>4. \A d \in Calls : Unloads(d, T) => call[d].at \notin Ending
    BY <1>4, <2>1 DEF TableInv, UnloadInv
  <2>5. \A d \in Calls \ {c} :
            /\ ~Holds(d, T)' /\ (Unloads(d, T)' <=> Unloads(d, T))
            /\ (Unflags(d, T)' <=> Unflags(d, T))
            /\ Unloads(d, T) => call'[d].at = call[d].at
    BY <1>1, <2>3, OthersMean
  <2>6. ~Unloads(c, T)' /\ ~Unflags(c, T)' /\ call'[c].at = "allocated" /\ ~Unflags(c, T)
    BY <1>1, <1>3, <1>8, TurnMeans DEF Unflags, At
  <2>7. NodeInv(T)'  BY <1>3, <2>2 DEF NodeInv
  <2>8. FlagInv(T)'  BY <1>3, <1>4, <2>1, <2>5, <2>6 DEF TableInv, FlagInv
  <2>9. \A d \in Calls : LoadInv(d, T)'
    BY <1>5, <1>6, <1>8, <2>5, <2>6 DEF LoadInv, At
  <2>10. \A d \in Calls : UnloadInv(d, T)'
    <3> SUFFICES ASSUME NEW d \in Calls, Unloads(d, T)' PROVE UnloadInv(d, T)'
      BY DEF UnloadInv
    <3>1. d # c /\ Unloads(d, T) /\ call'[d].at = call[d].at  BY <2>5, <2>6
    <3>2. call'[d].at \notin Ending  BY <2>4, <3>1
    <3>3. \A e \in Calls : Unloads(e, T)' => e = d
      BY <2>1, <2>5, <2>6, <3>1 DEF TableInv, UnloadInv
    <3> QED  BY <3>2, <3>3, PlacesApart DEF UnloadInv
  <2> QED  BY <2>7, <2>8, <2>9, <2>10 DEF TableInv
<1>10. ASSUME NEW u, RootInv(u) PROVE RootInv(u)'
  BY <1>1, <1>3, <1>8, <1>10, RootKept
<1>11. twice' = {} => \A u \in Roots : RootInv(u)'  BY <1>10 DEF Owning
<1> QED  BY <1>1, <1>3, <1>6, <1>7, <1>8, <1>9, <1>11, OwningBy

\* A load that is alone with its table makes the node with the table's id.
LEMMA OwningCreate ==
  ASSUME Typing, Owning, NEW c \in Calls, UNCHANGED twice, CreateNode(c)
  PROVE  Owning'
<1>0. PICK T \in Tables : T = Table(c)  BY LoadSteps
<1>1. Turns(c, "created", T, 0)  BY <1>0, LoadSteps, BecomesTurns
<1>2. call[c].at = "parse" /\ loaded' = loaded /\ ownerId' = ownerId
  BY DEF CreateNode, At
<1>3. /\ DOMAIN node' = DOMAIN node \cup {T} /\ T \notin DOMAIN node
      /\ node'[T] = call[c].id /\ \A u \in DOMAIN node : node'[u] = node[u]
  BY <1>0, NodesTypedMore
<1>4. IdsDiffer'  BY <1>2 DEF Owning, IdsDiffer
<1>5. Holds(c, T) /\ ~Unloads(c, T) /\ ~Unflags(c, T)
  BY <1>0, <1>2 DEF Holds, Holding, Unloads, Unloading, Unflags, At
<1>6. Holds(c, T)' /\ ~Unloads(c, T)' /\ ~Unflags(c, T)' /\ call'[c].at = "created"
  BY <1>1, TurnMeans DEF Holding, Past, Unloading
<1>7. ASSUME T \in Tables \ twice PROVE TableInv(T)'
  <2>1. TableInv(T)  BY <1>7 DEF Owning
  <2>2. ownerId[T] # 0 /\ call[c].id = ownerId[T] /\ \A d \in Calls : Holds(d, T) => d = c
    BY <1>2, <1>5, <2>1, PlacesApart DEF TableInv, LoadInv
  <2>3. \A d \in Calls \ {c} :
            /\ ~Holds(d, T)' /\ (Unloads(d, T)' <=> Unloads(d, T))
            /\ (Unflags(d, T)' <=> Unflags(d, T))
            /\ Unloads(d, T) => call'[d].at = call[d].at
    BY <1>1, <2>2, OthersMean
  <2>4. \A d \in Calls : Unloads(d, T) => call[d].at \notin Ending
    BY <1>5, <2>1 DEF TableInv, UnloadInv
  <2>5. NodeInv(T)'  BY <1>2, <1>3, <2>2 DEF NodeInv
  <2>6. FlagInv(T)'  BY <1>2, <1>5, <1>6, <2>1, <2>3 DEF TableInv, FlagInv
  <2>7. \A d \in Calls : LoadInv(d, T)'
    BY <1>2, <1>6, <2>2, <2>3, PlacesApart DEF LoadInv, At
  <2>8. \A d \in Calls : UnloadInv(d, T)'
    <3> SUFFICES ASSUME NEW d \in Calls, Unloads(d, T)' PROVE UnloadInv(d, T)'
      BY DEF UnloadInv
    <3>1. d # c /\ Unloads(d, T) /\ call'[d].at = call[d].at  BY <1>6, <2>3
    <3>2. call'[d].at \notin Ending  BY <2>4, <3>1
    <3>3. \A e \in Calls : Unloads(e, T)' => e = d
      BY <1>6, <2>1, <2>3, <3>1 DEF TableInv, UnloadInv
    <3> QED  BY <3>2, <3>3, PlacesApart DEF UnloadInv
  <2> QED  BY <2>5, <2>6, <2>7, <2>8 DEF TableInv
<1>8. ASSUME NEW u, RootInv(u) PROVE RootInv(u)'
  <2>1. CASE u = T  BY <1>3, <2>1 DEF RootInv
  <2>2. CASE u # T  BY <1>1, <1>2, <1>3, <1>8, <2>2, RootKept
  <2> QED  BY <2>1, <2>2
<1>9. twice' = {} => \A u \in Roots : RootInv(u)'  BY <1>8 DEF Owning
<1>10. call[c].at \in Busy => Table(c) = T  BY <1>0
<1> QED  BY <1>1, <1>2, <1>3, <1>4, <1>7, <1>9, <1>10, OwningBy

\* The flag is set by the load that is alone with the table.
LEMMA OwningFlag ==
  ASSUME Typing, Owning, NEW c \in Calls, UNCHANGED twice, SetTableLoaded(c)
  PROVE  Owning'
<1>0. PICK T \in Tables : T = Table(c)  BY LoadSteps
<1>1. Turns(c, "initialize", T, call[c].id)  BY <1>0, LoadSteps, BecomesTurns
<1>2. /\ call[c].at = "flag" /\ ownerId' = ownerId /\ node' = node
      /\ loaded' = [loaded EXCEPT ![T] = TRUE]
  BY <1>0 DEF SetTableLoaded, At, nodeVars
<1>3. \A u \in Tables \ {T} : loaded'[u] = loaded[u]  BY <1>2 DEF Typing
<1>4. IdsDiffer'  BY <1>2 DEF Owning, IdsDiffer
<1>5. Holds(c, T) /\ call[c].at \in Made  BY <1>0, <1>2 DEF Holds, Holding, Made
<1>6. ~Holds(c, T)' /\ ~Unloads(c, T)' /\ ~Unflags(c, T)'
  BY <1>1, TurnMeans DEF Holding, Past, Unloading
<1>7. ASSUME T \in Tables \ twice PROVE TableInv(T)'
  <2>1. TableInv(T)  BY <1>7 DEF Owning
  <2>2. ownerId[T] # 0 /\ \A d \in Calls : Holds(d, T) => d = c
    BY <1>5, <2>1 DEF TableInv, LoadInv
  <2>3. \A d \in Calls \ {c} :
            /\ ~Holds(d, T)' /\ (Unloads(d, T)' <=> Unloads(d, T))
            /\ Unloads(d, T) => call'[d].at = call[d].at /\ call'[d].id = call[d].id
    BY <1>1, <2>2, OthersMean
  <2>4. \A d \in Calls : ~Holds(d, T)'  BY <1>6, <2>3
  <2>5. NodeInv(T)' /\ FlagInv(T)'
    BY <1>2, <2>1, <2>2, <2>4 DEF TableInv, NodeInv, FlagInv
  <2>6. \A d \in Calls : LoadInv(d, T)'  BY <2>4 DEF LoadInv
  <2>7. \A d \in Calls : UnloadInv(d, T)'
    BY <1>2, <1>6, <2>1, <2>3, <2>4 DEF TableInv, UnloadInv
  <2> QED  BY <2>5, <2>6, <2>7 DEF TableInv
<1>8. ASSUME NEW u \in Tables, RootInv(u) PROVE RootInv(u)'
  <2>1. CASE u = T
    <3>1. T \in DOMAIN node'  BY <1>0, <1>2, <1>5, <1>8, <2>1 DEF RootInv
    <3> QED  BY <2>1, <3>1 DEF RootInv
  <2>2. CASE u # T
    <3>1. loaded'[u] = loaded[u]  BY <1>3, <2>2
    <3>2. "initialize" \notin Made  BY DEF Made
    <3> QED  BY <1>1, <1>2, <1>8, <3>1, <3>2, RootKept
  <2> QED  BY <2>1, <2>2
<1>9. twice' = {} => \A u \in Roots : RootInv(u)'  BY <1>8 DEF Owning, Roots
<1>10. call[c].at \in Busy => Table(c) = T  BY <1>0
<1>11. \A u \in Tables \ {T} : /\ loaded'[u] = loaded[u] /\ ownerId'[u] = ownerId[u]
                               /\ u \in DOMAIN node' => u \in DOMAIN node /\ node'[u] = node[u]
  BY <1>2, <1>3
<1>12. twice \subseteq twice' /\ (T \in Tables \ twice' => TableInv(T)')  BY <1>7
<1> QED  BY <1>1, <1>4, <1>9, <1>10, <1>11, <1>12, OwningBy

\* An id is given back when the node is gone, by a load or an unload that is alone
\* with the table.
LEMMA OwningIdGone ==
  ASSUME Typing, Owning, NEW c \in Calls, UNCHANGED twice,
         ReleaseFailed(c) \/ ReleaseOwnerId(c)
  PROVE  Owning'
<1>0. PICK T \in Tables : T = Table(c)
  BY DEF ReleaseFailed, ReleaseOwnerId, At, Typing, Loading, Unloading
<1>1. PICK w \in {"idle", "unflag"} :
          \E tb, i : /\ Turns(c, w, tb, i)
                     /\ \/ call[c].at = "release" /\ w = "idle"
                        \/ call[c].at = "free" /\ w = "unflag" /\ tb = T
  <2>1. ReleaseFailed(c) => call[c].at = "release" /\ Turns(c, "idle", Nobody, 0)
    BY LoadSteps, BecomesTurns DEF ReleaseFailed, At
  <2>2. "unflag" \in Place  BY DEF Place, Unloading
  <2>3. ReleaseOwnerId(c) => call[c].at = "free" /\ Turns(c, "unflag", T, call[c].id)
    BY <1>0, <2>2, Went, BecomesTurns DEF ReleaseOwnerId, At
  <2> QED  BY <2>1, <2>3
<1>2. PICK tb, i : /\ Turns(c, w, tb, i)
                   /\ \/ call[c].at = "release" /\ w = "idle"
                      \/ call[c].at = "free" /\ w = "unflag" /\ tb = T
  BY <1>1
<1>3. /\ loaded' = loaded /\ node' = node /\ ownerId' = [ownerId EXCEPT ![T] = 0]
  BY <1>0 DEF ReleaseFailed, ReleaseOwnerId, nodeVars
<1>4. ownerId'[T] = 0 /\ \A u \in Tables \ {T} : ownerId'[u] = ownerId[u]
  BY <1>3 DEF Typing
<1>5. IdsDiffer'  BY <1>4 DEF Owning, IdsDiffer
<1>6. ASSUME T \in Tables \ twice PROVE TableInv(T)'
  <2>1. TableInv(T)  BY <1>6 DEF Owning
  <2>2. /\ \A d \in Calls \ {c} : ~Holds(d, T)
        /\ \A d \in Calls \ {c} : Unloads(d, T) => call[d].at \notin Ending
        /\ T \notin DOMAIN node
    <3>1. CASE call[c].at = "release"
      <4>1. Holds(c, T)  BY <1>0, <3>1 DEF Holds, Holding
      <4> QED  BY <2>1, <3>1, <4>1 DEF TableInv, LoadInv, UnloadInv, At
    <3>2. CASE call[c].at = "free"
      <4>1. Unloads(c, T) /\ ~Holds(c, T) /\ call[c].at \in Ending
        BY <1>0, <3>2 DEF Unloads, Unloading, Holds, Holding, Ending
      <4> QED  BY <2>1, <3>2, <4>1 DEF TableInv, UnloadInv
    <3> QED  BY <1>2, <3>1, <3>2
  <2>3. \A d \in Calls \ {c} :
            /\ ~Holds(d, T)' /\ (Unloads(d, T)' <=> Unloads(d, T))
            /\ (Unflags(d, T)' <=> Unflags(d, T))
            /\ Unloads(d, T) => call'[d].at = call[d].at
    BY <1>2, <2>2, OthersMean
  <2>4. ~Holds(c, T)' /\ call'[c].at = w /\ w \notin Ending
    BY <1>2, TurnMeans DEF Holding, Ending
  <2>5. \A d \in Calls : ~Holds(d, T)'  BY <2>3, <2>4
  <2>6. NodeInv(T)'  BY <1>3, <2>2 DEF NodeInv
  <2>7. FlagInv(T)'
    <3>1. CASE call[c].at = "release"
      <4>1. Holds(c, T) /\ ~Unflags(c, T)  BY <1>0, <3>1 DEF Holds, Holding, Unflags, At
      <4> QED  BY <1>3, <2>1, <2>3, <4>1 DEF TableInv, FlagInv
    <3>2. CASE call[c].at = "free"
      <4>1. Unflags(c, T)'  BY <1>2, <3>2, TurnMeans
      <4> QED  BY <4>1 DEF FlagInv
    <3> QED  BY <1>2, <3>1, <3>2
  <2>8. \A d \in Calls : LoadInv(d, T)'  BY <2>5 DEF LoadInv
  <2>9. \A d \in Calls : Unloads(d, T)' => call'[d].at \notin Ending
    BY <2>2, <2>3, <2>4
  <2>10. \A d \in Calls : Unloads(d, T)' => Unloads(d, T)
    <3>1. Unloads(c, T)' => call[c].at = "free"
      BY <1>2, TurnMeans DEF Past, Unloading
    <3>2. call[c].at = "free" => Unloads(c, T)  BY <1>0 DEF Unloads, Unloading
    <3> QED  BY <2>3, <3>1, <3>2
  <2>11. \A d \in Calls : UnloadInv(d, T)'
    <3> SUFFICES ASSUME NEW d \in Calls, Unloads(d, T)' PROVE UnloadInv(d, T)'
      BY DEF UnloadInv
    <3>1. \A e \in Calls : Unloads(e, T)' => e = d
      BY <2>1, <2>10 DEF TableInv, UnloadInv
    <3> QED  BY <2>9, <3>1, PlacesApart DEF UnloadInv
  <2> QED  BY <2>6, <2>7, <2>8, <2>11 DEF TableInv
<1>7. ASSUME NEW u, RootInv(u) PROVE RootInv(u)'
  <2>1. w \notin Made  BY DEF Made
  <2>2. call[c].at \in {"unlock", "free", "unflag"} /\ Table(c) = u
            => w \in {"unlock", "free", "unflag"} /\ tb = u
    BY <1>0, <1>2
  <2> QED  BY <1>2, <1>3, <1>7, <2>1, <2>2, RootKept
<1>8. twice' = {} => \A u \in Roots : RootInv(u)'  BY <1>7 DEF Owning
<1>9. w \in Busy => tb = T  BY <1>2 DEF Busy, Holding, Past, Unloading
<1> QED  BY <1>0, <1>2, <1>3, <1>4, <1>5, <1>6, <1>8, <1>9, OwningBy

LEMMA OwningClear ==
  ASSUME Typing, Owning, NEW c \in Calls, UNCHANGED twice, ClearTableLoaded(c)
  PROVE  Owning'
<1>0. PICK T \in Tables : T = Table(c)
  BY DEF ClearTableLoaded, At, Typing, Unloading
<1>1. Turns(c, "idle", Nobody, 0)  BY Returned, BecomesTurns DEF ClearTableLoaded
<1>2. /\ call[c].at = "unflag" /\ ownerId' = ownerId /\ node' = node
      /\ loaded' = [loaded EXCEPT ![T] = FALSE]
  BY <1>0 DEF ClearTableLoaded, At, nodeVars
<1>3. ~loaded'[T] /\ \A u \in Tables \ {T} : loaded'[u] = loaded[u]  BY <1>2 DEF Typing
<1>4. IdsDiffer'  BY <1>2 DEF Owning, IdsDiffer
<1>5. "idle" \notin Busy /\ "idle" \notin Made  BY DEF Busy, Holding, Past, Unloading, Made
<1>6. ~Holds(c, T)' /\ ~Unloads(c, T)' /\ ~Holds(c, T)
  BY <1>0, <1>1, <1>2, TurnMeans DEF Holding, Past, Unloading, Holds
<1>7. ASSUME T \in Tables \ twice PROVE TableInv(T)'
  <2>1. TableInv(T)  BY <1>7 DEF Owning
  <2>2. \A d \in Calls \ {c} :
            /\ (Holds(d, T)' <=> Holds(d, T)) /\ (Unloads(d, T)' <=> Unloads(d, T))
            /\ Holds(d, T) \/ Unloads(d, T)
                   => call'[d].at = call[d].at /\ call'[d].id = call[d].id
    BY <1>1, OthersMean
  <2>3. NodeInv(T)' /\ FlagInv(T)'  BY <1>2, <1>3, <2>1 DEF TableInv, NodeInv, FlagInv
  <2>4. \A d \in Calls : LoadInv(d, T)'
    BY <1>2, <1>6, <2>1, <2>2 DEF TableInv, LoadInv, At
  <2>5. \A d \in Calls : UnloadInv(d, T)'
    BY <1>2, <1>6, <2>1, <2>2 DEF TableInv, UnloadInv
  <2> QED  BY <2>3, <2>4, <2>5 DEF TableInv
<1>8. ASSUME NEW u \in Tables, RootInv(u) PROVE RootInv(u)'
  <2>1. CASE u = T
    <3>1. \A d \in Calls : call'[d].at \in Made => d # c /\ call'[d].at = call[d].at
                                                    /\ call'[d].table = Table(d)
      BY <1>1, <1>5, OthersStay, PlacesApart DEF Turns, Busy, Table
    <3>2. \A d \in Calls : call'[d].at \in Made /\ call'[d].table = u => u \in DOMAIN node'
      BY <1>2, <1>8, <3>1 DEF RootInv
    <3> QED  BY <1>3, <2>1, <3>2 DEF RootInv, Table
  <2>2. CASE u # T
    <3>1. loaded'[u] = loaded[u]  BY <1>3, <2>2
    <3> QED  BY <1>0, <1>1, <1>2, <1>5, <1>8, <2>2, <3>1, RootKept
  <2> QED  BY <2>1, <2>2
<1>9. twice' = {} => \A u \in Roots : RootInv(u)'  BY <1>8 DEF Owning, Roots
<1>10. \A u \in Tables \ {T} :
           /\ loaded'[u] = loaded[u] /\ ownerId'[u] = ownerId[u]
           /\ u \in DOMAIN node' => u \in DOMAIN node /\ node'[u] = node[u]
  BY <1>2, <1>3
<1> QED  BY <1>0, <1>1, <1>4, <1>5, <1>7, <1>9, <1>10, OwningBy

\* Who has the id of a table has a node of this table, or of one that was unloaded twice.
LEMMA OwnedBy ==
  ASSUME Typing, Owning, NEW T \in Tables, NEW v \in Owned(ownerId[T])
  PROVE  v \in DOMAIN node /\ v \in {T} \cup twice
<1>1. v \in DOMAIN node /\ node[v] = ownerId[T] /\ ownerId[T] # 0  BY DEF Owned
<1>2. v \in Tables  BY <1>1 DEF Typing, NodesTyped
<1>3. v \notin twice => ownerId[v] = ownerId[T]
  BY <1>1, <1>2 DEF Owning, TableInv, NodeInv
<1> QED  BY <1>1, <1>2, <1>3 DEF Owning, IdsDiffer

LEMMA DoomedBy ==
  ASSUME Typing, Owning, NEW T \in Tables, NEW v \in Doomed(ownerId[T])
  PROVE  v \in DOMAIN node /\ Named(v) \cap ({T} \cup twice) # {}
<1>1. v \in DOMAIN node /\ {v, Within[v]} \cap Owned(ownerId[T]) # {}  BY DEF Doomed
<1>2. PICK o \in {v, Within[v]} : o \in Owned(ownerId[T])  BY <1>1
<1>3. o \in {T} \cup twice  BY <1>2, OwnedBy
<1> QED  BY <1>1, <1>2, <1>3 DEF Named

\* What the two deletions do: they go by the id of their table, unless it is unloaded
\* twice, when they may have read another.
LEMMA DeleteSteps ==
  ASSUME Typing, Owning, NEW c \in Calls, DeleteFailed(c) \/ DeleteUnloaded(c)
  PROVE  /\ Table(c) \in Tables
         /\ \E w, i : /\ DeleteNamespaceByOwner(c, i, w)
                      /\ \/ call[c].at = "failed" /\ w = "release"
                         \/ call[c].at = "delete" /\ w = "unlock"
                      /\ Table(c) \notin twice => i = ownerId[Table(c)] /\ i # 0
<1>1. Table(c) \in Tables
  BY DEF DeleteFailed, DeleteUnloaded, At, Typing, Loading, Unloading
<1>2. Table(c) \notin twice => LoadInv(c, Table(c)) /\ UnloadInv(c, Table(c))
  BY <1>1 DEF Owning, TableInv
<1>3. CASE DeleteFailed(c)
  <2>1. call[c].at = "failed" /\ Holds(c, Table(c))
    BY <1>3 DEF DeleteFailed, At, Holding, Holds
  <2>2. Table(c) \notin twice => call[c].id = ownerId[Table(c)] /\ ownerId[Table(c)] # 0
    BY <1>2, <2>1, PlacesApart DEF LoadInv
  <2>3. DeleteNamespaceByOwner(c, call[c].id, "release")  BY <1>3 DEF DeleteFailed
  <2> QED  BY <1>1, <2>1, <2>2, <2>3
<1>4. CASE DeleteUnloaded(c)
  <2>1. call[c].at = "delete" /\ Unloads(c, Table(c)) /\ "delete" \in Ending
    BY <1>4 DEF DeleteUnloaded, At, Ending, Unloading, Unloads
  <2>2. Table(c) \notin twice => call[c].id = ownerId[Table(c)] /\ ownerId[Table(c)] # 0
    BY <1>2, <2>1 DEF UnloadInv
  <2>3. DeleteNamespaceByOwner(c, call[c].id, "unlock")  BY <1>4 DEF DeleteUnloaded
  <2> QED  BY <1>1, <2>1, <2>2, <2>3
<1> QED  BY <1>3, <1>4

\* With its own id a deletion takes the node of its table, and no other at the root.
LEMMA OwningDelete ==
  ASSUME Typing, Owning, NEW c \in Calls, UNCHANGED twice, DeleteFailed(c) \/ DeleteUnloaded(c)
  PROVE  Owning'
<1>0. PICK T \in Tables : T = Table(c)  BY DeleteSteps
<1>1. PICK w, i : /\ DeleteNamespaceByOwner(c, i, w)
                  /\ \/ call[c].at = "failed" /\ w = "release"
                     \/ call[c].at = "delete" /\ w = "unlock"
                  /\ T \notin twice => i = ownerId[T] /\ i # 0
  BY <1>0, DeleteSteps
<1>2. w \in Place  BY <1>1 DEF Place, Loading, Unloading
<1>3. Turns(c, w, T, 0)  BY <1>0, <1>1, <1>2, Deleting
<1>4. loaded' = loaded /\ ownerId' = ownerId  BY <1>1 DEF DeleteNamespaceByOwner
<1>5. DOMAIN node' = DOMAIN node \ Doomed(i) /\ \A u \in DOMAIN node' : node'[u] = node[u]
  BY <1>1, NodesLeft
<1>6. IdsDiffer'  BY <1>4 DEF Owning, IdsDiffer
<1>7. \/ /\ call[c].at = "failed" /\ w = "release"
         /\ Holds(c, T) /\ ~Unloads(c, T) /\ Holds(c, T)' /\ ~Unloads(c, T)'
      \/ /\ call[c].at = "delete" /\ w = "unlock"
         /\ Unloads(c, T) /\ ~Holds(c, T) /\ Unloads(c, T)' /\ ~Holds(c, T)'
  BY <1>0, <1>1, <1>3, TurnMeans DEF Holds, Unloads, Holding, Unloading, Past
<1>8. call'[c].at = w /\ ~Unflags(c, T) /\ ~Unflags(c, T)'
  BY <1>1, <1>3, TurnMeans DEF Unflags, At
<1>9. \A d \in Calls \ {c} :
          /\ (Holds(d, T)' <=> Holds(d, T)) /\ (Unloads(d, T)' <=> Unloads(d, T))
          /\ (Unflags(d, T)' <=> Unflags(d, T))
          /\ Holds(d, T) \/ Unloads(d, T)
                 => call'[d].at = call[d].at /\ call'[d].id = call[d].id
  BY <1>3, OthersMean
<1>10. \A d \in Calls : /\ (Holds(d, T)' <=> Holds(d, T)) /\ (Unloads(d, T)' <=> Unloads(d, T))
                        /\ (Unflags(d, T)' <=> Unflags(d, T))
  BY <1>7, <1>8, <1>9
<1>11. ASSUME T \in Tables \ twice PROVE TableInv(T)'
  <2>1. TableInv(T)  BY <1>11 DEF Owning
  <2>2. T \notin DOMAIN node'
    <3>1. T \in DOMAIN node => T \in Owned(i)
      BY <1>1, <1>11, <2>1 DEF TableInv, NodeInv, Owned
    <3>2. T \in DOMAIN node => T \in Doomed(i)  BY <3>1 DEF Doomed
    <3> QED  BY <1>5, <3>2
  <2>3. NodeInv(T)'  BY <2>2 DEF NodeInv
  <2>4. FlagInv(T)'  BY <1>4, <1>10, <2>1 DEF TableInv, FlagInv
  <2>5. ASSUME NEW d \in Calls PROVE LoadInv(d, T)'
    <3> SUFFICES ASSUME Holds(d, T)' PROVE LoadInv(d, T)'
      BY DEF LoadInv
    <3>1. LoadInv(d, T) /\ Holds(d, T)  BY <1>10, <2>1 DEF TableInv
    <3>2. call'[d].at \in Knowing => call[d].at \in Knowing /\ call'[d].id = call[d].id
      BY <1>1, <1>8, <1>9, <3>1, PlacesApart
    <3> QED  BY <1>4, <1>10, <2>2, <3>1, <3>2 DEF LoadInv
  <2>6. ASSUME NEW d \in Calls PROVE UnloadInv(d, T)'
    <3> SUFFICES ASSUME Unloads(d, T)' PROVE UnloadInv(d, T)'
      BY DEF UnloadInv
    <3>1. UnloadInv(d, T) /\ Unloads(d, T)  BY <1>10, <2>1 DEF TableInv
    <3>2. call'[d].at \in Ending => call[d].at \in Ending
      BY <1>1, <1>7, <1>8, <1>9, <3>1, PlacesApart
    <3>3. call'[d].at \in {"write", "delete"} => call'[d].at = call[d].at /\ call'[d].id = call[d].id
      BY <1>1, <1>8, <1>9, <3>1
    <3> QED  BY <1>4, <1>10, <2>2, <3>1, <3>2, <3>3 DEF UnloadInv
  <2> QED  BY <2>3, <2>4, <2>5, <2>6 DEF TableInv
<1>12. ASSUME twice = {}, NEW u \in Roots PROVE RootInv(u)'
  <2>1. RootInv(u) /\ T \notin twice /\ TableInv(T)  BY <1>12 DEF Owning
  <2>2. w \notin Made /\ call[c].at \notin {"unlock", "free", "unflag"}  BY <1>1 DEF Made
  <2>3. CASE u # T
    <3>1. u \notin Doomed(i)
      <4> SUFFICES ASSUME u \in Doomed(i) PROVE FALSE
        OBVIOUS
      <4>1. Nobody \notin DOMAIN node  BY TablesAssumption DEF Typing, NodesTyped
      <4>2. Within[u] = Nobody  BY DEF Roots
      <4>3. u \in Owned(i)  BY <4>1, <4>2 DEF Doomed, Owned
      <4>4. u \in Owned(ownerId[T])  BY <1>1, <2>1, <4>3
      <4> QED  BY <1>12, <2>3, <4>4, OwnedBy
    <3>2. u \in DOMAIN node => u \in DOMAIN node'  BY <1>5, <3>1
    <3> QED  BY <1>3, <1>4, <2>1, <2>2, <3>2, RootKept
  <2>4. CASE u = T
    <3>1. \A d \in Calls : ~(call'[d].at \in Made /\ call'[d].table = T)
      <4> SUFFICES ASSUME NEW d \in Calls, call'[d].at \in Made, call'[d].table = T PROVE FALSE
        OBVIOUS
      <4>1. Holds(d, T)'  BY PlacesApart DEF Holds, Table
      <4>2. Holds(d, T)  BY <1>10, <4>1
      <4>3. CASE Holds(c, T)
        <5>1. d = c  BY <2>1, <4>2, <4>3 DEF TableInv, LoadInv
        <5> QED  BY <1>8, <2>2, <5>1
      <4>4. CASE ~Holds(c, T)
        <5>1. Unloads(c, T) /\ call[c].at \in Ending  BY <1>7, <4>4, PlacesApart
        <5> QED  BY <2>1, <4>2, <5>1 DEF TableInv, UnloadInv
      <4> QED  BY <4>3, <4>4
    <3>2. loaded[T] => Deleted(T)'
      <4>1. CASE w = "unlock"
        <5>1. call'[c].table = T  BY <1>3 DEF Turns
        <5> QED  BY <1>8, <4>1, <5>1 DEF Deleted, Table
      <4>2. CASE w = "release"
        <5>1. Holds(c, T)  BY <1>7, <4>2
        <5>2. loaded[T] => \E d \in Calls : Unflags(d, T)
          BY <2>1, <5>1 DEF TableInv, FlagInv
        <5>3. \A d \in Calls : Unflags(d, T) => Unflags(d, T)'  BY <1>10
        <5> QED  BY <5>2, <5>3 DEF Deleted, Unflags, At, Table
      <4> QED  BY <1>1, <4>1, <4>2
    <3> QED  BY <1>4, <2>4, <3>1, <3>2 DEF RootInv, Table
  <2> QED  BY <2>3, <2>4
<1>13. \A u \in Tables \ {T} :
           /\ loaded'[u] = loaded[u] /\ ownerId'[u] = ownerId[u]
           /\ u \in DOMAIN node' => u \in DOMAIN node /\ node'[u] = node[u]
  BY <1>4, <1>5
<1> QED  BY <1>0, <1>3, <1>6, <1>11, <1>12, <1>13, OwningBy

-----------------------------------------------------------------------------
(* The invariant                                                            *)

Inv == Typing /\ Locked /\ Owning

\* The groups of steps that the lemmas are about.
LEMMA Cases ==
  ASSUME NEW c \in Calls, Start(c) \/ Proceed(c)
  PROVE  \/ \/ EnterMethod(c) \/ EndMethod(c) \/ AcpiWalkNamespace(c)
            \/ AcpiNsWalkNamespace(c) \/ UserFunctionReturns(c) \/ CheckNotLoaded(c)
            \/ NoOwnerId(c) \/ InitializeObjects(c)
            \/ \E tb \in Tables : AcpiLoadTable(c, tb) \/ AcpiExLoadOp(c, tb)
         \/ GetOwnerId(c) \/ ParseTable(c) \/ Pause(c) \/ Resume(c) \/ Parsed(c)
         \/ ParseFails(c)
         \/ AcpiUtAcquireReadLock(c) \/ FirstReader(c) \/ AcpiUtReleaseReadLock(c)
         \/ \E tb \in Tables : AcpiUnloadTable(c, tb) \/ AcpiExUnloadTable(c, tb)
         \/ CheckLoaded(c) \/ ReadOwnerId(c)
         \/ AcpiUtAcquireWriteLock(c) \/ AcpiUtReleaseWriteLock(c)
         \/ AllocateOwnerId(c) \/ CreateNode(c) \/ SetTableLoaded(c)
         \/ ReleaseFailed(c) \/ ReleaseOwnerId(c) \/ ClearTableLoaded(c)
         \/ DeleteFailed(c) \/ DeleteUnloaded(c)
BY DEF Start, Proceed, WalkStep, LoadStep, UnloadStep

\* The history grows, by tables, and only when an unload finds its table loaded.
LEMMA History ==
  ASSUME Typing, NEW c \in Calls, Start(c) \/ Proceed(c)
  PROVE  (CheckLoaded(c) \/ UNCHANGED twice) /\ twice' \subseteq Tables
<1>1. CASE CheckLoaded(c)
  <2>1. Table(c) \in Tables  BY <1>1 DEF CheckLoaded, At, Typing, Unloading
  <2>2. twice' \subseteq twice \cup {Table(c)}  BY <1>1 DEF CheckLoaded
  <2> QED  BY <1>1, <2>1, <2>2 DEF Typing
<1>2. CASE ~CheckLoaded(c)
  <2>1. UNCHANGED twice  BY <1>2 DEF Start, Proceed
  <2> QED  BY <2>1 DEF Typing
<1> QED  BY <1>1, <1>2

\* The other steps of loads and unloads, and the start of an unload, turn their call
\* between places that the lock does not know of; no walk loses its node.
LEMMA LockedQuiet ==
  ASSUME Typing, Locked, NEW c \in Calls,
         \/ \E tb \in Tables : AcpiUnloadTable(c, tb) \/ AcpiExUnloadTable(c, tb)
         \/ CheckLoaded(c) \/ ReadOwnerId(c) \/ AllocateOwnerId(c) \/ CreateNode(c)
         \/ SetTableLoaded(c) \/ ReleaseFailed(c) \/ ReleaseOwnerId(c) \/ ClearTableLoaded(c)
  PROVE  /\ Locked'
         /\ \E w, tb, i : Becomes(c, w, tb, i) /\ w \notin NodeGone
<1> DEFINE Quiet == {"idle", "method", "test", "owner", "write", "allocate", "allocated",
                     "parse", "created", "flag", "initialize", "release", "free", "unflag"}
<1>1. Quiet \cap (Walking \cup Writing \cup {"first"} \cup NodeGone) = {}
  BY DEF Walking, Visiting, NodeGone, Writing
<1>2. {"owner", "unflag"} \subseteq Place  BY DEF Place, Unloading
<1>3. UNCHANGED lockVars /\ call[c].at \in Quiet
  <2>1. CASE \E tb \in Tables : AcpiUnloadTable(c, tb) \/ AcpiExUnloadTable(c, tb)
    BY <2>1, TestSteps
  <2>2. CASE CheckLoaded(c) \/ ReadOwnerId(c) \/ AllocateOwnerId(c) \/ CreateNode(c)
    BY <2>2 DEF CheckLoaded, ReadOwnerId, AllocateOwnerId, CreateNode, At
  <2>3. CASE SetTableLoaded(c) \/ ReleaseFailed(c) \/ ReleaseOwnerId(c) \/ ClearTableLoaded(c)
    BY <2>3 DEF SetTableLoaded, ReleaseFailed, ReleaseOwnerId, ClearTableLoaded, At
  <2> QED  BY <2>1, <2>2, <2>3
<1>4. \E w \in Quiet : \E tb, i : Becomes(c, w, tb, i)
  <2>1. CASE \E tb \in Tables : AcpiUnloadTable(c, tb) \/ AcpiExUnloadTable(c, tb)
    BY <2>1, TestSteps
  <2>2. CASE CheckLoaded(c)
    <3>1. CASE Return(c)  BY <3>1, Returned
    <3>2. CASE Goto(c, "owner")  BY <1>2, <3>2, Went
    <3> QED  BY <2>2, <3>1, <3>2 DEF CheckLoaded
  <2>3. CASE ReadOwnerId(c)
    <3> DEFINE r == [call[c] EXCEPT !.at = "write", !.id = ownerId[Table(c)]]
    <3>1. Table(c) \in Tables  BY <2>3 DEF ReadOwnerId, At, Typing, Unloading
    <3>2. call[c] \in Call /\ ownerId[Table(c)] \in Ids  BY <3>1 DEF Typing
    <3>3. r \in Call /\ r.at = "write"  BY <3>2 DEF Call, Place, Unloading
    <3>4. call' = [call EXCEPT ![c] = r]  BY <2>3 DEF ReadOwnerId
    <3> HIDE DEF r
    <3>5. Becomes(c, "write", r.table, r.id)  BY <3>3, <3>4, Moved
    <3> QED  BY <3>5
  <2>4. CASE AllocateOwnerId(c) \/ CreateNode(c) \/ SetTableLoaded(c) \/ ReleaseFailed(c)
    BY <2>4, LoadSteps
  <2>5. CASE ReleaseOwnerId(c)  BY <1>2, <2>5, Went DEF ReleaseOwnerId
  <2>6. CASE ClearTableLoaded(c)  BY <2>6, Returned DEF ClearTableLoaded
  <2> QED  BY <2>1, <2>2, <2>3, <2>4, <2>5, <2>6
<1>5. PICK w \in Quiet : \E tb, i : Becomes(c, w, tb, i)  BY <1>4
<1>6. PICK tb, i : Becomes(c, w, tb, i)  BY <1>5
<1> HIDE DEF Quiet
<1>7. LocksAlike(c, w)  BY <1>1, <1>3, <1>5 DEF LocksAlike
<1>8. Locked'  BY <1>3, <1>6, <1>7, BecomesTurns, LockedKept
<1>9. w \notin NodeGone  BY <1>1, <1>5
<1> QED  BY ONLY <1>6, <1>8, <1>9

LEMMA LockedDelete ==
  ASSUME Typing, Locked, NEW c \in Calls, DeleteFailed(c) \/ DeleteUnloaded(c)
  PROVE  Locked'
<1>1. PICK w \in {"release", "unlock"} :
          /\ \E j : DeleteNamespaceByOwner(c, j, w)
          /\ \/ call[c].at = "failed" /\ w = "release"
             \/ call[c].at = "delete" /\ w = "unlock"
  BY DEF DeleteFailed, DeleteUnloaded, At
<1>2. PICK i : DeleteNamespaceByOwner(c, i, w)  BY <1>1
<1>3. w \in Place  BY DEF Place, Loading, Unloading
<1>4. Turns(c, w, Table(c), 0)  BY <1>2, <1>3, Deleting
<1>5. LocksAlike(c, w)
  BY <1>1 DEF LocksAlike, Walking, Visiting, NodeGone, Writing
<1>6. UNCHANGED lockVars  BY <1>2 DEF DeleteNamespaceByOwner
<1> QED  BY <1>4, <1>5, <1>6, LockedKept

LEMMA InvFree ==
  ASSUME Inv, NEW c \in Calls, NEW w, NEW tb, NEW i, Becomes(c, w, tb, i),
         FreeMove(c, w, tb), UNCHANGED <<tableVars, lockVars, twice>>,
         interpreter' \in Threads \cup {Nobody}, twice' \subseteq Tables
  PROVE  Inv'
<1>1. Typing /\ Locked /\ Owning  BY DEF Inv
<1>2. Turns(c, w, tb, i)  BY BecomesTurns
<1>3. w \in Loading \cup Unloading \cup Visiting \cup NodeGone => tb \in Tables
  BY DEF FreeMove, Free
<1>4. LocksAlike(c, w)  BY DEF FreeMove
<1>5. call[c].at \notin Busy /\ w \notin Busy  BY FreeIsNotBusy DEF FreeMove
<1>6. Typing'  BY <1>1, <1>2, <1>3, TypingQuiet
<1>7. Locked'  BY <1>1, <1>2, <1>4, LockedKept
<1>8. Owning'  BY <1>1, <1>2, <1>5, OwningKept
<1> QED  BY <1>6, <1>7, <1>8 DEF Inv

LEMMA InvHold ==
  ASSUME Inv, NEW c \in Calls, NEW w, NEW i, Becomes(c, w, Table(c), i), HoldMove(c, w, i),
         Table(c) \in Tables, UNCHANGED <<tableVars, lockVars, twice>>,
         interpreter' \in Threads \cup {Nobody}, twice' \subseteq Tables
  PROVE  Inv'
<1>1. Typing /\ Locked /\ Owning  BY DEF Inv
<1>2. Turns(c, w, Table(c), i)  BY BecomesTurns
<1>3. OwnMove(c, w, i) /\ LocksAlike(c, w)  BY HoldIsOwn
<1>4. Typing'  BY <1>1, <1>2, TypingQuiet
<1>5. Locked'  BY <1>1, <1>2, <1>3, LockedKept
<1>6. Owning'  BY <1>1, <1>2, <1>3, OwningKept
<1> QED  BY <1>4, <1>5, <1>6 DEF Inv

LEMMA InvStep ==
  ASSUME Inv, NEW c \in Calls, Start(c) \/ Proceed(c)
  PROVE  Inv'
<1>0. Typing /\ Locked /\ Owning  BY DEF Inv
<1>a. (CheckLoaded(c) \/ UNCHANGED twice) /\ twice' \subseteq Tables  BY <1>0, History
<1>1. CASE CheckLoaded(c)
  BY <1>0, <1>1, <1>a, TypingUnloads, LockedQuiet, OwningCheck DEF Inv
<1>2. CASE UNCHANGED twice
  <2>1. CASE \/ EnterMethod(c) \/ EndMethod(c) \/ AcpiWalkNamespace(c)
             \/ AcpiNsWalkNamespace(c) \/ UserFunctionReturns(c) \/ CheckNotLoaded(c)
             \/ NoOwnerId(c) \/ InitializeObjects(c)
             \/ \E tb \in Tables : AcpiLoadTable(c, tb) \/ AcpiExLoadOp(c, tb)
    <3>1. /\ UNCHANGED <<tableVars, lockVars>> /\ interpreter' \in Threads \cup {Nobody}
          /\ \E w, tb, i : Becomes(c, w, tb, i) /\ FreeMove(c, w, tb)
      BY <1>0, <2>1, FreeSteps
    <3> QED  BY <1>2, <1>a, <3>1, InvFree
  <2>2. CASE \/ GetOwnerId(c) \/ ParseTable(c) \/ Pause(c) \/ Resume(c) \/ Parsed(c)
             \/ ParseFails(c)
    <3>1. /\ UNCHANGED <<tableVars, lockVars>> /\ interpreter' \in Threads \cup {Nobody}
          /\ Table(c) \in Tables
          /\ \E w, i : Becomes(c, w, Table(c), i) /\ HoldMove(c, w, i)
      BY <1>0, <2>2, HoldSteps
    <3> QED  BY <1>2, <1>a, <3>1, InvHold
  <2>3. CASE AcpiUtAcquireReadLock(c)
    BY <1>0, <1>2, <1>a, <2>3, TypingReads, LockedRead, OwningLock DEF Inv
  <2>4. CASE FirstReader(c)
    BY <1>0, <1>2, <1>a, <2>4, TypingReads, LockedFirst, OwningLock DEF Inv
  <2>5. CASE AcpiUtReleaseReadLock(c)
    <3>1. Locked' /\ numReaders # 0  BY <1>0, <2>5, LockedUnread
    <3> QED  BY <1>0, <1>2, <1>a, <2>5, <3>1, TypingReadEnds, OwningLock DEF Inv
  <2>6. CASE \E tb \in Tables : AcpiUnloadTable(c, tb) \/ AcpiExUnloadTable(c, tb)
    <3>1. Locked'  BY <1>0, <2>6, LockedQuiet
    <3> QED  BY <1>0, <1>2, <1>a, <2>6, <3>1, TypingTest, OwningTest DEF Inv
  <2>7. CASE ReadOwnerId(c)
    BY <1>0, <1>2, <1>a, <2>7, TypingUnloads, LockedQuiet, OwningUnload DEF Inv
  <2>8. CASE AcpiUtAcquireWriteLock(c) \/ AcpiUtReleaseWriteLock(c)
    BY <1>0, <1>2, <1>a, <2>8, TypingUnloads, LockedWrite, OwningUnload DEF Inv
  <2>9. CASE AllocateOwnerId(c)
    BY <1>0, <1>2, <1>a, <2>9, TypingLoads, LockedQuiet, OwningAllocate DEF Inv
  <2>10. CASE CreateNode(c)
    BY <1>0, <1>2, <1>a, <2>10, TypingLoads, LockedQuiet, OwningCreate DEF Inv
  <2>11. CASE SetTableLoaded(c)
    BY <1>0, <1>2, <1>a, <2>11, TypingLoads, LockedQuiet, OwningFlag DEF Inv
  <2>12. CASE ReleaseFailed(c)
    BY <1>0, <1>2, <1>a, <2>12, TypingLoads, LockedQuiet, OwningIdGone DEF Inv
  <2>13. CASE ReleaseOwnerId(c)
    BY <1>0, <1>2, <1>a, <2>13, TypingUnloads, LockedQuiet, OwningIdGone DEF Inv
  <2>14. CASE ClearTableLoaded(c)
    BY <1>0, <1>2, <1>a, <2>14, TypingUnloads, LockedQuiet, OwningClear DEF Inv
  <2>15. CASE DeleteFailed(c) \/ DeleteUnloaded(c)
    BY <1>0, <1>2, <1>a, <2>15, TypingDeletes, LockedDelete, OwningDelete DEF Inv
  <2>16. CASE CheckLoaded(c)  BY <1>1, <2>16
  <2> QED  BY <2>1, <2>2, <2>3, <2>4, <2>5, <2>6, <2>7, <2>8, <2>9, <2>10, <2>11, <2>12,
              <2>13, <2>14, <2>15, <2>16, Cases
<1> QED  BY <1>1, <1>2, <1>a

LEMMA InvInit ==
  ASSUME Init
  PROVE  Inv
<1>1. /\ loaded = [tb \in Tables |-> FALSE] /\ ownerId = [tb \in Tables |-> 0]
      /\ node = <<>> /\ before = {} /\ twice = {} /\ numReaders = 0 /\ readerMutex = FALSE /\ writerMutex = FALSE
      /\ interpreter = Nobody /\ call = [c \in Calls |-> Idle]
  BY DEF Init
<1>2. Idle \in Call /\ Idle.at = "idle"  BY DEF Idle, Call, Place, Ids
<1>3. \A c \in Calls : call[c] = Idle /\ call[c].at = "idle"  BY <1>1, <1>2
<1>4. "idle" \notin Loading \cup Unloading \cup Walking \cup {"first"} \cup Writing
  BY DEF Loading, Unloading, Walking, Visiting, NodeGone, Writing
<1>5. Typing
  <2>1. DOMAIN node = {} /\ node \in [{} -> Ids] /\ before = {}  BY <1>1
  <2>2. NodesTyped  BY <2>1 DEF NodesTyped
  <2>3. call \in [Calls -> Call]  BY <1>1, <1>2
  <2>4. \A c \in Calls : call[c].at \notin Loading \cup Unloading \cup Visiting \cup NodeGone
    BY <1>3, <1>4 DEF Walking
  <2>5. loaded \in [Tables -> BOOLEAN] /\ ownerId \in [Tables -> Ids]  BY <1>1 DEF Ids
  <2>6. /\ numReaders \in Nat /\ readerMutex \in BOOLEAN /\ writerMutex \in BOOLEAN
        /\ interpreter \in Threads \cup {Nobody} /\ twice \subseteq Tables
    BY <1>1
  <2> QED  BY <2>2, <2>3, <2>4, <2>5, <2>6 DEF Typing
<1>6. Locked
  <2>1. Readers = {}  BY <1>3, <1>4 DEF Readers
  <2>2. Cardinality(Readers) = 0  BY <2>1, FS_EmptySet
  <2> QED  BY <1>1, <1>3, <1>4, <2>2 DEF Locked, At
<1>7. Owning
  <2>1. DOMAIN node = {}  BY <1>1
  <2>2. \A c \in Calls : call[c].at \notin Busy
    BY <1>3 DEF Busy, Holding, Past, Unloading
  <2>3. ASSUME NEW c \in Calls, NEW tb PROVE ~Holds(c, tb) /\ ~Unloads(c, tb)
    BY <2>2 DEF Holds, Unloads, Busy, Past
  <2>4. ASSUME NEW tb \in Tables PROVE TableInv(tb) /\ RootInv(tb)
    <3>1. NodeInv(tb) /\ FlagInv(tb)  BY <1>1, <2>1 DEF NodeInv, FlagInv
    <3>2. \A c \in Calls : LoadInv(c, tb) /\ UnloadInv(c, tb)
      BY <2>3 DEF LoadInv, UnloadInv
    <3>3. \A c \in Calls : call[c].at \notin Made  BY <2>2, PlacesApart DEF Busy
    <3> QED  BY <1>1, <3>1, <3>2, <3>3 DEF TableInv, RootInv
  <2>5. IdsDiffer  BY <1>1 DEF IdsDiffer
  <2> QED  BY <2>4, <2>5 DEF Owning, Roots
<1> QED  BY <1>5, <1>6, <1>7 DEF Inv

LEMMA InvNext ==
  ASSUME Inv, [Next]_vars
  PROVE  Inv'
<1>1. CASE Next
  <2>1. PICK c \in Calls : Start(c) \/ Proceed(c)  BY <1>1 DEF Next
  <2> QED  BY <2>1, InvStep
<1>2. CASE UNCHANGED vars
  <2>1. /\ loaded' = loaded /\ ownerId' = ownerId /\ node' = node /\ before' = before
        /\ numReaders' = numReaders /\ readerMutex' = readerMutex /\ twice' = twice
        /\ writerMutex' = writerMutex /\ interpreter' = interpreter /\ call' = call
    BY <1>2 DEF vars, tableVars, nodeVars, lockVars
  <2>2. Typing'  BY <2>1 DEF Inv, Typing, NodesTyped, Table
  <2>3. Readers' = Readers  BY <2>1 DEF Readers
  <2>4. Locked'  BY <2>1, <2>3 DEF Inv, Locked, At
  <2>5. IdsDiffer'  BY <2>1 DEF Inv, Owning, IdsDiffer
  <2>6. \A c \in Calls : \A tb :
            /\ Holds(c, tb)' <=> Holds(c, tb)
            /\ Unloads(c, tb)' <=> Unloads(c, tb)
            /\ Unflags(c, tb)' <=> Unflags(c, tb)
    BY <2>1 DEF Holds, Unloads, Unflags, At, Table
  <2>7. ASSUME NEW tb, TableInv(tb) PROVE TableInv(tb)'
    <3>1. NodeInv(tb)' /\ FlagInv(tb)'
      BY <2>1, <2>6, <2>7 DEF TableInv, NodeInv, FlagInv
    <3>2. \A c \in Calls : LoadInv(c, tb)'
      BY <2>1, <2>6, <2>7 DEF TableInv, LoadInv, At
    <3>3. \A c \in Calls : UnloadInv(c, tb)'
      BY <2>1, <2>6, <2>7 DEF TableInv, UnloadInv
    <3> QED  BY <3>1, <3>2, <3>3 DEF TableInv
  <2>8. ASSUME NEW tb, RootInv(tb) PROVE RootInv(tb)'
    BY <2>1, <2>8 DEF RootInv, Deleted, Table
  <2>9. Owning'
    BY <2>1, <2>5, <2>7, <2>8 DEF Inv, Owning, Roots
  <2> QED  BY <2>2, <2>4, <2>9 DEF Inv
<1> QED  BY <1>1, <1>2

LEMMA Invariance == Spec => []Inv
<1>1. Init => Inv  BY InvInit
<1>2. Inv /\ [Next]_vars => Inv'  BY InvNext
<1> QED  BY <1>1, <1>2, PTL DEF Spec

-----------------------------------------------------------------------------
(* What follows from it                                                     *)

\* Every variable keeps its type, and the readers counted are calls that there are.
THEOREM TypeCorrect == Spec => []TypeOK
<1>1. ASSUME Inv PROVE TypeOK
  <2>1. Typing /\ numReaders = Cardinality(Readers)  BY <1>1 DEF Inv, Locked
  <2>2. Readers \subseteq Calls  BY DEF Readers
  <2>3. /\ Cardinality(Readers) <= Cardinality(Calls)
        /\ Cardinality(Readers) \in Nat /\ Cardinality(Calls) \in Nat
    BY <2>2, CallsFinite, FS_Subset, FS_CardinalityType
  <2>4. numReaders \in 0..Cardinality(Calls)  BY <2>1, <2>3
  <2> QED  BY <2>1, <2>4 DEF Typing, NodesTyped, TypeOK
<1> QED  BY <1>1, Invariance, PTL

\* Whichever threads load, unload and walk, no two tables have one owner id, and the node
\* of a table that was never unloaded twice at a time has its table's; unless there was
\* such an unload, no loaded table is without its node: NodesOwned.
THEOREM NodesAreOwned == Spec => []NodesOwned
<1>1. ASSUME Inv PROVE NodesOwned
  <2>1. Typing /\ Owning  BY <1>1 DEF Inv
  <2>2. \A a, b \in Tables : a # b /\ ownerId[a] = ownerId[b] => ownerId[a] = 0
    BY <2>1 DEF Owning, IdsDiffer
  <2>3. \A tb \in DOMAIN node \ twice : node[tb] = ownerId[tb]
    BY <2>1 DEF Typing, NodesTyped, Owning, TableInv, NodeInv
  <2>4. twice = {} => \A tb \in Tables : loaded[tb] /\ ~Deleted(tb) /\ Within[tb] = Nobody
                                               => tb \in DOMAIN node
    BY <2>1 DEF Owning, Roots, RootInv
  <2> QED  BY <2>2, <2>3, <2>4 DEF NodesOwned
<1> QED  BY <1>1, Invariance, PTL

\* Nodes go in the two deletions only, which go by the id of their table.
LEMMA GoneStep ==
  ASSUME Inv, NEW c \in Calls, Start(c) \/ Proceed(c), NEW tb \in DOMAIN node \ DOMAIN node'
  PROVE  /\ call[c].at \in {"failed", "delete"}
         /\ Table(c) \in twice \/ Named(tb) \cap ({Table(c)} \cup twice) # {}
<1>0. Typing /\ Owning  BY DEF Inv
<1>1. node' = node => FALSE  OBVIOUS
<1>2. CASE DeleteFailed(c) \/ DeleteUnloaded(c)
  <2>1. Table(c) \in Tables  BY <1>0, <1>2, DeleteSteps
  <2>2. PICK w, i : /\ DeleteNamespaceByOwner(c, i, w)
                    /\ \/ call[c].at = "failed" /\ w = "release"
                       \/ call[c].at = "delete" /\ w = "unlock"
                    /\ Table(c) \notin twice => i = ownerId[Table(c)] /\ i # 0
    BY <1>0, <1>2, DeleteSteps
  <2>3. tb \in Doomed(i)  BY <2>2, NodesLeft
  <2>4. ASSUME Table(c) \notin twice PROVE Named(tb) \cap ({Table(c)} \cup twice) # {}
    <3>1. tb \in Doomed(ownerId[Table(c)])  BY <2>2, <2>3, <2>4
    <3> QED  BY <1>0, <2>1, <3>1, DoomedBy
  <2> QED  BY <2>2, <2>4
<1>3. CASE CreateNode(c)
  <2>1. Table(c) \in Tables  BY <1>0, <1>3, LoadSteps
  <2>2. DOMAIN node \subseteq DOMAIN node'  BY <1>0, <1>3, <2>1, NodesTypedMore
  <2> QED  BY <2>2
<1>4. CASE \/ EnterMethod(c) \/ EndMethod(c) \/ AcpiWalkNamespace(c)
           \/ AcpiNsWalkNamespace(c) \/ UserFunctionReturns(c) \/ CheckNotLoaded(c)
           \/ NoOwnerId(c) \/ InitializeObjects(c)
           \/ \E u \in Tables : AcpiLoadTable(c, u) \/ AcpiExLoadOp(c, u)
  <2>1. UNCHANGED tableVars  BY <1>0, <1>4, FreeSteps
  <2> QED  BY <1>1, <2>1 DEF tableVars, nodeVars
<1>5. CASE \/ GetOwnerId(c) \/ ParseTable(c) \/ Pause(c) \/ Resume(c) \/ Parsed(c)
           \/ ParseFails(c)
  <2>1. UNCHANGED tableVars  BY <1>0, <1>5, HoldSteps
  <2> QED  BY <1>1, <2>1 DEF tableVars, nodeVars
<1>6. CASE \E u \in Tables : AcpiUnloadTable(c, u) \/ AcpiExUnloadTable(c, u)
  <2>1. UNCHANGED tableVars  BY <1>0, <1>6, TestSteps
  <2> QED  BY <1>1, <2>1 DEF tableVars, nodeVars
<1>7. CASE \/ AcpiUtAcquireReadLock(c) \/ FirstReader(c) \/ AcpiUtReleaseReadLock(c)
           \/ CheckLoaded(c) \/ ReadOwnerId(c)
           \/ AcpiUtAcquireWriteLock(c) \/ AcpiUtReleaseWriteLock(c)
  <2>1. UNCHANGED tableVars
    BY <1>7 DEF AcpiUtAcquireReadLock, FirstReader, AcpiUtReleaseReadLock, CheckLoaded,
                ReadOwnerId, AcpiUtAcquireWriteLock, AcpiUtReleaseWriteLock
  <2> QED  BY <1>1, <2>1 DEF tableVars, nodeVars
<1>8. CASE \/ AllocateOwnerId(c) \/ SetTableLoaded(c)
           \/ ReleaseFailed(c) \/ ReleaseOwnerId(c) \/ ClearTableLoaded(c)
  <2>1. UNCHANGED nodeVars
    BY <1>8 DEF AllocateOwnerId, SetTableLoaded, ReleaseFailed, ReleaseOwnerId,
                ClearTableLoaded
  <2> QED  BY <1>1, <2>1 DEF nodeVars
<1> QED  BY <1>2, <1>3, <1>4, <1>5, <1>6, <1>7, <1>8, Cases

\* A node goes only with its table or that of its scope, by an unload or a failed load,
\* however calls of any number of threads overlap: what else goes does so by a call for
\* a table that two threads have unloaded at a time, or has the id of such a table.
THEOREM NodesGo == Spec => NodesGoWithTheirTable
<1> DEFINE Goes == \A tb \in DOMAIN node \ DOMAIN node' :
                       \E c \in Calls : /\ call[c].at \in {"failed", "delete"}
                                        /\ \/ Table(c) \in twice
                                           \/ Named(tb) \cap ({Table(c)} \cup twice) # {}
<1>1. Inv /\ [Next]_vars => [Goes]_vars
  <2> SUFFICES ASSUME Inv, Next PROVE Goes
    OBVIOUS
  <2>1. PICK c \in Calls : Start(c) \/ Proceed(c)  BY DEF Next
  <2> QED  BY <2>1, GoneStep
<1> QED  BY <1>1, Invariance, PTL DEF Spec, NodesGoWithTheirTable

\* Only the deletion of a load that fails takes the node from a user function.
LEMMA DangleStep ==
  ASSUME Inv, NEW c \in Calls, Start(c) \/ Proceed(c),
         NEW d \in Calls, call[d].at \in Visiting, call'[d].at \in NodeGone
  PROVE  /\ At(c, "failed")
         /\ Table(c) \in twice \/ Named(Table(d)) \cap ({Table(c)} \cup twice) # {}
<1>0. Typing /\ Locked /\ Owning  BY DEF Inv
<1>1. Visiting \cap NodeGone = {}  BY DEF Visiting, NodeGone
<1>2. ASSUME NEW w, NEW tb, NEW i, Becomes(c, w, tb, i),
             call[c].at \in Visiting => w \notin NodeGone
      PROVE  FALSE
  BY <1>1, <1>2 DEF Becomes
<1>3. CASE \/ EnterMethod(c) \/ EndMethod(c) \/ AcpiWalkNamespace(c)
           \/ AcpiNsWalkNamespace(c) \/ UserFunctionReturns(c) \/ CheckNotLoaded(c)
           \/ NoOwnerId(c) \/ InitializeObjects(c)
           \/ \E tb \in Tables : AcpiLoadTable(c, tb) \/ AcpiExLoadOp(c, tb)
  <2>1. \E w, tb, i : Becomes(c, w, tb, i) /\ FreeMove(c, w, tb)  BY <1>0, <1>3, FreeSteps
  <2> QED  BY <1>2, <2>1 DEF FreeMove
<1>4. CASE \/ GetOwnerId(c) \/ ParseTable(c) \/ Pause(c) \/ Resume(c) \/ Parsed(c)
           \/ ParseFails(c)
  <2>1. \E w, i : Becomes(c, w, Table(c), i) /\ HoldMove(c, w, i)  BY <1>0, <1>4, HoldSteps
  <2>2. \A w \in Holding : w \notin NodeGone  BY PlacesApart DEF Busy
  <2> QED  BY <1>2, <2>1, <2>2 DEF HoldMove
<1>5. CASE AcpiUtAcquireReadLock(c) \/ FirstReader(c) \/ AcpiUtReleaseReadLock(c)
  <2>0. (\E w : Goto(c, w)) \/ Return(c)
    BY <1>5 DEF AcpiUtAcquireReadLock, FirstReader, AcpiUtReleaseReadLock
  <2>1. \A e \in Calls \ {c} : call'[e] = call[e]
    <3>1. CASE \E w : Goto(c, w)  BY <3>1 DEF Goto, Typing
    <3>2. CASE Return(c)  BY <3>2, Returned, <1>0 DEF Becomes
    <3> QED  BY <2>0, <3>1, <3>2
  <2>2. d = c  BY <1>1, <2>1
  <2>3. call[c].at \notin Visiting
    BY <1>5 DEF AcpiUtAcquireReadLock, FirstReader, AcpiUtReleaseReadLock, At, Visiting
  <2> QED  BY <2>2, <2>3
<1>6. CASE AcpiUtAcquireWriteLock(c) \/ AcpiUtReleaseWriteLock(c)
  <2>0. \E w : Goto(c, w)
    BY <1>6 DEF AcpiUtAcquireWriteLock, AcpiUtReleaseWriteLock
  <2>1. \A e \in Calls \ {c} : call'[e] = call[e]  BY <2>0 DEF Goto, Typing
  <2>2. d = c  BY <1>1, <2>1
  <2>3. call[c].at \notin Visiting
    BY <1>6 DEF AcpiUtAcquireWriteLock, AcpiUtReleaseWriteLock, At, Visiting
  <2> QED  BY <2>2, <2>3
<1>7. CASE \/ \E tb \in Tables : AcpiUnloadTable(c, tb) \/ AcpiExUnloadTable(c, tb)
           \/ CheckLoaded(c) \/ ReadOwnerId(c) \/ AllocateOwnerId(c) \/ CreateNode(c)
           \/ SetTableLoaded(c) \/ ReleaseFailed(c) \/ ReleaseOwnerId(c)
           \/ ClearTableLoaded(c)
  <2>1. \E w, tb, i : Becomes(c, w, tb, i) /\ w \notin NodeGone  BY <1>0, <1>7, LockedQuiet
  <2> QED  BY <1>2, <2>1
<1>8. CASE DeleteFailed(c) \/ DeleteUnloaded(c)
  <2>1. Table(c) \in Tables  BY <1>0, <1>8, DeleteSteps
  <2>2. PICK w, i : /\ DeleteNamespaceByOwner(c, i, w)
                    /\ \/ call[c].at = "failed" /\ w = "release"
                       \/ call[c].at = "delete" /\ w = "unlock"
                    /\ Table(c) \notin twice => i = ownerId[Table(c)] /\ i # 0
    BY <1>0, <1>8, DeleteSteps
  <2>3. w \in Place  BY <2>2 DEF Place, Loading, Unloading
  <2>4. d # c  BY <2>2 DEF Visiting
  <2>5. Table(d) \in Doomed(i)  BY <1>0, <2>2, <2>3, <2>4, Deleting
  <2>6. call[c].at # "delete"
    BY <1>0, <2>4 DEF Locked, Walking, Writing
  <2>7. ASSUME Table(c) \notin twice PROVE Named(Table(d)) \cap ({Table(c)} \cup twice) # {}
    <3>1. Table(d) \in Doomed(ownerId[Table(c)])  BY <2>2, <2>5, <2>7
    <3> QED  BY <1>0, <2>1, <3>1, DoomedBy
  <2> QED  BY <2>2, <2>6, <2>7 DEF At
<1> QED  BY <1>3, <1>4, <1>5, <1>6, <1>7, <1>8, Cases

\* No unload takes a node from a walk, however walks of any number of threads and
\* levels overlap; only a load that fails does, from walks at its own table's node and
\* those below it, unless it or the node is of a table that was unloaded twice at a time.
THEOREM UnloadsSpareWalks == Spec => OnlyFailedLoadsDangle
<1> DEFINE Spared == \A d \in Calls : call[d].at \in Visiting /\ call'[d].at \in NodeGone =>
                         \E c \in Calls : /\ At(c, "failed")
                                          /\ \/ Table(c) \in twice
                                             \/ Named(Table(d)) \cap ({Table(c)} \cup twice) # {}
<1>1. Inv /\ [Next]_vars => [Spared]_vars
  <2> SUFFICES ASSUME Inv, Next PROVE Spared
    OBVIOUS
  <2>1. PICK c \in Calls : Start(c) \/ Proceed(c)  BY DEF Next
  <2> QED  BY <2>1, DangleStep
<1> QED  BY <1>1, Invariance, PTL DEF Spec, OnlyFailedLoadsDangle

=============================================================================
