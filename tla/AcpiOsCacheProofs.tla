------------------------- MODULE AcpiOsCacheProofs -------------------------
(***************************************************************************)
(* Proofs about the object cache: its types, that every piece of memory is *)
(* in one place, that current_depth is the length of the list, and that    *)
(* the cache implements ObjectPool.                                        *)
(*                                                                         *)
(* A step moves one object between two places (the allocator, the list, a  *)
(* thread's way outside the lock, a thread's hands), or empties the list.  *)
(* The first lemmas say what it makes of each place, taken as a set; what  *)
(* is left of OnePlace is then the algebra of those sets.                  *)
(***************************************************************************)
EXTENDS AcpiOsCache, TLAPS

Held == UNION {held[t] : t \in Threads}

\* The clauses of OnePlace, by name.
Covering   == Objects = heap \cup misfreed \cup Listed \cup Moving \cup Held
ListedOnce == \A i, j \in DOMAIN list : list[i] = list[j] => i = j
OneHolder  == \A t, u \in Threads : t # u => held[t] \cap held[u] = {}
OneMover   == \A t, u \in Threads : obj[t] = obj[u] => t = u \/ obj[t] = NoObject
Apart      == /\ Held \cap (heap \cup misfreed \cup Listed \cup Moving) = {}
              /\ (heap \cup misfreed) \cap (Listed \cup Moving) = {}
              /\ heap \cap misfreed = {}
              /\ Listed \cap Moving = {}

\* A thread has an object on its way exactly while it clears or frees one.
OnItsWay == \A t \in Threads : IF pc[t] \in {"clear", "free"} THEN obj[t] \in Objects
                               ELSE obj[t] = NoObject

\* The inductive invariant.
Inv == TypeOK /\ OnePlace /\ DepthExact /\ OnItsWay

\* OnePlace, clause by clause.
LEMMA Clauses == OnePlace <=> Covering /\ ListedOnce /\ OneHolder /\ OneMover /\ Apart
  <1>1. (\A t \in Threads : held[t] \cap (heap \cup misfreed \cup Listed \cup Moving) = {})
          <=> Held \cap (heap \cup misfreed \cup Listed \cup Moving) = {}
    <2> DEFINE Elsewhere == heap \cup misfreed \cup Listed \cup Moving
    <2> HIDE DEF Elsewhere
    <2>1. (\A t \in Threads : held[t] \cap Elsewhere = {}) <=> Held \cap Elsewhere = {}
      BY DEF Held
    <2> QED BY <2>1 DEF Elsewhere
  <1> QED BY <1>1 DEF OnePlace, Covering, ListedOnce, OneHolder, OneMover, Apart, Held

-----------------------------------------------------------------------------
(* The places as sets                                                      *)

\* An object that is pushed joins the list, and is on it once.
LEMMA Push ==
  ASSUME list \in Seq(Objects), ListedOnce, NEW o \in Objects, o \notin Listed,
         list' = Append(list, o)
  PROVE  /\ Listed' = Listed \cup {o}
         /\ ListedOnce'
         /\ list' \in Seq(Objects)
         /\ Len(list') = Len(list) + 1
  <1>1. /\ list' \in Seq(Objects)
        /\ Len(list') = Len(list) + 1
        /\ DOMAIN list = 1..Len(list)
        /\ DOMAIN list' = 1..(Len(list) + 1)
        /\ Len(list) \in Nat
    OBVIOUS
  <1>2. \A i \in 1..Len(list) : list'[i] = list[i]
    OBVIOUS
  <1>3. list'[Len(list) + 1] = o
    OBVIOUS
  <1>4. \A i \in DOMAIN list : list[i] # o
    BY DEF Listed
  <1>5. Listed' = Listed \cup {o}
    <2>1. ASSUME NEW x \in Listed' PROVE x \in Listed \cup {o}
      <3>1. PICK i \in DOMAIN list' : list'[i] = x
        BY <2>1 DEF Listed
      <3>2. CASE i \in 1..Len(list)
        BY <3>1, <3>2, <1>1, <1>2 DEF Listed
      <3>3. CASE i = Len(list) + 1
        BY <3>1, <3>3, <1>3
      <3> QED BY <3>1, <3>2, <3>3, <1>1
    <2>2. ASSUME NEW x \in Listed PROVE x \in Listed'
      <3>1. PICK i \in DOMAIN list : list[i] = x
        BY <2>2 DEF Listed
      <3>2. i \in DOMAIN list' /\ list'[i] = x
        BY <3>1, <1>1, <1>2
      <3> QED BY <3>2 DEF Listed
    <2>3. o \in Listed'
      <3>1. Len(list) + 1 \in DOMAIN list'
        BY <1>1
      <3> QED BY <3>1, <1>3 DEF Listed
    <2> QED BY <2>1, <2>2, <2>3
  <1>6. ListedOnce'
    <2> SUFFICES ASSUME NEW i \in DOMAIN list', NEW j \in DOMAIN list', list'[i] = list'[j]
                 PROVE  i = j
      BY DEF ListedOnce
    <2>1. CASE i \in 1..Len(list) /\ j \in 1..Len(list)
      BY <2>1, <1>1, <1>2 DEF ListedOnce
    <2>2. CASE i = Len(list) + 1
      BY <2>2, <1>1, <1>2, <1>3, <1>4
    <2>3. CASE j = Len(list) + 1
      BY <2>3, <1>1, <1>2, <1>3, <1>4
    <2> QED BY <2>1, <2>2, <2>3, <1>1
  <1> QED BY <1>1, <1>5, <1>6

\* The object that is popped leaves it, and is on it no more.
LEMMA Pop ==
  ASSUME list \in Seq(Objects), ListedOnce, list # <<>>,
         list' = SubSeq(list, 1, Len(list) - 1)
  PROVE  /\ list[Len(list)] \in Listed
         /\ list[Len(list)] \in Objects
         /\ Listed' = Listed \ {list[Len(list)]}
         /\ ListedOnce'
         /\ list' \in Seq(Objects)
         /\ Len(list') = Len(list) - 1
  <1>1. /\ Len(list) \in Nat \ {0}
        /\ DOMAIN list = 1..Len(list)
    OBVIOUS
  <1>2. /\ list' \in Seq(Objects)
        /\ Len(list') = Len(list) - 1
        /\ DOMAIN list' = 1..(Len(list) - 1)
    BY <1>1
  <1>3. \A i \in 1..(Len(list) - 1) : list'[i] = list[i]
    BY <1>1
  <1>4. Len(list) \in DOMAIN list /\ list[Len(list)] \in Objects
    BY <1>1
  <1>5. list[Len(list)] \in Listed
    BY <1>4 DEF Listed
  <1>6. Listed' = Listed \ {list[Len(list)]}
    <2>1. ASSUME NEW x \in Listed' PROVE x \in Listed \ {list[Len(list)]}
      <3>1. PICK i \in DOMAIN list' : list'[i] = x
        BY <2>1 DEF Listed
      <3>2. i \in DOMAIN list /\ i # Len(list) /\ list[i] = x
        BY <3>1, <1>1, <1>2, <1>3
      <3>3. x # list[Len(list)]
        BY <3>2, <1>4 DEF ListedOnce
      <3> QED BY <3>2, <3>3 DEF Listed
    <2>2. ASSUME NEW x \in Listed, x # list[Len(list)] PROVE x \in Listed'
      <3>1. PICK i \in DOMAIN list : list[i] = x
        BY <2>2 DEF Listed
      <3>2. i \in DOMAIN list' /\ list'[i] = x
        BY <3>1, <2>2, <1>1, <1>2, <1>3
      <3> QED BY <3>2 DEF Listed
    <2> QED BY <2>1, <2>2
  <1>7. ListedOnce'
    <2> SUFFICES ASSUME NEW i \in DOMAIN list', NEW j \in DOMAIN list', list'[i] = list'[j]
                 PROVE  i = j
      BY DEF ListedOnce
    <2> QED BY <1>1, <1>2, <1>3 DEF ListedOnce
  <1> QED BY <1>2, <1>4, <1>5, <1>6, <1>7

\* An emptied list has nothing on it.
LEMMA Emptied == ASSUME list' = <<>>
                 PROVE  Listed' = {} /\ ListedOnce' /\ list' \in Seq(Objects) /\ Len(list') = 0
  BY DEF Listed, ListedOnce
-----------------------------------------------------------------------------
\* A thread that has nothing on its way takes an object there, and leaves it.
LEMMA Depart ==
  ASSUME TypeOK, OneMover, NEW t \in Threads, obj[t] = NoObject,
         NEW o \in Objects, o \notin Moving, obj' = [obj EXCEPT ![t] = o]
  PROVE  Moving' = Moving \cup {o} /\ OneMover'
  <1>1. obj \in [Threads -> Objects \cup {NoObject}] /\ o # NoObject
    BY CacheAssumption DEF TypeOK
  <1>2. \A u \in Threads : obj'[u] = IF u = t THEN o ELSE obj[u]
    BY <1>1
  <1>3. \A u \in Threads : obj[u] # o
    BY <1>1 DEF Moving
  <1>4. OneMover'
    BY <1>1, <1>2, <1>3 DEF OneMover
  <1>5. ASSUME NEW x \in Moving' PROVE x \in Moving \cup {o}
    <2>1. PICK u \in Threads : obj'[u] = x
      BY <1>5 DEF Moving
    <2> QED BY <2>1, <1>2, <1>5 DEF Moving
  <1>6. ASSUME NEW x \in Moving PROVE x \in Moving'
    <2>1. PICK u \in Threads : obj[u] = x
      BY <1>6 DEF Moving
    <2>2. x # NoObject
      BY <1>6 DEF Moving
    <2>3. obj'[u] = x
      BY <2>1, <2>2, <1>2
    <2> QED BY <2>2, <2>3 DEF Moving
  <1>7. o \in Moving'
    <2>1. obj'[t] = o
      BY <1>2
    <2> QED BY <2>1, <1>1 DEF Moving
  <1> QED BY <1>4, <1>5, <1>6, <1>7

LEMMA Arrive ==
  ASSUME TypeOK, OneMover, NEW t \in Threads, obj[t] \in Objects,
         obj' = [obj EXCEPT ![t] = NoObject]
  PROVE  obj[t] \in Moving /\ Moving' = Moving \ {obj[t]} /\ OneMover'
  <1>1. obj \in [Threads -> Objects \cup {NoObject}] /\ obj[t] # NoObject
    BY CacheAssumption DEF TypeOK
  <1>2. \A u \in Threads : obj'[u] = IF u = t THEN NoObject ELSE obj[u]
    BY <1>1
  <1>3. \A u \in Threads : u # t => obj[u] # obj[t]
    BY <1>1 DEF OneMover
  <1>4. OneMover'
    BY <1>1, <1>2, <1>3 DEF OneMover
  <1>5. ASSUME NEW x \in Moving' PROVE x \in Moving \ {obj[t]}
    <2>1. PICK u \in Threads : obj'[u] = x
      BY <1>5 DEF Moving
    <2>2. x # NoObject
      BY <1>5 DEF Moving
    <2>3. u # t /\ obj[u] = x
      BY <2>1, <2>2, <1>2
    <2> QED BY <2>2, <2>3, <1>3 DEF Moving
  <1>6. ASSUME NEW x \in Moving, x # obj[t] PROVE x \in Moving'
    <2>1. PICK u \in Threads : obj[u] = x
      BY <1>6 DEF Moving
    <2>2. x # NoObject
      BY <1>6 DEF Moving
    <2>3. obj'[u] = x
      BY <2>1, <2>2, <1>2, <1>6
    <2> QED BY <2>2, <2>3 DEF Moving
  <1>7. obj[t] \in Moving
    BY <1>1 DEF Moving
  <1> QED BY <1>4, <1>5, <1>6, <1>7

\* A thread is handed an object that nobody holds, and gives up one that it holds.
LEMMA Take ==
  ASSUME TypeOK, OneHolder, NEW t \in Threads, NEW o \in Objects, o \notin Held,
         held' = [held EXCEPT ![t] = @ \cup {o}]
  PROVE  Held' = Held \cup {o} /\ OneHolder'
  <1>1. held \in [Threads -> SUBSET Objects]
    BY DEF TypeOK
  <1>2. \A u \in Threads : held'[u] = IF u = t THEN held[t] \cup {o} ELSE held[u]
    BY <1>1
  <1>3. \A u \in Threads : o \notin held[u]
    BY DEF Held
  <1>4. OneHolder'
    BY <1>2, <1>3 DEF OneHolder
  <1>5. Held' = Held \cup {o}
    BY <1>2 DEF Held
  <1> QED BY <1>4, <1>5

LEMMA Give ==
  ASSUME TypeOK, OneHolder, NEW t \in Threads, NEW o \in held[t],
         held' = [held EXCEPT ![t] = @ \ {o}]
  PROVE  o \in Held /\ Held' = Held \ {o} /\ OneHolder'
  <1>1. held \in [Threads -> SUBSET Objects]
    BY DEF TypeOK
  <1>2. \A u \in Threads : held'[u] = IF u = t THEN held[t] \ {o} ELSE held[u]
    BY <1>1
  <1>3. \A u \in Threads : u # t => o \notin held[u]
    BY DEF OneHolder
  <1>4. OneHolder'
    BY <1>2 DEF OneHolder
  <1>5. Held' = Held \ {o}
    BY <1>2, <1>3 DEF Held
  <1> QED BY <1>4, <1>5 DEF Held

\* A place whose variables a step leaves alone keeps its objects.
LEMMA SameListed == ASSUME UNCHANGED list, ListedOnce
                    PROVE  Listed' = Listed /\ ListedOnce'
  BY DEF Listed, ListedOnce

LEMMA SameMoving == ASSUME UNCHANGED obj, OneMover
                    PROVE  Moving' = Moving /\ OneMover'
  BY DEF Moving, OneMover

LEMMA SameHeld == ASSUME UNCHANGED held, OneHolder
                  PROVE  Held' = Held /\ OneHolder'
  BY DEF Held, OneHolder

\* No place has anything but objects.
LEMMA PlacesAreObjects ==
  ASSUME TypeOK
  PROVE  /\ Listed \subseteq Objects
         /\ Moving \subseteq Objects
         /\ Held \subseteq Objects
         /\ \A t \in Threads : held[t] \subseteq Held
  <1>1. Listed \subseteq Objects
    <2>1. \A i \in DOMAIN list : list[i] \in Objects
      BY DEF TypeOK
    <2> QED BY <2>1 DEF Listed
  <1>2. Moving \subseteq Objects
    BY DEF TypeOK, Moving
  <1>3. Held \subseteq Objects
    BY DEF TypeOK, Held
  <1> QED BY <1>1, <1>2, <1>3 DEF Held

-----------------------------------------------------------------------------
(* The invariant                                                           *)

\* Every step of the cache is one of its operations.
LEMMA Cases ==
  ASSUME [Next]_vars
  PROVE  \/ AcpiOsCreateCache \/ AcpiOsDeleteCache \/ AcpiOsPurgeCache
         \/ \E t \in Threads :
              \/ AcquireFromList(t) \/ AcquireMiss(t) \/ ClearObject(t) \/ AllocateFails(t)
              \/ FreeObject(t)
              \/ \E o \in Objects :
                   \/ AllocateObject(t, o) \/ ReleaseToList(t, o) \/ ReleaseFull(t, o)
                   \/ ReleaseInvalid(t, o) \/ WriteObject(t, o)
         \/ UNCHANGED vars
  BY DEF Next, AcpiOsAcquireObject, AcpiOsReleaseObject

Sound == TypeOK /\ DepthExact /\ OnItsWay

LEMMA InvInit == Init => Inv
  <1> SUFFICES ASSUME Init PROVE Inv
    OBVIOUS
  <1>1. Listed = {} /\ Moving = {} /\ Held = {}
    BY DEF Init, Listed, Moving, Held
  <1>2. TypeOK /\ DepthExact /\ OnItsWay
    <2>1. list \in Seq(Objects) /\ Len(list) = 0
      BY DEF Init
    <2>2. TypeOK
      <3>1. held \in [Threads -> SUBSET Objects]
        BY DEF Init
      <3>2. pc \in [Threads -> {"idle", "clear", "alloc", "free"}]
        BY DEF Init
      <3>3. obj \in [Threads -> Objects \cup {NoObject}]
        BY DEF Init
      <3>4. live \in BOOLEAN
        BY DEF Init
      <3>5. depth \in 0..MaxDepth
        BY CacheAssumption DEF Init
      <3>6. heap \in SUBSET Objects /\ misfreed \in SUBSET Objects /\ dirty \in SUBSET Objects
        BY DEF Init
      <3> QED BY <2>1, <3>1, <3>2, <3>3, <3>4, <3>5, <3>6 DEF TypeOK
    <2>3. DepthExact
      BY <2>1, CacheAssumption DEF Init, DepthExact
    <2>4. OnItsWay
      BY DEF Init, OnItsWay
    <2> QED BY <2>2, <2>3, <2>4
  <1>3. Covering /\ Apart
    BY <1>1 DEF Init, Covering, Apart
  <1>4. ListedOnce /\ OneHolder /\ OneMover
    BY DEF Init, ListedOnce, OneHolder, OneMover
  <1> QED BY <1>2, <1>3, <1>4, Clauses DEF Inv

\* The types, current_depth, and what a thread's place says of its object.
LEMMA TypesStep ==
  ASSUME Inv, [Next]_vars
  PROVE  Sound'
  <1> USE CacheAssumption
  <1>1. TypeOK /\ DepthExact /\ OnItsWay /\ ListedOnce /\ Len(list) \in Nat
    BY Clauses DEF Inv, TypeOK
  <1>2. Listed \subseteq Objects /\ \A t \in Threads : held[t] \subseteq Objects
    BY <1>1, PlacesAreObjects DEF TypeOK
  <1>3. ASSUME list' = <<>>, depth' = 0, live' \in BOOLEAN, heap' \in SUBSET Objects,
               UNCHANGED <<misfreed, held, dirty, pc, obj>>
        PROVE  Sound'
    <2>1. list' \in Seq(Objects) /\ Len(list') = 0
      BY <1>3, Emptied
    <2> QED BY <1>1, <1>3, <2>1 DEF Sound, TypeOK, DepthExact, OnItsWay
  <1>4. ASSUME NEW t \in Threads, AcquireFromList(t)
        PROVE  Sound'
    <2>1. /\ list[Len(list)] \in Objects
          /\ list' \in Seq(Objects)
          /\ Len(list') = Len(list) - 1
      BY <1>1, <1>4, Pop DEF AcquireFromList, TypeOK
    <2>2. Len(list') \in Nat
      BY <2>1
    <2>3. DepthExact' /\ depth' \in 0..MaxDepth
      BY <1>1, <1>4, <2>1, <2>2 DEF AcquireFromList, DepthExact, TypeOK
    <2>4. TypeOK'
      BY <1>1, <1>4, <2>1, <2>3 DEF AcquireFromList, TypeOK
    <2>5. OnItsWay'
      BY <1>1, <1>4, <2>1 DEF AcquireFromList, TypeOK, OnItsWay
    <2> QED BY <2>3, <2>4, <2>5 DEF Sound
  <1>5. ASSUME NEW t \in Threads, NEW o \in Objects, ReleaseToList(t, o), o \notin Listed
        PROVE  Sound'
    <2>1. list' \in Seq(Objects) /\ Len(list') = Len(list) + 1
      BY <1>1, <1>5, Push DEF ReleaseToList, TypeOK
    <2>2. DepthExact' /\ depth' \in 0..MaxDepth
      BY <1>1, <1>5, <2>1 DEF ReleaseToList, DepthExact, TypeOK
    <2>3. TypeOK'
      BY <1>1, <1>5, <2>1, <2>2 DEF ReleaseToList, TypeOK
    <2>4. OnItsWay'
      BY <1>1, <1>5 DEF ReleaseToList, OnItsWay
    <2> QED BY <2>2, <2>3, <2>4 DEF Sound
  <1>6. ASSUME NEW t \in Threads,
               NEW where \in {"idle", "clear", "alloc", "free"}, NEW x \in Objects \cup {NoObject},
               IF where \in {"clear", "free"} THEN x \in Objects ELSE x = NoObject,
               UNCHANGED <<live, list, depth>>, misfreed' \in SUBSET Objects,
               heap' \in SUBSET Objects, dirty' \in SUBSET Objects,
               held' \in [Threads -> SUBSET Objects],
               pc' = [pc EXCEPT ![t] = where], obj' = [obj EXCEPT ![t] = x]
        PROVE  Sound'
    <2>1. TypeOK'
      BY <1>1, <1>6 DEF TypeOK
    <2>2. DepthExact'
      BY <1>1, <1>6 DEF DepthExact
    <2>3. OnItsWay'
      <3>1. \A u \in Threads : /\ pc'[u] = IF u = t THEN where ELSE pc[u]
                               /\ obj'[u] = IF u = t THEN x ELSE obj[u]
        BY <1>1, <1>6 DEF TypeOK
      <3> QED BY <1>1, <1>6, <3>1 DEF OnItsWay
    <2> QED BY <2>1, <2>2, <2>3 DEF Sound
  <1>7. \A t \in Threads : /\ pc[t] \in {"idle", "alloc"} => obj = [obj EXCEPT ![t] = NoObject]
                           /\ pc = [pc EXCEPT ![t] = pc[t]]
    BY <1>1 DEF OnItsWay, TypeOK
  <1>8. CASE AcpiOsCreateCache
    BY <1>1, <1>3, <1>8 DEF AcpiOsCreateCache, TypeOK
  <1>9. CASE AcpiOsDeleteCache
    BY <1>1, <1>2, <1>3, <1>9 DEF AcpiOsDeleteCache, TypeOK
  <1>10. CASE AcpiOsPurgeCache
    BY <1>1, <1>2, <1>3, <1>10 DEF AcpiOsPurgeCache, TypeOK
  <1>11. ASSUME NEW t \in Threads, AcquireMiss(t)
         PROVE  Sound'
    BY <1>1, <1>6, <1>7, <1>11 DEF AcquireMiss, TypeOK
  <1>12. ASSUME NEW t \in Threads, ClearObject(t)
         PROVE  Sound'
    <2>1. obj[t] \in Objects
      BY <1>1, <1>12 DEF ClearObject, OnItsWay
    <2>2. held' \in [Threads -> SUBSET Objects] /\ dirty' \in SUBSET Objects
      BY <1>1, <1>12, <2>1 DEF ClearObject, TypeOK
    <2> QED BY <1>1, <1>6, <1>12, <2>2 DEF ClearObject, TypeOK
  <1>13. ASSUME NEW t \in Threads, AllocateFails(t)
         PROVE  Sound'
    BY <1>1, <1>6, <1>7, <1>13 DEF AllocateFails, TypeOK
  <1>14. ASSUME NEW t \in Threads, FreeObject(t)
         PROVE  Sound'
    <2>1. obj[t] \in Objects
      BY <1>1, <1>14 DEF FreeObject, OnItsWay
    <2> QED BY <1>1, <1>6, <1>14, <2>1 DEF FreeObject, TypeOK
  <1>15. ASSUME NEW t \in Threads, NEW o \in Objects, AllocateObject(t, o)
         PROVE  Sound'
    <2>1. held' \in [Threads -> SUBSET Objects] /\ dirty' \in SUBSET Objects
      BY <1>1, <1>15 DEF AllocateObject, TypeOK
    <2> QED BY <1>1, <1>6, <1>7, <1>15, <2>1 DEF AllocateObject, TypeOK
  <1>16. ASSUME NEW t \in Threads, NEW o \in Objects, ReleaseToList(t, o)
         PROVE  Sound'
    <2>1. o \in Held /\ Apart
      BY <1>16, Clauses DEF Inv, ReleaseToList, Held
    <2>2. o \notin Listed
      BY <2>1 DEF Apart
    <2> QED BY <1>5, <1>16, <2>2
  <1>17. ASSUME NEW t \in Threads, NEW o \in Objects, ReleaseFull(t, o)
         PROVE  Sound'
    <2>1. held' \in [Threads -> SUBSET Objects]
      BY <1>1, <1>17 DEF ReleaseFull, TypeOK
    <2> QED BY <1>1, <1>6, <1>17, <2>1 DEF ReleaseFull, TypeOK
  <1>18. ASSUME NEW t \in Threads, NEW o \in Objects, ReleaseInvalid(t, o)
         PROVE  Sound'
    <2>1. held' \in [Threads -> SUBSET Objects] /\ misfreed' \in SUBSET Objects
      BY <1>1, <1>18 DEF ReleaseInvalid, TypeOK
    <2> QED BY <1>1, <1>6, <1>7, <1>18, <2>1 DEF ReleaseInvalid, TypeOK
  <1>19. ASSUME NEW t \in Threads, NEW o \in Objects, WriteObject(t, o)
         PROVE  Sound'
    BY <1>1, <1>6, <1>7, <1>19 DEF WriteObject, TypeOK
  <1>20. CASE UNCHANGED vars
    BY <1>1, <1>20 DEF vars, Sound, TypeOK, DepthExact, OnItsWay
  <1>21. CASE \E t \in Threads, o \in Objects :
                   \/ AllocateObject(t, o) \/ ReleaseToList(t, o) \/ ReleaseFull(t, o)
                   \/ ReleaseInvalid(t, o) \/ WriteObject(t, o)
    BY <1>15, <1>16, <1>17, <1>18, <1>19, <1>21
  <1>22. CASE \E t \in Threads :
                   \/ AcquireFromList(t) \/ AcquireMiss(t) \/ ClearObject(t) \/ AllocateFails(t)
                   \/ FreeObject(t)
    BY <1>4, <1>11, <1>12, <1>13, <1>14, <1>22
  <1> QED BY <1>8, <1>9, <1>10, <1>20, <1>21, <1>22, Cases

\* No step puts an object in two places or in none.
LEMMA PlaceStep ==
  ASSUME Inv, [Next]_vars
  PROVE  OnePlace'
  <1> DEFINE Ok == Covering /\ Apart /\ ListedOnce /\ OneHolder /\ OneMover
  <1>1. SUFFICES Ok'
    BY Clauses DEF OnePlace, Covering, ListedOnce, OneHolder, OneMover, Apart, Held, Listed, Moving
  <1>2. TypeOK /\ OnItsWay /\ Covering /\ Apart /\ ListedOnce /\ OneHolder /\ OneMover
    BY Clauses DEF Inv
  <1>3. /\ Listed \subseteq Objects /\ Moving \subseteq Objects /\ Held \subseteq Objects
        /\ \A t \in Threads : held[t] \subseteq Held
    BY <1>2, PlacesAreObjects
  <1>4. ASSUME list' = <<>>, heap' = heap \cup Listed, UNCHANGED <<misfreed, held, obj>>
        PROVE  Ok'
    <2>1. Listed' = {} /\ ListedOnce'
      BY <1>4, Emptied
    <2>2. Moving' = Moving /\ OneMover'
      BY <1>2, <1>4, SameMoving
    <2>3. Held' = Held /\ OneHolder'
      BY <1>2, <1>4, SameHeld
    <2> QED BY <1>2, <1>4, <2>1, <2>2, <2>3 DEF Covering, Apart
  <1>5. CASE AcpiOsCreateCache
    <2>1. list = <<>>
      BY <1>5 DEF Inv, DepthExact, AcpiOsCreateCache
    <2>2. Listed = {}
      BY <2>1 DEF Listed
    <2> QED BY <1>4, <1>5, <2>2 DEF AcpiOsCreateCache
  <1>6. CASE AcpiOsDeleteCache
    BY <1>4, <1>6 DEF AcpiOsDeleteCache
  <1>7. CASE AcpiOsPurgeCache
    BY <1>4, <1>7 DEF AcpiOsPurgeCache
  <1>8. ASSUME NEW t \in Threads, AcquireFromList(t) PROVE Ok'
    <2> DEFINE o == list[Len(list)]
    <2>1. o \in Listed /\ o \in Objects /\ Listed' = Listed \ {o} /\ ListedOnce'
      BY <1>2, <1>8, Pop DEF AcquireFromList, TypeOK
    <2>2. obj[t] = NoObject /\ obj' = [obj EXCEPT ![t] = o] /\ o \notin Moving
      BY <1>2, <1>8, <2>1 DEF AcquireFromList, OnItsWay, Apart
    <2> HIDE DEF o
    <2>3. Moving' = Moving \cup {o} /\ OneMover'
      BY <1>2, <2>1, <2>2, Depart
    <2>4. Held' = Held /\ OneHolder'
      BY <1>2, <1>8, SameHeld DEF AcquireFromList
    <2>5. UNCHANGED <<heap, misfreed>>
      BY <1>8 DEF AcquireFromList
    <2> QED BY <1>2, <2>1, <2>3, <2>4, <2>5 DEF Covering, Apart
  <1>9. ASSUME NEW t \in Threads, AcquireMiss(t) \/ AllocateFails(t) PROVE Ok'
    <2>1. UNCHANGED <<list, obj, held, heap, misfreed>>
      BY <1>9 DEF AcquireMiss, AllocateFails
    <2> QED BY <1>2, <2>1, SameListed, SameMoving, SameHeld DEF Covering, Apart
  <1>10. ASSUME NEW t \in Threads, ClearObject(t) PROVE Ok'
    <2>1. obj[t] \in Objects
      BY <1>2, <1>10 DEF ClearObject, OnItsWay
    <2>2. obj[t] \in Moving /\ Moving' = Moving \ {obj[t]} /\ OneMover'
      BY <1>2, <1>10, <2>1, Arrive DEF ClearObject
    <2>3. obj[t] \notin Held
      BY <1>2, <2>2 DEF Apart
    <2>4. Held' = Held \cup {obj[t]} /\ OneHolder'
      BY <1>2, <1>10, <2>1, <2>3, Take DEF ClearObject
    <2>5. Listed' = Listed /\ ListedOnce' /\ UNCHANGED <<heap, misfreed>>
      BY <1>2, <1>10, SameListed DEF ClearObject
    <2> QED BY <1>2, <2>2, <2>4, <2>5 DEF Covering, Apart
  <1>11. ASSUME NEW t \in Threads, FreeObject(t) PROVE Ok'
    <2>1. obj[t] \in Objects
      BY <1>2, <1>11 DEF FreeObject, OnItsWay
    <2>2. obj[t] \in Moving /\ Moving' = Moving \ {obj[t]} /\ OneMover'
      BY <1>2, <1>11, <2>1, Arrive DEF FreeObject
    <2>3. Held' = Held /\ OneHolder'
      BY <1>2, <1>11, SameHeld DEF FreeObject
    <2>4. Listed' = Listed /\ ListedOnce' /\ heap' = heap \cup {obj[t]} /\ misfreed' = misfreed
      BY <1>2, <1>11, SameListed DEF FreeObject
    <2> QED BY <1>2, <2>2, <2>3, <2>4 DEF Covering, Apart
  <1>12. ASSUME NEW t \in Threads, NEW o \in Objects, AllocateObject(t, o) PROVE Ok'
    <2>1. o \in heap /\ heap' = heap \ {o} /\ misfreed' = misfreed
      BY <1>12 DEF AllocateObject
    <2>2. o \notin Held
      BY <1>2, <2>1 DEF Apart
    <2>3. Held' = Held \cup {o} /\ OneHolder'
      BY <1>2, <1>12, <2>2, Take DEF AllocateObject
    <2>4. Listed' = Listed /\ ListedOnce' /\ Moving' = Moving /\ OneMover'
      BY <1>2, <1>12, SameListed, SameMoving DEF AllocateObject
    <2> QED BY <1>2, <2>1, <2>3, <2>4 DEF Covering, Apart
  <1>13. ASSUME NEW t \in Threads, NEW o \in Objects, ReleaseToList(t, o) PROVE Ok'
    <2>1. o \in held[t] /\ o \in Held
      BY <1>3, <1>13 DEF ReleaseToList
    <2>2. Held' = Held \ {o} /\ OneHolder'
      BY <1>2, <1>13, <2>1, Give DEF ReleaseToList
    <2>3. o \notin Listed
      BY <1>2, <2>1 DEF Apart
    <2>4. Listed' = Listed \cup {o} /\ ListedOnce'
      BY <1>2, <1>13, <2>3, Push DEF ReleaseToList, TypeOK
    <2>5. Moving' = Moving /\ OneMover' /\ UNCHANGED <<heap, misfreed>>
      BY <1>2, <1>13, SameMoving DEF ReleaseToList
    <2> QED BY <1>2, <2>1, <2>2, <2>4, <2>5 DEF Covering, Apart
  <1>14. ASSUME NEW t \in Threads, NEW o \in Objects, ReleaseFull(t, o) PROVE Ok'
    <2>1. o \in held[t] /\ o \in Held /\ obj[t] = NoObject
      BY <1>2, <1>3, <1>14 DEF ReleaseFull, OnItsWay
    <2>2. Held' = Held \ {o} /\ OneHolder'
      BY <1>2, <1>14, <2>1, Give DEF ReleaseFull
    <2>3. o \notin Moving
      BY <1>2, <2>1 DEF Apart
    <2>4. Moving' = Moving \cup {o} /\ OneMover'
      BY <1>2, <1>14, <2>1, <2>3, Depart DEF ReleaseFull
    <2>5. Listed' = Listed /\ ListedOnce' /\ UNCHANGED <<heap, misfreed>>
      BY <1>2, <1>14, SameListed DEF ReleaseFull
    <2> QED BY <1>2, <2>1, <2>2, <2>4, <2>5 DEF Covering, Apart
  <1>15. ASSUME NEW t \in Threads, NEW o \in Objects, ReleaseInvalid(t, o) PROVE Ok'
    <2>1. o \in held[t] /\ o \in Held
      BY <1>3, <1>15 DEF ReleaseInvalid
    <2>2. Held' = Held \ {o} /\ OneHolder'
      BY <1>2, <1>15, <2>1, Give DEF ReleaseInvalid
    <2>3. Listed' = Listed /\ ListedOnce' /\ Moving' = Moving /\ OneMover'
      BY <1>2, <1>15, SameListed, SameMoving DEF ReleaseInvalid
    <2>4. misfreed' = misfreed \cup {o} /\ heap' = heap
      BY <1>15 DEF ReleaseInvalid
    <2> QED BY <1>2, <2>1, <2>2, <2>3, <2>4 DEF Covering, Apart
  <1>16. ASSUME UNCHANGED <<list, obj, held, heap, misfreed>> PROVE Ok'
    BY <1>2, <1>16, SameListed, SameMoving, SameHeld DEF Covering, Apart
  <1>17. CASE UNCHANGED vars
    BY <1>16, <1>17 DEF vars
  <1>18. ASSUME NEW t \in Threads, NEW o \in Objects, WriteObject(t, o) PROVE Ok'
    BY <1>16, <1>18 DEF WriteObject
  <1>19. CASE \E t \in Threads, o \in Objects :
                   \/ AllocateObject(t, o) \/ ReleaseToList(t, o) \/ ReleaseFull(t, o)
                   \/ ReleaseInvalid(t, o) \/ WriteObject(t, o)
    <2> HIDE DEF Ok
    <2> QED BY <1>12, <1>13, <1>14, <1>15, <1>18, <1>19
  <1>20. CASE \E t \in Threads :
                   \/ AcquireFromList(t) \/ AcquireMiss(t) \/ ClearObject(t) \/ AllocateFails(t)
                   \/ FreeObject(t)
    <2> HIDE DEF Ok
    <2> QED BY <1>8, <1>9, <1>10, <1>11, <1>20
  <1> HIDE DEF Ok
  <1> QED BY <1>5, <1>6, <1>7, <1>17, <1>19, <1>20, Cases

LEMMA InvAlways == Spec => []Inv
  <1>1. Inv /\ [Next]_vars => Inv'
    BY TypesStep, PlaceStep DEF Inv, Sound
  <1> QED BY InvInit, <1>1, PTL DEF Spec

-----------------------------------------------------------------------------
\* The variables of the cache keep their types, in particular the list is one of
\* objects and each thread outside the lock is at a point of the code it may be at.
THEOREM TypeCorrect == Spec => []TypeOK
  <1>1. Inv => TypeOK
    BY DEF Inv
  <1> QED BY InvAlways, <1>1, PTL

\* Whatever the threads do with the cache, every piece of memory is in one place:
\* AcpiOsAcquireObject and AcpiOsReleaseObject leak nothing, free nothing twice and
\* hand no object to two threads, also when both are outside the lock.
THEOREM NothingLost == Spec => []OnePlace
  <1>1. Inv => OnePlace
    BY DEF Inv
  <1> QED BY InvAlways, <1>1, PTL

\* current_depth is the length of the list, which is within max_depth, whichever of
\* the acquisitions, releases and purges changed it last.
THEOREM DepthCorrect == Spec => []DepthExact
  <1>1. Inv => DepthExact
    BY DEF Inv
  <1> QED BY InvAlways, <1>1, PTL

-----------------------------------------------------------------------------
(* The cache implements ObjectPool                                         *)

\* The owner of an object is the one thread that holds it, or nobody.
LEMMA OwnerIs ==
  ASSUME OneHolder, NEW o \in Objects
  PROVE  /\ \A t \in Threads : o \in held[t] => Owner[o] = t
         /\ o \notin Held => Owner[o] = NoThread
         /\ o \in Held => Owner[o] \in Threads
  <1>1. Owner[o] = IF \E t \in Threads : o \in held[t]
                   THEN CHOOSE t \in Threads : o \in held[t]
                   ELSE NoThread
    BY DEF Owner
  <1>2. ASSUME NEW t \in Threads, o \in held[t] PROVE Owner[o] = t
    <2> DEFINE u == CHOOSE v \in Threads : o \in held[v]
    <2>1. u \in Threads /\ o \in held[u]
      BY <1>2
    <2>2. Owner[o] = u
      BY <1>1, <1>2
    <2>3. u = t
      BY <1>2, <2>1 DEF OneHolder
    <2> QED BY <2>2, <2>3
  <1>3. ASSUME o \notin Held PROVE Owner[o] = NoThread
    <2>1. ~\E t \in Threads : o \in held[t]
      BY <1>3 DEF Held
    <2> QED BY <1>1, <2>1
  <1>4. ASSUME o \in Held PROVE Owner[o] \in Threads
    <2>1. \E t \in Threads : o \in held[t]
      BY <1>4 DEF Held
    <2> QED BY <1>2, <2>1
  <1> QED BY <1>2, <1>3, <1>4

\* The same after a step.
LEMMA OwnerBecomes ==
  ASSUME OneHolder', NEW o \in Objects
  PROVE  /\ \A t \in Threads : o \in held'[t] => Owner'[o] = t
         /\ o \notin Held' => Owner'[o] = NoThread
  <1>1. Owner'[o] = IF \E t \in Threads : o \in held'[t]
                    THEN CHOOSE t \in Threads : o \in held'[t]
                    ELSE NoThread
    BY DEF Owner
  <1>2. ASSUME NEW t \in Threads, o \in held'[t] PROVE Owner'[o] = t
    <2>1. PICK u : u = CHOOSE v \in Threads : o \in held'[v]
      OBVIOUS
    <2>2. u \in Threads /\ o \in held'[u]
      BY <1>2, <2>1
    <2>3. Owner'[o] = u
      BY <1>1, <1>2, <2>1
    <2>4. u = t
      BY <1>2, <2>2 DEF OneHolder
    <2> QED BY <2>3, <2>4
  <1>3. ASSUME o \notin Held' PROVE Owner'[o] = NoThread
    <2>1. ~\E t \in Threads : o \in held'[t]
      BY <1>3 DEF Held
    <2> QED BY <1>1, <2>1
  <1> QED BY <1>2, <1>3

\* An object is in use for the pool when somebody holds it and it has been written.
LEMMA UsedIs == Inv => Used = dirty \cap Held
  <1> SUFFICES ASSUME Inv PROVE Used = dirty \cap Held
    OBVIOUS
  <1>1. OneHolder /\ dirty \subseteq Objects /\ Held \subseteq Objects
    BY Clauses, PlacesAreObjects DEF Inv, TypeOK
  <1>2. ASSUME NEW o \in Objects PROVE Owner[o] # NoThread <=> o \in Held
    BY <1>1, OwnerIs, CacheAssumption
  <1> QED BY <1>1, <1>2 DEF Used

LEMMA UsedBecomes == Inv' => Used' = dirty' \cap Held'
  <1>1. (Inv => Used = dirty \cap Held)'
    BY UsedIs, PTL
  <1> QED BY <1>1

\* An object is handed out: the pool's Acquire, if it is clean by then.
LEMMA HandedOut ==
  ASSUME Inv, Inv', NEW t \in Threads, NEW o \in Objects, o \notin Held,
         held' = [held EXCEPT ![t] = @ \cup {o}], dirty' = dirty \ {o}
  PROVE  Pool!Acquire(t, o)
  <1>1. TypeOK /\ OneHolder /\ OneHolder' /\ dirty \subseteq Objects
    <2>1. (Inv => OneHolder)'
      BY Clauses, PTL DEF Inv
    <2> QED BY <2>1, Clauses DEF Inv, TypeOK
  <1>2. Held' = Held \cup {o}
    BY <1>1, Take
  <1>3. \A u \in Threads : held'[u] = IF u = t THEN held[t] \cup {o} ELSE held[u]
    BY <1>1 DEF TypeOK
  <1>4. Owner'[o] = t
    BY <1>1, <1>3, OwnerBecomes
  <1>5. ASSUME NEW x \in Objects, x # o PROVE Owner'[x] = Owner[x]
    <2>1. CASE x \in Held
      <3>1. PICK u \in Threads : x \in held[u]
        BY <2>1 DEF Held
      <3>2. x \in held'[u]
        BY <3>1, <1>3
      <3> QED BY <3>1, <3>2, <1>1, OwnerIs, OwnerBecomes
    <2>2. CASE x \notin Held
      BY <2>2, <1>1, <1>2, <1>5, OwnerIs, OwnerBecomes
    <2> QED BY <2>1, <2>2
  <1>6. Owner' = [Owner EXCEPT ![o] = t]
    <2> DEFINE h == [Owner EXCEPT ![o] = t]
    <2>1. /\ DOMAIN Owner = Objects /\ DOMAIN Owner' = Objects
          /\ Owner = [x \in Objects |-> Owner[x]]
          /\ Owner' = [x \in Objects |-> Owner'[x]]
      BY DEF Owner
    <2>2. \A x \in Objects : Owner'[x] = IF x = o THEN t ELSE Owner[x]
      BY <1>4, <1>5
    <2>3. h = [x \in Objects |-> IF x = o THEN t ELSE Owner[x]]
      BY <2>1
    <2> HIDE DEF h
    <2>4. Owner' = h
      BY <2>1, <2>2, <2>3
    <2> QED BY <2>4 DEF h
  <1>7. Owner[o] = NoThread
    BY <1>1, OwnerIs
  <1>8. Used' = Used
    BY <1>2, UsedIs, UsedBecomes
  <1> QED BY <1>6, <1>7, <1>8 DEF Pool!Acquire

\* An object is given back: the pool's Release.
LEMMA GivenBack ==
  ASSUME Inv, Inv', NEW t \in Threads, NEW o \in held[t],
         held' = [held EXCEPT ![t] = @ \ {o}], dirty' = dirty
  PROVE  o \in Objects /\ Pool!Release(t, o)
  <1>1. TypeOK /\ OneHolder /\ OneHolder' /\ o \in Objects
    <2>1. (Inv => OneHolder)'
      BY Clauses, PTL DEF Inv
    <2> QED BY <2>1, Clauses DEF Inv, TypeOK
  <1>2. Held' = Held \ {o} /\ o \in Held
    BY <1>1, Give
  <1>3. \A u \in Threads : held'[u] = IF u = t THEN held[t] \ {o} ELSE held[u]
    BY <1>1 DEF TypeOK
  <1>4. Owner[o] = t /\ Owner'[o] = NoThread
    BY <1>1, <1>2, OwnerIs, OwnerBecomes
  <1>5. ASSUME NEW x \in Objects, x # o PROVE Owner'[x] = Owner[x]
    <2>1. CASE x \in Held
      <3>1. PICK u \in Threads : x \in held[u]
        BY <2>1 DEF Held
      <3>2. x \in held'[u]
        BY <3>1, <1>3, <1>5
      <3> QED BY <3>1, <3>2, <1>1, OwnerIs, OwnerBecomes
    <2>2. CASE x \notin Held
      BY <2>2, <1>1, <1>2, OwnerIs, OwnerBecomes
    <2> QED BY <2>1, <2>2
  <1>6. Owner' = [Owner EXCEPT ![o] = NoThread]
    <2> DEFINE h == [Owner EXCEPT ![o] = NoThread]
    <2>1. /\ DOMAIN Owner = Objects /\ DOMAIN Owner' = Objects
          /\ Owner = [x \in Objects |-> Owner[x]]
          /\ Owner' = [x \in Objects |-> Owner'[x]]
      BY DEF Owner
    <2>2. \A x \in Objects : Owner'[x] = IF x = o THEN NoThread ELSE Owner[x]
      BY <1>4, <1>5
    <2>3. h = [x \in Objects |-> IF x = o THEN NoThread ELSE Owner[x]]
      BY <2>1
    <2> HIDE DEF h
    <2>4. Owner' = h
      BY <2>1, <2>2, <2>3
    <2> QED BY <2>4 DEF h
  <1>7. Used' = Used \ {o}
    BY <1>2, UsedIs, UsedBecomes
  <1> QED BY <1>1, <1>4, <1>6, <1>7 DEF Pool!Release

\* A step that changes no thread's objects changes no owner.
LEMMA KeptByAll == ASSUME UNCHANGED held
                   PROVE  Owner' = Owner
  BY DEF Owner

\* Each step of the cache is one of the pool, or one that the pool does not see.
LEMMA StepImplements ==
  ASSUME Inv, Inv', [Next]_vars
  PROVE  [Pool!Next]_(Pool!poolVars)
  <1> DEFINE Seen == Pool!Next \/ UNCHANGED Pool!poolVars
  <1> SUFFICES Seen
    OBVIOUS
  <1>1. OnItsWay /\ Apart /\ OneHolder /\ dirty \subseteq Objects
    BY Clauses DEF Inv, TypeOK
  <1>2. ASSUME NEW t \in Threads, NEW o \in Objects,
               Pool!Acquire(t, o) \/ Pool!Write(t, o) \/ Pool!Release(t, o)
        PROVE  Seen
    BY <1>2 DEF Pool!Next
  <1>3. ASSUME UNCHANGED <<held, dirty>> PROVE Seen
    <2>1. Owner' = Owner
      BY <1>3, KeptByAll
    <2>2. Used' = Used
      BY <1>3, <2>1 DEF Used
    <2> QED BY <2>1, <2>2 DEF Pool!poolVars
  <1> HIDE DEF Seen
  <1>4. ASSUME NEW t \in Threads, ClearObject(t) PROVE Seen
    <2>1. obj[t] \in Objects
      BY <1>1, <1>4 DEF ClearObject, OnItsWay
    <2>2. obj[t] \in Moving
      BY <2>1, CacheAssumption DEF Moving
    <2>3. obj[t] \notin Held
      BY <1>1, <2>2 DEF Apart
    <2>4. Pool!Acquire(t, obj[t])
      BY <1>4, <2>1, <2>3, HandedOut DEF ClearObject
    <2> QED BY <1>2, <2>1, <2>4
  <1>5. ASSUME NEW t \in Threads, NEW o \in Objects, AllocateObject(t, o) PROVE Seen
    <2>1. o \notin Held
      BY <1>1, <1>5 DEF AllocateObject, Apart
    <2>2. Pool!Acquire(t, o)
      BY <1>5, <2>1, HandedOut DEF AllocateObject
    <2> QED BY <1>2, <2>2
  <1>6. ASSUME NEW t \in Threads, NEW o \in Objects,
               ReleaseToList(t, o) \/ ReleaseFull(t, o) \/ ReleaseInvalid(t, o)
        PROVE  Seen
    <2>1. o \in held[t] /\ held' = [held EXCEPT ![t] = @ \ {o}] /\ dirty' = dirty
      BY <1>6 DEF ReleaseToList, ReleaseFull, ReleaseInvalid
    <2>2. Pool!Release(t, o)
      BY <2>1, GivenBack
    <2> QED BY <1>2, <2>2
  <1>7. ASSUME NEW t \in Threads, NEW o \in Objects, WriteObject(t, o) PROVE Seen
    <2>1. o \in held[t] /\ held' = held /\ dirty' = dirty \cup {o}
      BY <1>7 DEF WriteObject
    <2>2. Owner' = Owner /\ Owner[o] = t
      BY <1>1, <2>1, KeptByAll, OwnerIs
    <2>3. o \in Held /\ Held' = Held
      BY <2>1 DEF Held
    <2>4. Used' = Used \cup {o}
      BY <2>1, <2>3, UsedIs, UsedBecomes
    <2>5. Pool!Write(t, o)
      BY <2>2, <2>4 DEF Pool!Write
    <2> QED BY <1>2, <2>5
  <1>8. ASSUME AcpiOsCreateCache \/ AcpiOsDeleteCache \/ AcpiOsPurgeCache PROVE Seen
    BY <1>3, <1>8 DEF AcpiOsCreateCache, AcpiOsDeleteCache, AcpiOsPurgeCache
  <1>9. ASSUME NEW t \in Threads,
               AcquireFromList(t) \/ AcquireMiss(t) \/ AllocateFails(t) \/ FreeObject(t)
        PROVE  Seen
    BY <1>3, <1>9 DEF AcquireFromList, AcquireMiss, AllocateFails, FreeObject
  <1>10. CASE UNCHANGED vars
    BY <1>3, <1>10 DEF vars
  <1>11. CASE \E t \in Threads, o \in Objects :
                   \/ AllocateObject(t, o) \/ ReleaseToList(t, o) \/ ReleaseFull(t, o)
                   \/ ReleaseInvalid(t, o) \/ WriteObject(t, o)
    BY <1>5, <1>6, <1>7, <1>11
  <1>12. CASE \E t \in Threads :
                   \/ AcquireFromList(t) \/ AcquireMiss(t) \/ ClearObject(t) \/ AllocateFails(t)
                   \/ FreeObject(t)
    BY <1>4, <1>9, <1>12
  <1> QED BY <1>8, <1>10, <1>11, <1>12, Cases

\* For its callers the cache is a pool without a list: an object that
\* AcpiOsAcquireObject returns is nobody else's and all zero, wherever it comes
\* from, and it is the caller's until AcpiOsReleaseObject.
THEOREM CacheImplementsPool == Spec => ImplementsPool
  <1>1. Init => Pool!Init
    <2> SUFFICES ASSUME Init PROVE Pool!Init
      OBVIOUS
    <2>1. \A t \in Threads : held[t] = {}
      BY DEF Init
    <2>2. Owner = [o \in Objects |-> NoThread]
      <3>1. \A o \in Objects : ~\E t \in Threads : o \in held[t]
        BY <2>1
      <3> QED BY <3>1 DEF Owner
    <2>3. Used = {}
      BY <2>1, InvInit, UsedIs DEF Held
    <2> QED BY <2>2, <2>3 DEF Pool!Init
  <1>2. Inv /\ Inv' /\ [Next]_vars => [Pool!Next]_(Pool!poolVars)
    BY StepImplements
  <1> QED BY <1>1, <1>2, InvAlways, PTL DEF Spec, ImplementsPool, Pool!Spec
=============================================================================
