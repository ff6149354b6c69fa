------------------------- MODULE AcpiOsExecuteProofs -------------------------
(***************************************************************************)
(* Theorems of AcpiOsExecute, for any finite set of threads and any bounds *)
(* on the nesting of executions and on the length of a wait.               *)
(***************************************************************************)
EXTENDS AcpiOsExecute, FiniteSetTheorems, TLAPS

\* The calls whose stage, in f, is one of S.
InStages(f, S) == {c \in Calls : f[c] \in S}

CountedStages == {"gate", "callback", "uncount", "failed"}
GatedStages   == {"callback", "uncount", "exit"}

\* There are finitely many calls.
LEMMA CallsFinite == IsFiniteSet(Calls)
<1>1. IsFiniteSet(1..MaxDepth)
  BY FS_Interval, ExecuteAssumption
<1> QED  BY <1>1, FS_Product, ExecuteAssumption DEF Calls

\* The number of calls in a set of stages is a number.
LEMMA StagesCardinality ==
  ASSUME NEW f, NEW S
  PROVE  IsFiniteSet(InStages(f, S)) /\ Cardinality(InStages(f, S)) \in Nat
<1>1. IsFiniteSet(InStages(f, S))
  BY CallsFinite, FS_Subset DEF InStages
<1> QED  BY <1>1, FS_CardinalityType

\* A call that moves inside a set of stages, or outside it, leaves the set alone.
LEMMA SameStages ==
  ASSUME stage \in [Calls -> Stage], NEW c \in Calls, NEW from, NEW to, NEW S,
         Move(c, from, to), from \in S <=> to \in S
  PROVE  InStages(stage', S) = InStages(stage, S)
BY DEF InStages, Move

\* A call that moves into a set of stages adds one to the calls in it.
LEMMA EnterStages ==
  ASSUME stage \in [Calls -> Stage], NEW c \in Calls, NEW from, NEW to, NEW S,
         Move(c, from, to), from \notin S, to \in S
  PROVE  Cardinality(InStages(stage', S)) = Cardinality(InStages(stage, S)) + 1
<1>1. InStages(stage', S) = InStages(stage, S) \cup {c}
  BY DEF InStages, Move
<1>2. c \notin InStages(stage, S)
  BY DEF InStages, Move
<1> QED  BY <1>1, <1>2, StagesCardinality, FS_AddElement

\* A call that leaves a set of stages was one of those in it.
LEMMA LeaveStages ==
  ASSUME stage \in [Calls -> Stage], NEW c \in Calls, NEW from, NEW to, NEW S,
         Move(c, from, to), from \in S, to \notin S
  PROVE  /\ Cardinality(InStages(stage, S)) > 0
         /\ Cardinality(InStages(stage', S)) = Cardinality(InStages(stage, S)) - 1
<1>1. InStages(stage', S) = InStages(stage, S) \ {c}
  BY DEF InStages, Move
<1>2. c \in InStages(stage, S)
  BY DEF InStages, Move
<1>3. Cardinality(InStages(stage, S)) # 0
  BY <1>2, StagesCardinality, FS_EmptySet
<1>4. Cardinality(InStages(stage, S) \ {c}) = Cardinality(InStages(stage, S)) - 1
  BY <1>2, StagesCardinality, FS_RemoveElement
<1>5. Cardinality(InStages(stage, S)) > 0
  BY <1>3, StagesCardinality
<1> QED  BY <1>1, <1>4, <1>5

-----------------------------------------------------------------------------
(* Type correctness                                                        *)

\* What a wait in progress knows of its own loop and of the thread inside it.
WaitInv ==
    /\ waitPc \in {"poll", "sleep"} => polls < MaxPolls
    /\ waitPc # "idle" => waiter \in Threads
    /\ waitPc # "idle" => \/ Idle(waiter)
                          \/ \E l \in 1..MaxDepth : stage[<<waiter, l>>] = "callback"
    /\ waitPc = "idle" => waiter = NoThread

\* A step of a call moves that call, of a thread that does not wait, to another
\* stage, and leaves the wait alone.
LEMMA CallStepEffect ==
  ASSUME NEW c \in Calls, CallStep(c)
  PROVE  /\ waiter # c[1]
         /\ \E to \in Stage : stage' = [stage EXCEPT ![c] = to]
         /\ UNCHANGED waitVars
         /\ UNCHANGED osl
<1> USE DEF Move, Innermost, Stage
<1>1. CASE AcpiOsExtExecute(c)  BY <1>1 DEF AcpiOsExtExecute
<1>2. CASE EnterGate(c)         BY <1>2 DEF EnterGate
<1>3. CASE RunActionFails(c)    BY <1>3 DEF RunActionFails
<1>4. CASE CallbackReturn(c)    BY <1>4 DEF CallbackReturn
<1>5. CASE CountExecution(c)    BY <1>5 DEF CountExecution
<1>6. CASE ExecuteNoMemory(c)   BY <1>6 DEF ExecuteNoMemory
<1>7. CASE UncountFailed(c)     BY <1>7 DEF UncountFailed
<1>8. CASE Uncount(c)           BY <1>8 DEF Uncount
<1>9. CASE LeaveGate(c)         BY <1>9 DEF LeaveGate
<1> QED
  BY <1>1, <1>2, <1>3, <1>4, <1>5, <1>6, <1>7, <1>8, <1>9 DEF CallStep, Advance

\* The gate counts the calls inside it, so it is only left by a call it counted.
GateCounts == gateCount = Cardinality(InStages(stage, GatedStages))

\* The gate's count follows the calls that enter and leave it.
LEMMA CallStepGate ==
  ASSUME TypeOK, GateCounts, NEW c \in Calls, CallStep(c)
  PROVE  GateCounts' /\ gateCount' \in Nat
<1> USE DEF GateCounts
<1>1. stage \in [Calls -> Stage] /\ gateCount \in Nat
  BY DEF TypeOK
<1>2. /\ "none" \notin GatedStages /\ "entry" \notin GatedStages
      /\ "gate" \notin GatedStages /\ "failed" \notin GatedStages
      /\ "callback" \in GatedStages /\ "uncount" \in GatedStages /\ "exit" \in GatedStages
  BY DEF GatedStages
<1>3. CASE EnterGate(c)
  <2>1. Move(c, "gate", "callback") /\ gateCount' = gateCount + 1
    BY <1>3 DEF EnterGate
  <2> QED  BY <2>1, <1>1, <1>2, EnterStages
<1>4. CASE LeaveGate(c)
  <2>1. Move(c, "exit", "none") /\ gateCount' = gateCount - 1
    BY <1>4 DEF LeaveGate
  <2>2. /\ Cardinality(InStages(stage, GatedStages)) > 0
        /\ Cardinality(InStages(stage', GatedStages))
             = Cardinality(InStages(stage, GatedStages)) - 1
    BY <2>1, <1>1, <1>2, LeaveStages
  <2> QED  BY <2>1, <2>2, <1>1
<1>5. CASE ~(EnterGate(c) \/ LeaveGate(c))
  <2>1. UNCHANGED gateCount
    BY <1>5 DEF CallStep, Advance, AcpiOsExtExecute, ExecuteNoMemory, CountExecution,
       RunActionFails, UncountFailed, CallbackReturn, Uncount
  <2>2. \/ Move(c, "none", "entry") \/ Move(c, "entry", "none")
        \/ Move(c, "entry", "gate") \/ Move(c, "gate", "failed")
        \/ Move(c, "failed", "none") \/ Move(c, "callback", "uncount")
        \/ Move(c, "uncount", "exit")
    BY <1>5 DEF CallStep, Advance, AcpiOsExtExecute, ExecuteNoMemory, CountExecution,
       RunActionFails, UncountFailed, CallbackReturn, Uncount
  <2>3. InStages(stage', GatedStages) = InStages(stage, GatedStages)
    BY <2>2, <1>1, <1>2, SameStages
  <2> QED  BY <2>1, <2>3, <1>1
<1> QED  BY <1>3, <1>4, <1>5

\* The variables a call changes keep their types.
LEMMA CallStepTypes ==
  ASSUME TypeOK, GateCounts, NEW c \in Calls, CallStep(c)
  PROVE  TypeOK'
<1> USE DEF TypeOK
<1>1. c[1] \in Threads
  BY DEF Calls
<1>2. UNCHANGED waitVars /\ UNCHANGED osl /\ stage' \in [Calls -> Stage]
  BY CallStepEffect
<1>3. gateCount' \in Nat
  BY CallStepGate
<1>4. pending' \in Nat
  BY DEF CallStep, Advance, AcpiOsExtExecute, ExecuteNoMemory, CountExecution, EnterGate,
     RunActionFails, UncountFailed, CallbackReturn, Uncount, LeaveGate, Increment, Decrement
<1>5. gateOwner' \in Threads \cup {NoThread}
  BY <1>1 DEF CallStep, Advance, AcpiOsExtExecute, ExecuteNoMemory, CountExecution,
     EnterGate, RunActionFails, UncountFailed, CallbackReturn, Uncount, LeaveGate, OpenGate
<1>6. interrupts' \in [Threads -> BOOLEAN]
  BY <1>1 DEF CallStep, Advance, AcpiOsExtExecute, ExecuteNoMemory, CountExecution,
     EnterGate, RunActionFails, UncountFailed, CallbackReturn, Uncount, LeaveGate, Unmask
<1>7. owed' \in SUBSET Calls
  BY DEF CallStep, Advance, AcpiOsExtExecute, ExecuteNoMemory, CountExecution, EnterGate,
     RunActionFails, UncountFailed, CallbackReturn, Uncount, LeaveGate
<1> QED  BY <1>2, <1>3, <1>4, <1>5, <1>6, <1>7 DEF waitVars

\* Every step keeps the types, and a wait within max_wait_ms.
Typing == TypeOK /\ GateCounts /\ WaitInv

LEMMA TypingInit == Init => Typing
<1> SUFFICES ASSUME Init PROVE Typing
  OBVIOUS
<1>1. TypeOK
  <2>1. stage \in [Calls -> Stage]  BY DEF Init, Stage
  <2>2. interrupts \in [Threads -> BOOLEAN]  BY DEF Init
  <2>3. closing \in BOOLEAN  BY DEF Init
  <2>4. polls \in 0..MaxPolls  BY ExecuteAssumption DEF Init
  <2> QED  BY <2>1, <2>2, <2>3, <2>4 DEF Init, TypeOK
<1>2. InStages(stage, GatedStages) = {}  BY DEF Init, InStages, GatedStages
<1>3. GateCounts  BY <1>2, FS_EmptySet DEF Init, GateCounts
<1>4. WaitInv  BY DEF Init, WaitInv
<1> QED  BY <1>1, <1>3, <1>4 DEF Typing

LEMMA TypingStep == Typing /\ [Next]_vars => Typing'
<1> SUFFICES ASSUME Typing, [Next]_vars
             PROVE  Typing'
  OBVIOUS
<1> USE ExecuteAssumption
<1>1. ASSUME NEW c \in Calls, CallStep(c)
      PROVE  Typing'
  <2>1. PICK t \in Threads, l \in 1..MaxDepth : c = <<t, l>>
    BY DEF Calls
  <2>2. \A k \in 1..MaxDepth : waiter \in Threads =>
           stage'[<<waiter, k>>] = stage[<<waiter, k>>]
    BY <1>1, <2>1, CallStepEffect DEF Typing, TypeOK, Calls
  <2>3. WaitInv'
    BY <1>1, <2>2, CallStepEffect DEF Typing, WaitInv, Idle, waitVars
  <2> QED  BY <1>1, <2>3, CallStepTypes, CallStepGate DEF Typing
<1>2. ASSUME NEW t \in Threads, NEW b \in BOOLEAN, Idle(t) \/ InCallback(t), BeginWait(t, b)
      PROVE  Typing'
  <2>1. Counted \in SUBSET Calls  BY DEF Counted
  <2>2. TypeOK'  BY <1>2, <2>1 DEF BeginWait, Typing, TypeOK, callVars
  <2>3. waiter' = t /\ UNCHANGED stage /\ polls' = 0 /\ waitPc' = "poll"
    BY <1>2 DEF BeginWait, callVars
  <2>4. Idle(t) \/ \E l \in 1..MaxDepth : stage[<<t, l>>] = "callback"
    BY <1>2 DEF InCallback
  <2>5. WaitInv'  BY <2>3, <2>4 DEF WaitInv, Idle
  <2> QED  BY <1>2, <2>2, <2>5 DEF BeginWait, Typing, GateCounts, InStages, callVars
<1>3. CASE WaitPoll
  BY <1>3 DEF WaitPoll, EndWait, Typing, TypeOK, WaitInv, Idle, GateCounts, InStages, callVars
<1>4. CASE WaitSleep
  BY <1>4 DEF WaitSleep, Slept, TimedOut, EndWait, Typing, TypeOK, WaitInv, Idle,
     GateCounts, InStages, callVars
<1>5. CASE FreeResources
  BY <1>5 DEF FreeResources, Typing, TypeOK, WaitInv, GateCounts, InStages, callVars
<1>6. CASE UNCHANGED vars
  BY <1>6 DEF vars, waitVars, Typing, TypeOK, WaitInv, Idle, GateCounts, InStages
<1> QED
  BY <1>1, <1>2, <1>3, <1>4, <1>5, <1>6
     DEF Next, WaitStep, AcpiOsExtWaitEventsComplete, AcpiOsExtTerminate, Down

\* The variables keep their types, whatever the constants.
THEOREM TypeCorrect == Spec => []TypeOK
<1>1. Typing => TypeOK  BY DEF Typing
<1> QED  BY <1>1, TypingInit, TypingStep, PTL DEF Spec

-----------------------------------------------------------------------------
(* The count of pending executions                                         *)

\* gPendingExecutions counts the calls that are under way: the part of
\* PendingExact that a step preserves, with what a drained wait has left.
CountInv ==
    /\ pending = Cardinality(InStages(stage, CountedStages))
    /\ owed \subseteq InStages(stage, CountedStages)
    /\ outcome = "drained" => owed = {}

\* The sets of calls the properties name.
LEMMA CountedGated == /\ Counted = InStages(stage, CountedStages)
                      /\ Gated = InStages(stage, GatedStages)
BY DEF Counted, Gated, InStages, CountedStages, GatedStages

\* A step of a call keeps the count exact, and what the last wait owes counted.
LEMMA CallStepCount ==
  ASSUME TypeOK, CountInv, NEW c \in Calls, CallStep(c)
  PROVE  CountInv'
<1> DEFINE N == InStages(stage, CountedStages)
<1>1. stage \in [Calls -> Stage] /\ pending \in Nat /\ UNCHANGED outcome
  BY CallStepEffect DEF TypeOK, waitVars
<1>2. /\ "none" \notin CountedStages /\ "entry" \notin CountedStages
      /\ "exit" \notin CountedStages
      /\ "gate" \in CountedStages /\ "failed" \in CountedStages
      /\ "callback" \in CountedStages /\ "uncount" \in CountedStages
  BY DEF CountedStages
<1>3. CASE CountExecution(c)
  <2>1. Move(c, "entry", "gate") /\ pending' = pending + 1 /\ UNCHANGED owed
    BY <1>3 DEF CountExecution, Increment
  <2>2. Cardinality(InStages(stage', CountedStages)) = Cardinality(N) + 1
    BY <2>1, <1>1, <1>2, EnterStages
  <2>3. N \subseteq InStages(stage', CountedStages)
    BY <2>1, <1>1, <1>2 DEF Move, InStages
  <2> QED  BY <2>1, <2>2, <2>3, <1>1 DEF CountInv
<1>4. CASE Uncount(c) \/ UncountFailed(c)
  <2>1. PICK from \in {"uncount", "failed"}, to \in {"exit", "none"} :
           Move(c, from, to) /\ Decrement /\ owed' = owed \ {c}
    BY <1>4 DEF Uncount, UncountFailed
  <2>2. /\ Cardinality(N) > 0
        /\ Cardinality(InStages(stage', CountedStages)) = Cardinality(N) - 1
    BY <2>1, <1>1, <1>2, LeaveStages
  <2>3. N \ {c} \subseteq InStages(stage', CountedStages)
    BY <2>1, <1>1, <1>2 DEF Move, InStages
  <2>4. pending' = pending - 1
    BY <2>1, <2>2 DEF Decrement, CountInv
  <2>5. pending' = Cardinality(InStages(stage', CountedStages))
    BY <2>2, <2>4 DEF CountInv
  <2> QED  BY <2>1, <2>3, <2>5, <1>1 DEF CountInv
<1>5. CASE ~(CountExecution(c) \/ Uncount(c) \/ UncountFailed(c))
  <2>1. UNCHANGED pending /\ UNCHANGED owed
    BY <1>5 DEF CallStep, Advance, AcpiOsExtExecute, ExecuteNoMemory, EnterGate,
       RunActionFails, CallbackReturn, LeaveGate
  <2>2. \/ Move(c, "none", "entry") \/ Move(c, "entry", "none")
        \/ Move(c, "gate", "callback") \/ Move(c, "gate", "failed")
        \/ Move(c, "callback", "uncount") \/ Move(c, "exit", "none")
    BY <1>5 DEF CallStep, Advance, AcpiOsExtExecute, ExecuteNoMemory, EnterGate,
       RunActionFails, CallbackReturn, LeaveGate
  <2>3. InStages(stage', CountedStages) = N
    BY <2>2, <1>1, <1>2, SameStages
  <2> QED  BY <2>1, <2>3, <1>1 DEF CountInv
<1> QED  BY <1>3, <1>4, <1>5

LEMMA CountInit == Init => CountInv
<1> SUFFICES ASSUME Init PROVE CountInv
  OBVIOUS
<1>1. InStages(stage, CountedStages) = {}  BY DEF Init, InStages, CountedStages
<1> QED  BY <1>1, FS_EmptySet DEF Init, CountInv

\* A wait only reports that everything completed when the count is zero, and
\* then nothing is left of what it was called for.
LEMMA CountStep == Typing /\ CountInv /\ [Next]_vars => CountInv'
<1> SUFFICES ASSUME Typing, CountInv, [Next]_vars
             PROVE  CountInv'
  OBVIOUS
<1> USE DEF CountInv
<1>1. ASSUME NEW c \in Calls, CallStep(c)
      PROVE  CountInv'
  BY <1>1, CallStepCount DEF Typing
<1>2. ASSUME NEW t \in Threads, NEW b \in BOOLEAN, BeginWait(t, b)
      PROVE  CountInv'
  BY <1>2, CountedGated DEF BeginWait, callVars, InStages
<1>3. CASE WaitPoll
  <2>1. pending = 0 => owed = {}
    BY StagesCardinality, FS_EmptySet
  <2> QED  BY <2>1, <1>3 DEF WaitPoll, Drained, EndWait, callVars, InStages, Typing, TypeOK
<1>4. CASE WaitSleep
  BY <1>4 DEF WaitSleep, EndWait, callVars, InStages
<1>5. CASE FreeResources
  BY <1>5 DEF FreeResources, callVars, InStages
<1>6. CASE UNCHANGED vars
  BY <1>6 DEF vars, waitVars, InStages
<1> QED
  BY <1>1, <1>2, <1>3, <1>4, <1>5, <1>6
     DEF Next, WaitStep, AcpiOsExtWaitEventsComplete, AcpiOsExtTerminate, Down

\* gPendingExecutions is exactly the number of executions under way.
THEOREM PendingIsExact == Spec => []PendingExact
<1>1. CountInv => PendingExact  BY CountedGated DEF CountInv, PendingExact
<1> QED  BY <1>1, TypingInit, TypingStep, CountInit, CountStep, PTL DEF Spec

\* A wait that reports completion left none of the executions it was called for.
THEOREM DrainedIsDone == Spec => []DrainedMeansDone
<1>1. CountInv => DrainedMeansDone  BY DEF CountInv, DrainedMeansDone
<1> QED  BY <1>1, TypingInit, TypingStep, CountInit, CountStep, PTL DEF Spec

-----------------------------------------------------------------------------
(* The gate                                                                *)

\* Only one thread is inside the gate, its owner, and it is closed while it is.
OwnerInv == /\ \A c \in InStages(stage, GatedStages) : gateOwner = c[1]
            /\ gateOwner = NoThread <=> gateCount = 0

LEMMA OwnerInit == Init => OwnerInv
BY DEF Init, OwnerInv, InStages, GatedStages

LEMMA CallStepOwner ==
  ASSUME TypeOK, GateCounts, OwnerInv, NEW c \in Calls, CallStep(c)
  PROVE  OwnerInv'
<1>1. stage \in [Calls -> Stage] /\ gateCount \in Nat
  BY DEF TypeOK
<1>2. /\ "none" \notin GatedStages /\ "entry" \notin GatedStages
      /\ "gate" \notin GatedStages /\ "failed" \notin GatedStages
      /\ "callback" \in GatedStages /\ "uncount" \in GatedStages /\ "exit" \in GatedStages
  BY DEF GatedStages
<1>3. CASE EnterGate(c)
  <2>1. /\ Move(c, "gate", "callback") /\ gateCount' = gateCount + 1
        /\ gateOwner \in {NoThread, c[1]} /\ gateOwner' = c[1]
    BY <1>3 DEF EnterGate
  <2>2. InStages(stage', GatedStages) \subseteq InStages(stage, GatedStages) \cup {c}
    BY <2>1, <1>1 DEF Move, InStages
  <2>3. \A d \in InStages(stage, GatedStages) : d[1] = c[1]
    <3>1. CASE gateOwner = NoThread
      <4>1. InStages(stage, GatedStages) = {}
        BY <3>1, StagesCardinality, FS_EmptySet DEF OwnerInv, GateCounts
      <4> QED  BY <4>1
    <3> QED  BY <3>1, <2>1 DEF OwnerInv
  <2>4. c[1] # NoThread  BY ExecuteAssumption DEF Calls
  <2> QED  BY <2>1, <2>2, <2>3, <2>4, <1>1 DEF OwnerInv
<1>4. CASE LeaveGate(c)
  <2>1. /\ Move(c, "exit", "none") /\ gateCount' = gateCount - 1
        /\ gateOwner' = IF gateCount = 1 THEN NoThread ELSE gateOwner
    BY <1>4 DEF LeaveGate, OpenGate
  <2>2. /\ Cardinality(InStages(stage, GatedStages)) > 0
        /\ Cardinality(InStages(stage', GatedStages))
             = Cardinality(InStages(stage, GatedStages)) - 1
    BY <2>1, <1>1, <1>2, LeaveStages
  <2>3. InStages(stage', GatedStages) \subseteq InStages(stage, GatedStages)
    BY <2>1, <1>1, <1>2 DEF Move, InStages
  <2>4. gateCount = 1 => InStages(stage', GatedStages) = {}
    BY <2>2, StagesCardinality, FS_EmptySet DEF GateCounts
  <2> QED  BY <2>1, <2>2, <2>3, <2>4, <1>1 DEF OwnerInv, GateCounts
<1>5. CASE ~(EnterGate(c) \/ LeaveGate(c))
  <2>1. UNCHANGED gateCount /\ UNCHANGED gateOwner
    BY <1>5 DEF CallStep, Advance, AcpiOsExtExecute, ExecuteNoMemory, CountExecution,
       RunActionFails, UncountFailed, CallbackReturn, Uncount
  <2>2. \/ Move(c, "none", "entry") \/ Move(c, "entry", "none")
        \/ Move(c, "entry", "gate") \/ Move(c, "gate", "failed")
        \/ Move(c, "failed", "none") \/ Move(c, "callback", "uncount")
        \/ Move(c, "uncount", "exit")
    BY <1>5 DEF CallStep, Advance, AcpiOsExtExecute, ExecuteNoMemory, CountExecution,
       RunActionFails, UncountFailed, CallbackReturn, Uncount
  <2>3. InStages(stage', GatedStages) = InStages(stage, GatedStages)
    BY <2>2, <1>1, <1>2, SameStages
  <2> QED  BY <2>1, <2>3 DEF OwnerInv
<1> QED  BY <1>3, <1>4, <1>5

LEMMA OwnerStep == Typing /\ OwnerInv /\ [Next]_vars => OwnerInv'
<1> SUFFICES ASSUME Typing, OwnerInv, [Next]_vars
             PROVE  OwnerInv'
  OBVIOUS
<1>1. ASSUME NEW c \in Calls, CallStep(c)
      PROVE  OwnerInv'
  BY <1>1, CallStepOwner DEF Typing
<1>2. ASSUME UNCHANGED callVars
      PROVE  OwnerInv'
  BY <1>2 DEF callVars, OwnerInv, InStages
<1>3. \/ \E c \in Calls : CallStep(c)
      \/ UNCHANGED callVars
  BY DEF Next, WaitStep, AcpiOsExtWaitEventsComplete, AcpiOsExtTerminate, BeginWait,
     WaitPoll, WaitSleep, FreeResources, Down, vars, callVars
<1> QED  BY <1>1, <1>2, <1>3

\* One thread at a time is inside the gate, its owner, and the gate counts it.
THEOREM GateIsDisciplined == Spec => []GateDiscipline
<1>1. Typing /\ OwnerInv => GateDiscipline
  BY CountedGated DEF Typing, GateCounts, OwnerInv, GateDiscipline
<1> QED  BY <1>1, TypingInit, TypingStep, OwnerInit, OwnerStep, PTL DEF Spec

-----------------------------------------------------------------------------
(* Waits from a callback, and interrupts                                   *)

\* A wait that ends drained was not called from a callback: the caller's own
\* execution would be counted.
THEOREM CallbackNeverDrains == Spec => NoDrainFromCallback
<1> DEFINE A == outcome # "drained" /\ outcome' = "drained" => Idle(waiter)
<1>1. Typing /\ CountInv /\ [Next]_vars => [A]_vars
  <2> SUFFICES ASSUME Typing, CountInv, [Next]_vars,
                      outcome # "drained", outcome' = "drained"
               PROVE  Idle(waiter)
    OBVIOUS
  <2>1. ASSUME NEW c \in Calls, CallStep(c)
        PROVE  FALSE
    BY <2>1, CallStepEffect DEF waitVars
  <2>2. WaitPoll /\ pending = 0
    BY <2>1 DEF Next, WaitStep, AcpiOsExtWaitEventsComplete, AcpiOsExtTerminate,
       BeginWait, WaitPoll, Drained, EndWait, WaitSleep, FreeResources, Down, vars, waitVars
  <2>3. InStages(stage, CountedStages) = {}
    BY <2>2, StagesCardinality, FS_EmptySet DEF CountInv
  <2>4. waiter \in Threads
    BY <2>2 DEF WaitPoll, Typing, WaitInv
  <2>5. \A l \in 1..MaxDepth : stage[<<waiter, l>>] # "callback"
    BY <2>3, <2>4 DEF InStages, CountedStages, Calls
  <2> QED  BY <2>2, <2>5 DEF WaitPoll, Typing, WaitInv
<1> QED
  BY <1>1, TypingInit, TypingStep, CountInit, CountStep, PTL DEF Spec, NoDrainFromCallback

LEMMA InterruptsInit == Init => InterruptsRestored
BY DEF Init, InterruptsRestored

LEMMA InterruptsStep == Typing /\ InterruptsRestored /\ [Next]_vars => InterruptsRestored'
<1> SUFFICES ASSUME Typing, InterruptsRestored, [Next]_vars
             PROVE  InterruptsRestored'
  OBVIOUS
<1> USE DEF InterruptsRestored
<1>1. ASSUME NEW c \in Calls, CallStep(c), NEW t \in Threads,
             \A l \in 1..MaxDepth : stage'[<<t, l>>] # "callback"
      PROVE  interrupts'[t]
  <2>1. PICK u \in Threads, k \in 1..MaxDepth : c = <<u, k>>
    BY DEF Calls
  <2>2. c \in DOMAIN stage /\ c[1] = u /\ u \in DOMAIN interrupts
    BY <2>1 DEF Typing, TypeOK
  <2>3. CASE EnterGate(c)
    <3>1. stage'[c] = "callback"  BY <2>2, <2>3 DEF EnterGate, Move
    <3>2. t # u  BY <3>1, <2>1, <1>1
    <3>3. \A l \in 1..MaxDepth : stage'[<<t, l>>] = stage[<<t, l>>]
      BY <3>2, <2>1, <2>3 DEF EnterGate, Move, Typing, TypeOK, Calls
    <3> QED  BY <3>2, <3>3, <1>1, <2>2, <2>3 DEF EnterGate, Typing, TypeOK
  <2>4. CASE CallbackReturn(c)
    <3>1. CASE t = u  BY <3>1, <2>2, <2>4 DEF CallbackReturn, Unmask
    <3>2. CASE t # u
      <4>1. \A l \in 1..MaxDepth : stage'[<<t, l>>] = stage[<<t, l>>]
        BY <3>2, <2>1, <2>4 DEF CallbackReturn, Move, Typing, TypeOK, Calls
      <4> QED  BY <4>1, <3>2, <1>1, <2>2, <2>4 DEF CallbackReturn, Unmask, Typing, TypeOK
    <3> QED  BY <3>1, <3>2
  <2>5. CASE ~(EnterGate(c) \/ CallbackReturn(c))
    <3>1. UNCHANGED interrupts
      BY <2>5, <1>1 DEF CallStep, Advance, AcpiOsExtExecute, ExecuteNoMemory,
         CountExecution, RunActionFails, UncountFailed, Uncount, LeaveGate
    <3>2. stage[c] # "callback"
      BY <2>5, <1>1 DEF CallStep, Advance, AcpiOsExtExecute, ExecuteNoMemory,
         CountExecution, RunActionFails, UncountFailed, Uncount, LeaveGate, Move
    <3>3. \A l \in 1..MaxDepth : stage[<<t, l>>] # "callback"
      BY <3>2, <1>1, CallStepEffect DEF Typing, TypeOK, Calls
    <3> QED  BY <3>1, <3>3
  <2> QED  BY <2>3, <2>4, <2>5
<1>2. ASSUME UNCHANGED callVars
      PROVE  InterruptsRestored'
  BY <1>2 DEF callVars
<1>3. \/ \E c \in Calls : CallStep(c)
      \/ UNCHANGED callVars
  BY DEF Next, WaitStep, AcpiOsExtWaitEventsComplete, AcpiOsExtTerminate, BeginWait,
     WaitPoll, WaitSleep, FreeResources, Down, vars, callVars
<1> QED  BY <1>1, <1>2, <1>3

\* No thread leaves AcpiOsExecute with its interrupts masked.
THEOREM InterruptsAreRestored == Spec => []InterruptsRestored
<1> QED
  BY TypingInit, TypingStep, InterruptsInit, InterruptsStep, PTL DEF Spec
=============================================================================
