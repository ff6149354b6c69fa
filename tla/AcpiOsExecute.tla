---------------------------- MODULE AcpiOsExecute ----------------------------
(***************************************************************************)
(* The execution service of the Darwin OS layer (PDACPIPlatform/           *)
(* AcpiOsLayer.cpp): AcpiOsExtExecute runs a callback behind the recursive *)
(* gate of one IOWorkLoop, on the thread that asks for it, and counts it   *)
(* in gPendingExecutions; AcpiOsExtWaitEventsComplete polls that count;    *)
(* AcpiOsExtTerminate waits and then frees the gate and the locks.         *)
(*                                                                         *)
(* A call is a pair <<thread, level>>: a callback may itself call          *)
(* AcpiOsExecute, which is the call one level up on the same thread.       *)
(***************************************************************************)
EXTENDS Naturals, FiniteSets

CONSTANTS Threads,   (* the kernel threads that use the service              *)
          NoThread,  (* stands for "no thread": a free gate, nobody waiting  *)
          MaxDepth,  (* bound on the nesting of AcpiOsExecute in callbacks   *)
          MaxPolls   (* max_wait_ms / poll_interval_ms: 500 in the code      *)

ASSUME ExecuteAssumption ==
    /\ IsFiniteSet(Threads)
    /\ NoThread \notin Threads
    /\ MaxDepth \in Nat \ {0}
    /\ MaxPolls \in Nat \ {0}

Calls == Threads \X (1..MaxDepth)

VARIABLES stage,       (* how far each call of AcpiOsExtExecute has come     *)
          pending,     (* gPendingExecutions                                 *)
          gateOwner,   (* the thread inside the work loop's recursive lock   *)
          gateCount,   (* how often that thread holds it                     *)
          interrupts,  (* what each thread last told ml_set_interrupts_...   *)
          waiter,      (* the thread in AcpiOsExtWaitEventsComplete          *)
          waitPc,      (* where that thread is                               *)
          closing,     (* the wait was called by AcpiOsExtTerminate          *)
          polls,       (* waited_ms / poll_interval_ms                       *)
          outcome,     (* how the last wait ended                            *)
          owed,        (* history: calls counted when that wait began and    *)
                       (* not uncounted since                                *)
          osl          (* "down" once AcpiOsExtTerminate freed the gate      *)

waitVars == <<waiter, waitPc, closing, polls, outcome>>
vars == <<stage, pending, gateOwner, gateCount, interrupts, waitVars, owed, osl>>

Stage == {"none",      (* no such call                                       *)
          "entry",     (* in AcpiOsExtExecute, before it is counted          *)
          "gate",      (* counted, in runAction, not yet inside the gate     *)
          "callback",  (* the callback runs                                  *)
          "uncount",   (* the callback has returned                          *)
          "exit",      (* uncounted, still inside the gate                   *)
          "failed"}    (* runAction returned an error                        *)

Counted == {c \in Calls : stage[c] \in {"gate", "callback", "uncount", "failed"}}
Gated   == {c \in Calls : stage[c] \in {"callback", "uncount", "exit"}}

Init == /\ stage = [c \in Calls |-> "none"]
        /\ pending = 0
        /\ gateOwner = NoThread
        /\ gateCount = 0
        /\ interrupts = [t \in Threads |-> TRUE]
        /\ waiter = NoThread
        /\ waitPc = "idle"
        /\ closing = FALSE
        /\ polls = 0
        /\ outcome = "none"
        /\ owed = {}
        /\ osl = "up"

-----------------------------------------------------------------------------
(* AcpiOsExtExecute and AcpiOsThreadDispatch                               *)

\* The innermost call of a thread that is not waiting: the code that runs next.
Innermost(c) == /\ osl = "up"
                /\ waiter # c[1]
                /\ c[2] < MaxDepth => stage[<<c[1], c[2] + 1>>] = "none"

Move(c, from, to) == /\ Innermost(c)
                     /\ stage[c] = from
                     /\ stage' = [stage EXCEPT ![c] = to]

\* Mutants: an execution is not counted; it is not uncounted.
CountForgets   == UNCHANGED pending
UncountForgets == UNCHANGED pending

\* Under gExecutionLock; the counter is decremented only when it is positive.
Increment == pending' = pending + 1
Decrement == pending' = IF pending > 0 THEN pending - 1 ELSE pending

\* Mutants: the inner return opens the gate for everyone; the outermost return
\* leaves it closed; interrupts stay masked after a callback.
OpenGateAlways == gateOwner' = NoThread
OpenGateNever  == UNCHANGED gateOwner
UnmaskForgets(t) == UNCHANGED interrupts

\* The work loop's lock is recursive; interrupts are enabled whatever they were.
OpenGate  == gateOwner' = IF gateCount = 1 THEN NoThread ELSE gateOwner
Unmask(t) == interrupts' = [interrupts EXCEPT ![t] = TRUE]

\* A thread calls AcpiOsExecute, outside of any callback or from one.
AcpiOsExtExecute(c) ==
    /\ c[2] > 1 => stage[<<c[1], c[2] - 1>>] = "callback"
    /\ Move(c, "none", "entry")
    /\ UNCHANGED <<pending, gateOwner, gateCount, interrupts, waitVars, owed, osl>>

\* IOMalloc fails: AE_NO_MEMORY.
ExecuteNoMemory(c) ==
    /\ Move(c, "entry", "none")
    /\ UNCHANGED <<pending, gateOwner, gateCount, interrupts, waitVars, owed, osl>>

CountExecution(c) ==
    /\ Move(c, "entry", "gate")
    /\ Increment
    /\ UNCHANGED <<gateOwner, gateCount, interrupts, waitVars, owed, osl>>

\* runAction closes the gate; AcpiOsThreadDispatch masks interrupts and calls back.
EnterGate(c) ==
    /\ gateOwner \in {NoThread, c[1]}
    /\ Move(c, "gate", "callback")
    /\ gateOwner' = c[1]
    /\ gateCount' = gateCount + 1
    /\ interrupts' = [interrupts EXCEPT ![c[1]] = FALSE]
    /\ UNCHANGED <<pending, waitVars, owed, osl>>

\* runAction fails before it closes the gate.
RunActionFails(c) ==
    /\ Move(c, "gate", "failed")
    /\ UNCHANGED <<pending, gateOwner, gateCount, interrupts, waitVars, owed, osl>>

\* AcpiOsExtExecute uncounts the failed execution and returns AE_ERROR.
UncountFailed(c) ==
    /\ Move(c, "failed", "none")
    /\ Decrement
    /\ owed' = owed \ {c}
    /\ UNCHANGED <<gateOwner, gateCount, interrupts, waitVars, osl>>

\* The callback returns.
CallbackReturn(c) ==
    /\ Move(c, "callback", "uncount")
    /\ Unmask(c[1])
    /\ UNCHANGED <<pending, gateOwner, gateCount, waitVars, owed, osl>>

Uncount(c) ==
    /\ Move(c, "uncount", "exit")
    /\ Decrement
    /\ owed' = owed \ {c}
    /\ UNCHANGED <<gateOwner, gateCount, interrupts, waitVars, osl>>

\* The callback data is freed and runAction opens the gate: AE_OK.
LeaveGate(c) ==
    /\ Move(c, "exit", "none")
    /\ gateCount' = gateCount - 1
    /\ OpenGate
    /\ UNCHANGED <<pending, interrupts, waitVars, owed, osl>>

-----------------------------------------------------------------------------
(* AcpiOsExtWaitEventsComplete and AcpiOsExtTerminate                      *)

callVars == <<stage, pending, gateOwner, gateCount, interrupts>>

\* The thread runs no call, or the callback of its innermost one.
Idle(t)       == stage[<<t, 1>>] = "none"
InCallback(t) == \E l \in 1..MaxDepth :
                    /\ stage[<<t, l>>] = "callback"
                    /\ l < MaxDepth => stage[<<t, l + 1>>] = "none"

BeginWait(t, terminate) ==
    /\ osl = "up"
    /\ waiter = NoThread
    /\ waiter' = t
    /\ waitPc' = "poll"
    /\ closing' = terminate
    /\ polls' = 0
    /\ outcome' = "none"
    /\ owed' = Counted
    /\ UNCHANGED <<callVars, osl>>

AcpiOsExtWaitEventsComplete(t) ==
    /\ Idle(t) \/ InCallback(t)
    /\ BeginWait(t, FALSE)

AcpiOsExtTerminate(t) ==
    /\ Idle(t)
    /\ BeginWait(t, TRUE)

\* The loop ends: back to the caller, or on to the frees of AcpiOsExtTerminate.
EndWait(how) ==
    /\ outcome' = how
    /\ waitPc' = IF closing THEN "free" ELSE "idle"
    /\ waiter' = IF closing THEN waiter ELSE NoThread

\* Mutants: the poll discounts one execution, the caller's own; the loop runs while
\* waited_ms <= max_wait_ms; the time waited is not accumulated.
DrainedButOne   == pending <= 1
TimedOutLate    == polls = MaxPolls
SleepForgets    == polls' = 0

Drained  == pending = 0
TimedOut == polls' = MaxPolls
Slept    == polls' = polls + 1

\* One turn of the loop reads the counter under gExecutionLock.
WaitPoll ==
    /\ osl = "up"
    /\ waitPc = "poll"
    /\ \/ Drained /\ EndWait("drained")
       \/ ~Drained /\ waitPc' = "sleep" /\ UNCHANGED <<outcome, waiter>>
    /\ UNCHANGED <<callVars, closing, polls, owed, osl>>

\* IOSleep returns; after max_wait_ms the loop gives up and logs a warning.
WaitSleep ==
    /\ osl = "up"
    /\ waitPc = "sleep"
    /\ Slept
    /\ \/ TimedOut /\ EndWait("timeout")
       \/ ~TimedOut /\ waitPc' = "poll" /\ UNCHANGED <<outcome, waiter>>
    /\ UNCHANGED <<callVars, closing, owed, osl>>

\* The gate, the work loop and the locks are freed, whatever the wait returned.
FreeResources ==
    /\ osl = "up"
    /\ waitPc = "free"
    /\ osl' = "down"
    /\ waitPc' = "idle"
    /\ waiter' = NoThread
    /\ UNCHANGED <<callVars, closing, polls, outcome, owed>>

\* Nothing is defined after the locks are freed: the model stops here.
Down == osl = "down" /\ UNCHANGED vars

-----------------------------------------------------------------------------
\* The steps of a call that neither block nor depend on the callback.
Advance(c) == \/ CountExecution(c) \/ ExecuteNoMemory(c) \/ UncountFailed(c)
              \/ Uncount(c) \/ LeaveGate(c)

CallStep(c) == \/ AcpiOsExtExecute(c) \/ EnterGate(c) \/ RunActionFails(c)
               \/ CallbackReturn(c) \/ Advance(c)

WaitStep == WaitPoll \/ WaitSleep \/ FreeResources

Next == \/ \E c \in Calls : CallStep(c)
        \/ \E t \in Threads : AcpiOsExtWaitEventsComplete(t) \/ AcpiOsExtTerminate(t)
        \/ WaitStep
        \/ Down

\* A scheduled thread goes on: every step inside a call and inside a wait is
\* taken. The gate is a sleeping lock that is handed to a thread that keeps
\* asking, and a callback does not nest executions forever: strong fairness.
Fairness ==
    /\ WF_vars(WaitStep)
    /\ \A t \in Threads : WF_vars(\E l \in 1..MaxDepth : Advance(<<t, l>>))
    /\ \A c \in Calls : SF_vars(EnterGate(c)) /\ SF_vars(CallbackReturn(c))

Spec == Init /\ [][Next]_vars /\ Fairness

-----------------------------------------------------------------------------
(* Properties                                                              *)

\* The variables keep their types.
TypeOK == /\ stage \in [Calls -> Stage]
          /\ pending \in Nat
          /\ gateOwner \in Threads \cup {NoThread}
          /\ gateCount \in Nat
          /\ interrupts \in [Threads -> BOOLEAN]
          /\ waiter \in Threads \cup {NoThread}
          /\ waitPc \in {"idle", "poll", "sleep", "free"}
          /\ closing \in BOOLEAN
          /\ polls \in 0..MaxPolls
          /\ outcome \in {"none", "drained", "timeout"}
          /\ owed \in SUBSET Calls
          /\ osl \in {"up", "down"}

\* gPendingExecutions is the number of executions under way, on every path:
\* no failed or nested call is counted twice or left behind, so the guards on
\* its decrement never bite (AcpiOsThreadDispatch, AcpiOsExtExecute).
PendingExact == pending = Cardinality(Counted)

\* The gate counts exactly the calls inside it, all of them of its owner: while
\* one thread is anywhere between a callback's start and its return no other
\* thread is, however deep the callbacks nest.
GateDiscipline ==
    /\ gateCount = Cardinality(Gated)
    /\ \A c \in Gated : gateOwner = c[1]
    /\ gateOwner = NoThread <=> gateCount = 0

\* A wait that does not time out waited for everything it was called for: every
\* execution counted when AcpiOsExtWaitEventsComplete was entered has returned.
DrainedMeansDone == outcome = "drained" => owed = {}

\* A thread that is not inside a callback has interrupts enabled: the dispatch
\* never returns to a caller with them masked, through whatever nesting.
InterruptsRestored ==
    \A t \in Threads :
        (\A l \in 1..MaxDepth : stage[<<t, l>>] # "callback") => interrupts[t]

\* A wait called from inside a callback counts its own execution and can only
\* time out: it never reports that everything completed.
NoDrainFromCallback ==
    [][outcome # "drained" /\ outcome' = "drained" => Idle(waiter)]_vars

\* Every call of AcpiOsExecute returns, and with it every call nested in its
\* callback, unless the layer is torn down under it.
ExecuteReturns == \A t \in Threads : ~Idle(t) ~> Idle(t) \/ osl = "down"

\* A wait ends even when a callback never does: the loop is bounded.
WaitReturns == waiter # NoThread ~> waiter = NoThread

\* "Wait for all pending executions to complete" (AcpiOsExtTerminate): when the
\* gate and the locks are freed no execution is under way.
TeardownAfterDrain == osl = "down" => pending = 0
=============================================================================
