---------------------------- MODULE NotifyDelivery ----------------------------
(***************************************************************************)
(* What AcpiInstallNotifyHandler, AcpiRemoveNotifyHandler and the Notify   *)
(* operator promise: a notification calls each handler that listens to it  *)
(* once, the one for all devices first, and no other. Nothing is installed *)
(* or removed while it does.                                               *)
(***************************************************************************)
CONSTANTS Threads,  (* threads that notify                                   *)
          Handlers, (* what is installed and called                          *)
          Kinds,    (* the kinds of notification                             *)
          Null      (* no handler                                            *)

VARIABLES root,     (* for each kind, the handler for all devices            *)
          device,   (* for each kind, the handlers of the device             *)
          due,      (* the calls a thread still has to make                  *)
          runs,     (* the handler that runs on each thread                  *)
          stuck     (* the threads whose handler never returns               *)

deliveryVars == <<root, device, due, runs, stuck>>

\* The calls that a notification makes.
Listening(i) == ({"root"} \X root[i]) \cup ({"device"} \X device[i])

Quiet == \A t \in Threads : due[t] = {} /\ runs[t] = Null

Init == /\ root = [i \in Kinds |-> {}]
        /\ device = [i \in Kinds |-> {}]
        /\ due = [t \in Threads |-> {}]
        /\ runs = [t \in Threads |-> Null]
        /\ stuck = {}

-----------------------------------------------------------------------------
Notify(t, i) == /\ Listening(i) # {}
                /\ due' = [due EXCEPT ![t] = Listening(i)]
                /\ UNCHANGED <<root, device, runs, stuck>>

\* The request could not be made: none of its calls is.
Fail(t, i) == /\ runs[t] = Null
              /\ due[t] = Listening(i)
              /\ due' = [due EXCEPT ![t] = {}]
              /\ UNCHANGED <<root, device, runs, stuck>>

Call(t, x) == /\ runs[t] = Null
              /\ x \in due[t]
              /\ x[1] = "device" => \A y \in due[t] : y[1] = "device"
              /\ due' = [due EXCEPT ![t] = @ \ {x}]
              /\ runs' = [runs EXCEPT ![t] = x[2]]
              /\ UNCHANGED <<root, device, stuck>>

Return(t) == /\ runs[t] # Null
             /\ t \notin stuck
             /\ runs' = [runs EXCEPT ![t] = Null]
             /\ UNCHANGED <<root, device, due, stuck>>

\* A handler that waits for its own thread: the others are not called.
Hang(t) == /\ runs[t] # Null
           /\ stuck' = stuck \cup {t}
           /\ due' = [due EXCEPT ![t] = {}]
           /\ UNCHANGED <<root, device, runs>>

InstallRoot(fn, kinds) ==
    /\ \A i \in kinds : root[i] = {}
    /\ root' = [i \in Kinds |-> IF i \in kinds THEN {fn} ELSE root[i]]
    /\ UNCHANGED <<device, due, runs, stuck>>

RemoveRoot(fn, i) == /\ fn \in root[i]
                     /\ root' = [root EXCEPT ![i] = {}]
                     /\ UNCHANGED <<device, due, runs, stuck>>

Install(fn, kinds) ==
    /\ \A i \in kinds : fn \notin device[i]
    /\ device' = [i \in Kinds |-> IF i \in kinds THEN device[i] \cup {fn} ELSE device[i]]
    /\ UNCHANGED <<root, due, runs, stuck>>

Remove(fn, i) == /\ fn \in device[i]
                 /\ device' = [device EXCEPT ![i] = @ \ {fn}]
                 /\ UNCHANGED <<root, due, runs, stuck>>

-----------------------------------------------------------------------------
\* What happens only while nothing is delivered, and the delivery.
Change == \/ \E t \in Threads, i \in Kinds : Notify(t, i)
          \/ \E fn \in Handlers, i \in Kinds : RemoveRoot(fn, i) \/ Remove(fn, i)
          \/ \E fn \in Handlers, kinds \in (SUBSET Kinds) \ {{}} :
                InstallRoot(fn, kinds) \/ Install(fn, kinds)
Deliver(t) == \/ \E x \in due[t] : Call(t, x)
              \/ \E i \in Kinds : Fail(t, i)
              \/ Return(t) \/ Hang(t)

Next == (Quiet /\ Change) \/ \E t \in Threads : Deliver(t)

Spec == Init /\ [][Next]_deliveryVars
=============================================================================
