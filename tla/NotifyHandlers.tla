---------------------------- MODULE NotifyHandlers ----------------------------
(***************************************************************************)
(* Notify handlers: a control method notifies a device, and ACPICA calls   *)
(* the handlers that clients installed for it, one for all devices and a   *)
(* list of the device's own, for each of two kinds of notification.        *)
(* AcpiOsExecute, which is meant to defer the calls, makes them at once on *)
(* the thread that asks (AcpiOsExecute.tla): the notifying thread is still *)
(* in the interpreter, and the namespace, which AcpiExEnterInterpreter     *)
(* locks too, stays locked. AcpiOsWaitEventsComplete, with which a removal *)
(* is meant to wait for the deferred calls, does nothing. One device: the  *)
(* lists of two devices share nothing.                                     *)
(***************************************************************************)
EXTENDS Naturals, FiniteSets

CONSTANTS Threads,   (* threads that evaluate methods, install and remove    *)
          Handlers,  (* addresses of handlers                                *)
          Objects,   (* the handler objects that may be in use at once       *)
          Null       (* no thread, no handler, no object: the null pointer   *)

ASSUME NotifyAssumption == /\ IsFiniteSet(Objects)
                           /\ Null \notin Threads \cup Handlers \cup Objects

NotifyTypes  == {0, 1}                        (* system and device handlers  *)
HandlerTypes == (SUBSET NotifyTypes) \ {{}}   (* the bits of a HandlerType   *)

VARIABLES interpreter,  (* the thread that has ACPI_MTX_INTERPRETER          *)
          namespace,    (* the thread that has ACPI_MTX_NAMESPACE            *)
          global,       (* AcpiGbl_GlobalNotify[].Handler                    *)
          head,         (* the device's CommonNotify.NotifyList[]            *)
          next,         (* Notify.Next[] of each handler object              *)
          handler,      (* Notify.Handler of each object, Null when freed    *)
          refs,         (* its ReferenceCount                                *)
          thread        (* what each thread does                             *)

lists == <<head, next, handler, refs>>
vars  == <<interpreter, namespace, global, lists, thread>>

Outside  == {"idle",        (* in no call                                    *)
             "remove",      (* AcpiRemoveNotifyHandler, for a device: types  *)
                            (* are those still to be removed from            *)
             "removeRoot",  (* the same for the root                         *)
             "unref"}       (* it has unlinked cursor and released the lock  *)
Inside   == {"method",      (* in the interpreter                            *)
             "queued",      (* in AcpiOsExecute, before the dispatch         *)
             "global",      (* the global handler runs                       *)
             "walk",        (* between two handlers of the list              *)
             "local",       (* the handler of object cursor runs             *)
             "stuck"}       (* a handler waits for a lock its thread has     *)
OnTheWay == {"enter",       (* has the interpreter, wants the namespace      *)
             "exit"}        (* has released the namespace                    *)

NoLinks == [i \in NotifyTypes |-> Null]

Idle == [pc |-> "idle", fn |-> Null, types |-> {}, cursor |-> Null]

Init == /\ interpreter = Null
        /\ namespace = Null
        /\ global = [i \in NotifyTypes |-> Null]
        /\ head = NoLinks
        /\ next = [o \in Objects |-> NoLinks]
        /\ handler = [o \in Objects |-> Null]
        /\ refs = [o \in Objects |-> 0]
        /\ thread = [t \in Threads |-> Idle]

At(t, pc)   == thread[t].pc = pc
Goto(t, pc) == thread' = [thread EXCEPT ![t].pc = pc]
First(types) == CHOOSE i \in types : \A j \in types : i <= j

-----------------------------------------------------------------------------
(* A control method                                                        *)

\* AcpiExEnterInterpreter takes one lock, then the other.
AcpiExEnterInterpreter(t) ==
    /\ At(t, "idle")
    /\ interpreter = Null
    /\ interpreter' = t
    /\ Goto(t, "enter")
    /\ UNCHANGED <<namespace, global, lists>>

\* Mutant: the interpreter is entered without the namespace.
EnterWithoutNamespace(t) ==
    /\ At(t, "enter")
    /\ Goto(t, "method")
    /\ UNCHANGED <<interpreter, namespace, global, lists>>

LockNamespace(t) ==
    /\ At(t, "enter")
    /\ namespace = Null
    /\ namespace' = t
    /\ Goto(t, "method")
    /\ UNCHANGED <<interpreter, global, lists>>

AcpiExExitInterpreter(t) ==
    \/ /\ At(t, "method")
       /\ namespace' = Null
       /\ thread' = [thread EXCEPT ![t] = [Idle EXCEPT !.pc = "exit"]]
       /\ UNCHANGED <<interpreter, global, lists>>
    \/ /\ At(t, "exit")
       /\ interpreter' = Null
       /\ thread' = [thread EXCEPT ![t] = Idle]
       /\ UNCHANGED <<namespace, global, lists>>

\* A notification nobody listens to is ignored; else the list as it is now goes
\* with the request to AcpiOsExecute.
AcpiEvQueueNotifyRequest(t, i) ==
    /\ At(t, "method")
    /\ global[i] # Null \/ head[i] # Null
    /\ thread' = [thread EXCEPT ![t] = [pc |-> "queued", fn |-> Null, types |-> {i},
                                        cursor |-> head[i]]]
    /\ UNCHANGED <<interpreter, namespace, global, lists>>

\* No memory for the request, or AcpiOsExecute fails: the method is aborted.
RequestFails(t) ==
    /\ At(t, "queued")
    /\ namespace' = Null
    /\ thread' = [thread EXCEPT ![t] = [Idle EXCEPT !.pc = "exit"]]
    /\ UNCHANGED <<interpreter, global, lists>>

\* AcpiEvNotifyDispatch, on this same thread: first the global handler.
CallGlobal(t) ==
    /\ At(t, "queued")
    /\ LET fn == global[First(thread[t].types)]
       IN  thread' = [thread EXCEPT ![t].pc = IF fn = Null THEN "walk" ELSE "global",
                                    ![t].fn = fn]
    /\ UNCHANGED <<interpreter, namespace, global, lists>>

CallLocal(t) ==
    /\ At(t, "walk")
    /\ thread[t].cursor # Null
    /\ thread' = [thread EXCEPT ![t].pc = "local", ![t].fn = handler[thread[t].cursor]]
    /\ UNCHANGED <<interpreter, namespace, global, lists>>

\* Mutant: the dispatch ends with the global handler.
GlobalHandlerOnly(t) ==
    /\ \/ /\ At(t, "global")
          /\ thread' = [thread EXCEPT ![t] = [Idle EXCEPT !.pc = "method"]]
       \/ /\ At(t, "local")
          /\ thread' = [thread EXCEPT ![t].pc = "walk", ![t].fn = Null,
                            ![t].cursor = next[@][First(thread[t].types)]]
    /\ UNCHANGED <<interpreter, namespace, global, lists>>

HandlerReturns(t) ==
    /\ \/ /\ At(t, "global")
          /\ thread' = [thread EXCEPT ![t].pc = "walk", ![t].fn = Null]
       \/ /\ At(t, "local")
          /\ thread' = [thread EXCEPT ![t].pc = "walk", ![t].fn = Null,
                            ![t].cursor = next[@][First(thread[t].types)]]
    /\ UNCHANGED <<interpreter, namespace, global, lists>>

DispatchDone(t) ==
    /\ At(t, "walk")
    /\ thread[t].cursor = Null
    /\ thread' = [thread EXCEPT ![t] = [Idle EXCEPT !.pc = "method"]]
    /\ UNCHANGED <<interpreter, namespace, global, lists>>

\* A handler evaluates a method, installs or removes a handler: it waits for a
\* lock its own thread has, and ACPICA's locks are plain semaphores.
HandlerWaitsForItself(t) ==
    /\ At(t, "global") \/ At(t, "local")
    /\ Goto(t, "stuck")
    /\ UNCHANGED <<interpreter, namespace, global, lists>>

-----------------------------------------------------------------------------
(* AcpiInstallNotifyHandler: one critical section of the namespace         *)

\* For the root: up to the first kind that is taken (AE_ALREADY_EXISTS), a
\* handler is installed.
InstallGlobal(t, fn, types) ==
    LET free == {i \in types : \A j \in types : j <= i => global[j] = Null}
    IN
    /\ At(t, "idle")
    /\ namespace = Null
    /\ free # {}
    /\ global' = [i \in NotifyTypes |-> IF i \in free THEN fn ELSE global[i]]
    /\ UNCHANGED <<interpreter, namespace, lists, thread>>

\* What is found by following succ from h: the objects every set must have that
\* has h and, with each of its objects, the next.
Reachable(h, succ) ==
    {o \in Objects : \A S \in SUBSET Objects :
        (h \in S \cup {Null} /\ \A p \in S : succ[p] \in S \cup {Null}) => o \in S}

\* The objects of list i, found by following it from its head.
Linked(i) == Reachable(head[i], [o \in Objects |-> next[o][i]])

\* Mutants: only the first kind's list is searched; each list is counted twice.
AbsentFirst(fn, types) == \A o \in Linked(First(types)) : handler[o] # fn
CountTwice(types) == 2 * Cardinality(types)

\* The handler is in none of the lists it is to be added to.
Absent(fn, types) == \A i \in types : \A o \in Linked(i) : handler[o] # fn

\* A reference for each list: AcpiUtAddReference if there are two.
References(types) == Cardinality(types)

InstallLocal(t, fn, types) ==
    /\ At(t, "idle")
    /\ namespace = Null
    /\ Absent(fn, types)
    /\ \E o \in Objects :
          /\ refs[o] = 0
          /\ refs' = [refs EXCEPT ![o] = References(types)]
          /\ handler' = [handler EXCEPT ![o] = fn]
          /\ next' = [next EXCEPT ![o] =
                         [i \in NotifyTypes |-> IF i \in types THEN head[i] ELSE Null]]
          /\ head' = [i \in NotifyTypes |-> IF i \in types THEN o ELSE head[i]]
    /\ UNCHANGED <<interpreter, namespace, global, thread>>

-----------------------------------------------------------------------------
(* AcpiRemoveNotifyHandler: a critical section for each kind               *)

BeginRemove(t, fn, types) ==
    /\ At(t, "idle")
    /\ \E pc \in {"remove", "removeRoot"} :
          thread' = [thread EXCEPT ![t] = [pc |-> pc, fn |-> fn, types |-> types,
                                           cursor |-> Null]]
    /\ UNCHANGED <<interpreter, namespace, global, lists>>

\* One kind is done: on to the next, or back to the caller.
NextType(t) ==
    LET left == thread[t].types \ {First(thread[t].types)}
    IN  thread' = [thread EXCEPT ![t] = IF left = {} THEN Idle
                                        ELSE [@ EXCEPT !.types = left]]

RemoveGlobal(t) ==
    LET i == First(thread[t].types)
    IN
    /\ At(t, "removeRoot")
    /\ namespace = Null
    /\ global[i] = thread[t].fn
    /\ global' = [global EXCEPT ![i] = Null]
    /\ NextType(t)
    /\ UNCHANGED <<interpreter, namespace, lists>>

\* AE_NOT_EXIST: what was removed for the first kind stays removed.
NotInstalled(t) ==
    LET i == First(thread[t].types)
    IN
    /\ namespace = Null
    /\ \/ At(t, "removeRoot") /\ global[i] # thread[t].fn
       \/ At(t, "remove") /\ \A o \in Linked(i) : handler[o] # thread[t].fn
    /\ thread' = [thread EXCEPT ![t] = Idle]
    /\ UNCHANGED <<interpreter, namespace, global, lists>>

\* Mutant: the head is taken off the list, whoever's handler it is.
UnlinkHead(i, o) == /\ head' = [head EXCEPT ![i] = next[@][i]]
                    /\ UNCHANGED next

\* Object o is taken out of list i: its own link stays as it is.
Unlink(i, o) ==
    /\ head' = [head EXCEPT ![i] = IF @ = o THEN next[o][i] ELSE @]
    /\ next' = [p \in Objects |->
                   IF p \in Linked(i) /\ next[p][i] = o
                   THEN [next[p] EXCEPT ![i] = next[o][i]] ELSE next[p]]

RemoveLocal(t) ==
    /\ At(t, "remove")
    /\ namespace = Null
    /\ LET i == First(thread[t].types)
       IN  \E o \in Objects \cap Linked(i) :
              /\ handler[o] = thread[t].fn
              /\ Unlink(i, o)
              /\ thread' = [thread EXCEPT ![t].pc = "unref", ![t].cursor = o]
    /\ UNCHANGED <<interpreter, namespace, global, handler, refs>>

\* After AcpiOsWaitEventsComplete, which returns at once: AcpiUtRemoveReference.
AcpiUtRemoveReference(t) ==
    LET o == thread[t].cursor
        left == thread[t].types \ {First(thread[t].types)}
    IN
    /\ At(t, "unref")
    /\ refs' = [refs EXCEPT ![o] = IF @ > 0 THEN @ - 1 ELSE @]
    /\ IF refs[o] = 1
       THEN handler' = [handler EXCEPT ![o] = Null] /\ next' = [next EXCEPT ![o] = NoLinks]
       ELSE UNCHANGED <<handler, next>>
    /\ thread' = [thread EXCEPT ![t] =
                     IF left = {} THEN Idle
                     ELSE [@ EXCEPT !.pc = "remove", !.types = left, !.cursor = Null]]
    /\ UNCHANGED <<interpreter, namespace, global, head>>

-----------------------------------------------------------------------------
MethodStep(t) == \/ AcpiExEnterInterpreter(t) \/ LockNamespace(t) \/ AcpiExExitInterpreter(t)
                 \/ \E i \in NotifyTypes : AcpiEvQueueNotifyRequest(t, i)
                 \/ RequestFails(t) \/ CallGlobal(t) \/ CallLocal(t) \/ HandlerReturns(t)
                 \/ DispatchDone(t) \/ HandlerWaitsForItself(t)

ClientStep(t) == \/ \E fn \in Handlers, types \in HandlerTypes :
                       \/ InstallGlobal(t, fn, types) \/ InstallLocal(t, fn, types)
                       \/ BeginRemove(t, fn, types)
                 \/ RemoveGlobal(t) \/ NotInstalled(t) \/ RemoveLocal(t)
                 \/ AcpiUtRemoveReference(t)

Next == \E t \in Threads : MethodStep(t) \/ ClientStep(t)

Spec == Init /\ [][Next]_vars

-----------------------------------------------------------------------------
(* Properties                                                              *)

\* The variables keep their types.
TypeOK == /\ interpreter \in Threads \cup {Null}
          /\ namespace \in Threads \cup {Null}
          /\ global \in [NotifyTypes -> Handlers \cup {Null}]
          /\ head \in [NotifyTypes -> Objects \cup {Null}]
          /\ next \in [Objects -> [NotifyTypes -> Objects \cup {Null}]]
          /\ handler \in [Objects -> Handlers \cup {Null}]
          /\ refs \in [Objects -> 0..2]
          /\ thread \in [Threads -> [pc : Outside \cup Inside \cup OnTheWay,
                                     fn : Handlers \cup {Null},
                                     types : SUBSET NotifyTypes,
                                     cursor : Objects \cup {Null}]]

\* A handler object has a reference for each list it is in and one for each
\* removal that has unlinked it and not yet let go of it: an installation in two
\* lists, a removal from one, and removals by two threads at once neither free a
\* linked object nor leave an unlinked one behind.
RefsMatchLinks ==
    \A o \in Objects :
        refs[o] = Cardinality({i \in NotifyTypes : o \in Linked(i)})
                  + Cardinality({t \in Threads : At(t, "unref") /\ thread[t].cursor = o})

\* A list has no two objects of one handler, so a removal removes it.
OneObjectPerHandler ==
    \A i \in NotifyTypes : \A o, p \in Linked(i) :
        handler[o] = handler[p] => o = p

\* From the request to the end of the list.
Dispatching == {"queued", "global", "walk", "local"}

\* A handler that runs is installed, and so is the object the dispatch is at:
\* once AcpiRemoveNotifyHandler has unlinked a handler it does not run and its
\* object is not read, although nothing waits for dispatches under way.
RunningIsInstalled ==
    \A t \in Threads :
        LET i == First(thread[t].types)
        IN  /\ At(t, "global") => global[i] = thread[t].fn
            /\ thread[t].pc \in Dispatching =>
                  thread[t].cursor \in Linked(i) \cup {Null}
            /\ At(t, "local") => handler[thread[t].cursor] = thread[t].fn

\* Handlers run one at a time, in the interpreter and with the namespace locked:
\* the work loop's gate is never contended, and nobody installs or removes a
\* handler while one runs.
DispatchIsExclusive ==
    \A t \in Threads : thread[t].pc \in Inside => interpreter = t /\ namespace = t

\* The objects whose handlers a dispatch has still to call: those that follow, and the
\* one it is at, unless that one's handler runs already.
ToCall(t) ==
    LET i == First(thread[t].types)
    IN  {o \in Reachable(thread[t].cursor, [p \in Objects |-> next[p][i]]) :
            At(t, "local") => o # thread[t].cursor}

\* The notify handlers as those who install them see them: a handler is its address, a
\* list is a set of handlers, and a dispatch is what it has still to call.
Root   == [i \in NotifyTypes |-> {global[i]} \ {Null}]
Device == [i \in NotifyTypes |-> {handler[o] : o \in Linked(i)}]
Calls(t) == ({"root"} \X {fn \in Root[First(thread[t].types)] : At(t, "queued")})
            \cup ({"device"} \X {handler[o] : o \in ToCall(t)})
Due    == [t \in Threads |-> IF thread[t].pc \in Dispatching THEN Calls(t) ELSE {}]
Runs   == [t \in Threads |-> IF thread[t].pc \in {"global", "local", "stuck"}
                             THEN thread[t].fn ELSE Null]
Stuck  == {t \in Threads : At(t, "stuck")}

Delivery == INSTANCE NotifyDelivery WITH Kinds <- NotifyTypes, root <- Root, device <- Device,
                                         due <- Due, runs <- Runs, stuck <- Stuck

\* A notification calls every handler that is installed when it is made, once, and no
\* other, the global one first; a removal takes off one handler and an installation
\* puts on one, never while a notification is delivered; a reference that is given back
\* is none of their business.
ImplementsDelivery == Delivery!Spec

\* "The notify handlers are NOT invoked synchronously from this thread -- because
\* handlers may in turn run other control methods" (exoparg2.c): a handler runs on
\* a thread that is not in the interpreter.
NotInvokedSynchronously ==
    \A t \in Threads : At(t, "global") \/ At(t, "local") => interpreter # t
=============================================================================
