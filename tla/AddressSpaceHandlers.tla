------------------------ MODULE AddressSpaceHandlers ------------------------
(***************************************************************************)
(* The address space handlers of PDACPIPlatformExpert: a client registers  *)
(* a handler and a context for the embedded controller (EC) or the SMBus,  *)
(* readAddressSpace calls the handler. Nothing locks the two members of a  *)
(* space: each is stored and loaded on its own, in the order the compiler  *)
(* chooses, and may be loaded again for the call.                          *)
(*                                                                         *)
(* System memory and system I/O are read without any state; a registration *)
(* for any other space changes nothing. Both are left out.                 *)
(***************************************************************************)
EXTENDS Naturals

CONSTANTS Threads,       (* the threads that register and remove handlers    *)
          Readers,       (* those of them that read                          *)
          Clients,       (* who registers: also the name of its handler      *)
          WithContext,   (* those that register a context: also its name     *)
          Null,          (* nullptr                                          *)
          MaxWrites      (* bound on the registrations and removals made     *)

ASSUME HandlerAssumption == /\ Readers \subseteq Threads
                            /\ WithContext \subseteq Clients
                            /\ Null \notin Clients
                            /\ MaxWrites \in Nat

Spaces  == {"EC", "SMBus"}
Members == {"handler", "context"}
Pair    == [handler : Clients \cup {Null}, context : WithContext \cup {Null}]
NoPair  == [handler |-> Null, context |-> Null]

Thread == [pc     : {"idle", "register", "unregister", "load", "call", "called", "none"},
           space  : Spaces,                  (* the space it works on        *)
           asked  : Spaces,                  (* the space it was called for  *)
           client : Clients \cup {Null},     (* who called                   *)
           todo   : SUBSET Members,          (* yet to be stored or loaded   *)
           seen   : Pair]                    (* what a reader has loaded     *)

Idle == [pc |-> "idle", space |-> "SMBus", asked |-> "SMBus", client |-> Null,
         todo |-> {}, seen |-> NoPair]

VARIABLES members,    (* m_ecSpaceHandler, m_ecSpaceContext, m_smbusSpace... *)
          thread,     (* where each thread is                                *)
          enrolled,   (* by space, the clients with a handler to remove      *)
          writes,     (* history: registrations and removals begun, by space *)
          mixed,      (* history: spaces two writers were in at once, until  *)
                      (* the next writer that was there alone                *)
          overlapped  (* history: readers a writer was at work beside        *)

vars == <<members, thread, enrolled, writes, mixed, overlapped>>

Init == /\ members = [s \in Spaces |-> NoPair]
        /\ thread = [t \in Threads |-> Idle]
        /\ enrolled = [s \in Spaces |-> {}]
        /\ writes = [s \in Spaces |-> 0]
        /\ mixed = {}
        /\ overlapped = {}

Writers(s) == {t \in Threads : thread[t].pc \in {"register", "unregister"}
                                 /\ thread[t].space = s}
Reading    == {t \in Threads : thread[t].pc \in {"load", "call", "called", "none"}}

\* A null handler was called: nothing goes on.
Panicked == \E t \in Threads : thread[t].pc = "called" /\ thread[t].seen.handler = Null

At(t, where) == ~Panicked /\ thread[t].pc = where

-----------------------------------------------------------------------------
(* registerAddressSpaceHandler and unregisterAddressSpaceHandler           *)

\* A write disturbs every reader: one may come down from the EC to the SMBus.
BeginWrite(t, what, s, c) ==
    /\ At(t, "idle")
    /\ c \notin {thread[u].client : u \in Writers(s)}
    /\ writes["EC"] + writes["SMBus"] < MaxWrites
    /\ thread' = [thread EXCEPT ![t] = [Idle EXCEPT !.pc = what, !.space = s,
                                                    !.client = c, !.todo = Members]]
    /\ writes' = [writes EXCEPT ![s] = @ + 1]
    /\ mixed' = IF Writers(s) = {} THEN mixed \ {s} ELSE mixed \cup {s}
    /\ overlapped' = overlapped \cup Reading
    /\ UNCHANGED members

\* A client registers its handler once, and may remove it after that.
registerAddressSpaceHandler(t, s, c) ==
    /\ c \notin enrolled[s]
    /\ BeginWrite(t, "register", s, c)
    /\ enrolled' = [enrolled EXCEPT ![s] = @ \cup {c}]

\* The handler to remove is named, but not looked at.
unregisterAddressSpaceHandler(t, s, c) ==
    /\ c \in enrolled[s]
    /\ BeginWrite(t, "unregister", s, c)
    /\ enrolled' = [enrolled EXCEPT ![s] = @ \ {c}]

\* Mutant: both members are stored from the same argument.
StoredTwice(t, m) == IF thread[t].pc = "unregister" THEN Null ELSE thread[t].client

\* What a writer stores: its client's handler and context, or nullptr twice.
Stored(t, m) == IF \/ thread[t].pc = "unregister"
                   \/ m = "context" /\ thread[t].client \notin WithContext
                THEN Null ELSE thread[t].client

\* The write is over after the second of its stores.
Store(t, m) ==
    /\ At(t, "register") \/ At(t, "unregister")
    /\ m \in thread[t].todo
    /\ members' = [members EXCEPT ![thread[t].space][m] = Stored(t, m)]
    /\ thread' = [thread EXCEPT ![t] = IF thread[t].todo = {m} THEN Idle
                                       ELSE [thread[t] EXCEPT !.todo = @ \ {m}]]
    /\ UNCHANGED <<enrolled, writes, mixed, overlapped>>

-----------------------------------------------------------------------------
(* readAddressSpace                                                        *)

readVars == <<members, enrolled, writes, mixed>>

readAddressSpace(t, s) ==
    /\ t \in Readers
    /\ At(t, "idle")
    /\ thread' = [thread EXCEPT ![t] = [Idle EXCEPT !.pc = "load", !.space = s,
                                                    !.asked = s, !.todo = Members]]
    /\ overlapped' = IF \E u \in Spaces : Writers(u) # {}
                     THEN overlapped \cup {t} ELSE overlapped
    /\ UNCHANGED readVars

\* A member is loaded for the test, and perhaps once more for the call.
Load(t, m) ==
    /\ At(t, "load") \/ At(t, "call")
    /\ m \in thread[t].todo
    /\ thread' = [thread EXCEPT ![t].seen[m] = members[thread[t].space][m],
                                ![t].todo = @ \ {m}]
    /\ UNCHANGED <<readVars, overlapped>>

\* Mutants: the context is not tested; an EC read without a handler ends there.
CallableUntested(pair) == pair.handler # Null
BelowNothing(s)        == {}

Callable(pair) == pair.handler # Null /\ pair.context # Null

\* The case of the EC has no break: what its read goes on to.
Below(s) == IF s = "EC" THEN {"SMBus"} ELSE {}

TestPassed(t) ==
    /\ At(t, "load") /\ thread[t].todo = {}
    /\ Callable(thread[t].seen)
    /\ thread' = [thread EXCEPT ![t].pc = "call", ![t].todo = Members]
    /\ UNCHANGED <<readVars, overlapped>>

\* Without a handler nothing is read, and what is returned is indeterminate.
TestFailed(t) ==
    /\ At(t, "load") /\ thread[t].todo = {}
    /\ ~Callable(thread[t].seen)
    /\ \/ \E s \in Below(thread[t].space) :
            thread' = [thread EXCEPT ![t].space = s, ![t].todo = Members]
       \/ /\ Below(thread[t].space) = {}
          /\ thread' = [thread EXCEPT ![t].pc = "none"]
    /\ UNCHANGED <<readVars, overlapped>>

Call(t) ==
    /\ At(t, "call")
    /\ thread' = [thread EXCEPT ![t].pc = "called", ![t].todo = {}]
    /\ UNCHANGED <<readVars, overlapped>>

Return(t) ==
    /\ At(t, "called") \/ At(t, "none")
    /\ thread' = [thread EXCEPT ![t] = Idle]
    /\ overlapped' = overlapped \ {t}
    /\ UNCHANGED readVars

-----------------------------------------------------------------------------
Write(t) == \/ \E s \in Spaces, c \in Clients : \/ registerAddressSpaceHandler(t, s, c)
                                                \/ unregisterAddressSpaceHandler(t, s, c)
            \/ \E m \in Members : Store(t, m)

Read(t) == \/ \E s \in Spaces : readAddressSpace(t, s)
           \/ \E m \in Members : Load(t, m)
           \/ TestPassed(t) \/ TestFailed(t) \/ Call(t) \/ Return(t)

Next == \/ \E t \in Threads : Write(t) \/ Read(t)
        \/ Panicked /\ UNCHANGED vars

Spec == Init /\ [][Next]_vars

-----------------------------------------------------------------------------
(* Properties                                                              *)

\* The variables keep their types: a context member never holds a handler.
TypeOK == /\ members \in [Spaces -> Pair]
          /\ thread \in [Threads -> Thread]
          /\ enrolled \in [Spaces -> SUBSET Clients]
          /\ writes \in [Spaces -> 0..MaxWrites]
          /\ mixed \subseteq Spaces
          /\ overlapped \subseteq Threads

\* The first registration of a space is never seen half: a read that runs beside
\* it calls the whole pair or nothing, whatever the order of the stores, of the
\* loads and of the loads made again. It takes the test of both members.
FirstRegistrationWhole ==
    \A t \in Threads :
        thread[t].pc = "called" /\ writes[thread[t].space] = 1 =>
            /\ thread[t].seen.handler # Null
            /\ thread[t].seen.context = thread[t].seen.handler

\* What a read without interference does with the members it finds.
Expected(s) == IF Callable(members[s]) THEN members[s] ELSE NoPair

\* A read that no registration or removal overlapped calls the handler that is
\* registered, with its own context, and an EC read reaches the SMBus handler, or
\* nothing, only when the EC has none: its outcome is that of one moment, unless
\* two writers left a pair mixed.
QuietRead ==
    \A t \in Threads \ overlapped :
        LET th == thread[t] IN
        /\ th.pc = "called" => /\ th.seen = Expected(th.space)
                               /\ th.space \notin mixed => th.seen.context = th.seen.handler
                               /\ th.space # th.asked => Expected(th.asked) = NoPair
        /\ th.pc = "none" => Expected(th.asked) = NoPair /\ Expected("SMBus") = NoPair
=============================================================================
