-------------------------- MODULE PciConfiguration --------------------------
(***************************************************************************)
(* PCI configuration space access of the Darwin OS layer (osdarwin.c):     *)
(* AcpiOsReadPciConfiguration and AcpiOsWritePciConfiguration find the     *)
(* ECAM window once, from the MCFG table, and then go through a temporary  *)
(* memory mapping or through the ports 0xCF8 and 0xCFC.                    *)
(*                                                                         *)
(* Two callers matter. AcpiExPciConfigSpaceHandler runs with the AML       *)
(* interpreter locked; AcpiHwGetPciDeviceInfo, under the region's setup,   *)
(* runs with the interpreter released. Nothing else orders the accesses.   *)
(* What is tracked of an access is the register it reaches, not the data.  *)
(***************************************************************************)
EXTENDS Naturals

CONSTANTS Threads,        (* the threads that access configuration space     *)
          NoThread,       (* nobody holds the interpreter                    *)
          Requests,       (* accesses the AML interpreter makes              *)
          SetupRequests,  (* the bridge registers AcpiHwGetPciDeviceInfo reads *)
          Allocation,     (* the first ACPI_MCFG_ALLOCATION of the table     *)
          MaxMaps         (* mappings the kernel has room for                *)

\* Buses, devices, functions and registers in the ranges of the hardware.
Request == [op : {"read", "write"}, seg : Nat, bus : 0..255, dev : 0..31,
            fn : 0..7, reg : 0..4095, width : {8, 16, 32, 64}]

ASSUME PciAssumption ==
    /\ NoThread \notin Threads
    /\ Requests \subseteq Request /\ SetupRequests \subseteq Request
    /\ Requests \cap SetupRequests = {}
    /\ Allocation \in [seg : Nat, start : 0..255, end : 0..255]
    /\ MaxMaps \in Nat

-----------------------------------------------------------------------------
(* Addresses, without the enable bit and relative to the window's base     *)

\* The address the port method writes to 0xCF8: Register & 0xFC.
PortAddress(r) == r.bus * 65536 + r.dev * 2048 + r.fn * 256
                    + ((r.reg % 256) \div 4) * 4

\* The port, relative to 0xCFC, it then uses.
DataPort(r) == CASE r.width = 8  -> r.reg % 4
                 [] r.width = 16 -> ((r.reg \div 2) % 2) * 2
                 [] OTHER        -> 0

\* The ECAM offset: Bus << 20, Device << 15, Function << 12, Register.
MmioOffset(r) == r.bus * 1048576 + r.dev * 32768 + r.fn * 4096 + r.reg

\* What the hardware makes of them: the host bridge's two ports serve segment 0,
\* the window serves the buses of its allocation.
PortTarget(addr, port) == [by |-> "port", seg |-> 0, bus |-> addr \div 65536,
                           dev |-> (addr \div 2048) % 32, fn |-> (addr \div 256) % 8,
                           reg |-> (addr % 256) + port]

MmioTarget(off) ==
    LET bus == off \div 1048576
    IN  IF bus \in Allocation.start..Allocation.end
        THEN [by |-> "mmio", seg |-> Allocation.seg, bus |-> bus,
              dev |-> (off \div 32768) % 32, fn |-> (off \div 4096) % 8, reg |-> off % 4096]
        ELSE [by |-> "nobody"]

Nothing == [by |-> "nothing"]

-----------------------------------------------------------------------------
VARIABLES initialized,   (* gPciEcamInitialized                              *)
          based,         (* gPciEcamBase # 0                                 *)
          startBus,      (* gPciStartBus                                     *)
          endBus,        (* gPciEndBus                                       *)
          configAddress, (* the latch behind port 0xCF8                      *)
          maps,          (* entries of gAcpiOsExtMemoryMapSet                *)
          interpreter,   (* who holds the AML interpreter                    *)
          pc,            (* where each thread is in its access               *)
          req,           (* the access it makes                              *)
          result,        (* the register it reached                          *)
          disturbed,     (* history: the latch was moved between its two     *)
                         (* port accesses, in which a setup read had a part  *)
          lookupFailed   (* history: some AcpiGetTable of the MCFG failed    *)

ecam == <<initialized, based, startBus, endBus>>
vars == <<ecam, configAddress, maps, interpreter, pc, req, result, disturbed, lookupFailed>>

NoRequest == [width |-> 0]

Init == /\ initialized = FALSE /\ based = FALSE /\ startBus = 0 /\ endBus = 0
        /\ configAddress = 0
        /\ maps = 0
        /\ interpreter = NoThread
        /\ pc = [t \in Threads |-> "idle"]
        /\ req = [t \in Threads |-> NoRequest]
        /\ result = [t \in Threads |-> Nothing]
        /\ disturbed = [t \in Threads |-> FALSE]
        /\ lookupFailed = FALSE

AllIdle == \A t \in Threads : pc[t] = "idle"

Goto(t, from, to) == pc[t] = from /\ pc' = [pc EXCEPT ![t] = to]

\* Widths other than 8, 16 and 32 are refused with AE_BAD_PARAMETER.
Begin(t, r) ==
    /\ Goto(t, "idle", IF r.width \in {8, 16, 32} THEN "ecam" ELSE "return")
    /\ req' = [req EXCEPT ![t] = r]
    /\ UNCHANGED <<ecam, configAddress, maps, result, disturbed, lookupFailed>>

\* Mutant: the handler runs with the interpreter released.
RegionAccessUnlocked(t, r) ==
    /\ UNCHANGED interpreter
    /\ Begin(t, r)

\* AcpiExPciConfigSpaceHandler, inside the interpreter.
RegionAccess(t, r) ==
    /\ interpreter = NoThread
    /\ interpreter' = t
    /\ Begin(t, r)

\* AcpiHwGetPciDeviceInfo, outside of it.
SetupAccess(t, r) ==
    /\ UNCHANGED interpreter
    /\ Begin(t, r)

-----------------------------------------------------------------------------
(* AcpiOsInitializePciEcam: nothing orders two threads inside it           *)

EcamReady(t) ==
    /\ initialized
    /\ Goto(t, "ecam", "dispatch")
    /\ UNCHANGED <<ecam, configAddress, maps, interpreter, req, result, disturbed, lookupFailed>>

EcamFound(t) ==
    /\ ~initialized
    /\ Goto(t, "ecam", "base")
    /\ UNCHANGED <<ecam, configAddress, maps, interpreter, req, result, disturbed, lookupFailed>>

\* There is no MCFG table, or it cannot be mapped now.
EcamNotFound(t) ==
    /\ ~initialized
    /\ Goto(t, "ecam", "flag")
    /\ lookupFailed' = TRUE
    /\ UNCHANGED <<ecam, configAddress, maps, interpreter, req, result, disturbed>>

\* Mutant: the flag is set with the base, before the bus range.
SetBaseAndFlag(t) ==
    /\ Goto(t, "base", "start")
    /\ based' = TRUE
    /\ initialized' = TRUE
    /\ UNCHANGED <<startBus, endBus, configAddress, maps, interpreter, req,
                   result, disturbed, lookupFailed>>

SetBase(t) ==
    /\ Goto(t, "base", "start")
    /\ based' = TRUE
    /\ UNCHANGED <<initialized, startBus, endBus, configAddress, maps, interpreter, req,
                   result, disturbed, lookupFailed>>

\* The segment number is taken for the first bus.
SetStartBus(t) ==
    /\ Goto(t, "start", "end")
    /\ startBus' = Allocation.seg
    /\ UNCHANGED <<initialized, based, endBus, configAddress, maps, interpreter, req,
                   result, disturbed, lookupFailed>>

SetEndBus(t) ==
    /\ Goto(t, "end", "flag")
    /\ endBus' = Allocation.end
    /\ UNCHANGED <<initialized, based, startBus, configAddress, maps, interpreter, req,
                   result, disturbed, lookupFailed>>

SetInitialized(t) ==
    /\ Goto(t, "flag", "dispatch")
    /\ initialized' = TRUE
    /\ UNCHANGED <<based, startBus, endBus, configAddress, maps, interpreter, req,
                   result, disturbed, lookupFailed>>

-----------------------------------------------------------------------------
(* The access                                                              *)

InWindow(r) == based /\ r.bus >= startBus /\ r.bus <= endBus

Dispatch(t) ==
    /\ Goto(t, "dispatch", IF InWindow(req[t]) THEN "map" ELSE "address")
    /\ UNCHANGED <<ecam, configAddress, maps, interpreter, req, result, disturbed, lookupFailed>>

\* AcpiOsMapMemory of the register: a new map in gAcpiOsExtMemoryMapSet.
MapRegister(t) ==
    /\ maps < MaxMaps
    /\ Goto(t, "map", "mmio")
    /\ maps' = maps + 1
    /\ UNCHANGED <<ecam, configAddress, interpreter, req, result, disturbed, lookupFailed>>

\* Mutant: the error path unmaps what it could not map.
MapFailsUnmaps(t) ==
    /\ Goto(t, "map", "return")
    /\ maps' = IF maps > 0 THEN maps - 1 ELSE maps
    /\ UNCHANGED <<ecam, configAddress, interpreter, req, result, disturbed, lookupFailed>>

\* AE_NO_MEMORY.
MapFails(t) ==
    /\ Goto(t, "map", "return")
    /\ UNCHANGED <<ecam, configAddress, maps, interpreter, req, result, disturbed, lookupFailed>>

AccessMmio(t) ==
    /\ Goto(t, "mmio", "unmap")
    /\ result' = [result EXCEPT ![t] = MmioTarget(MmioOffset(req[t]))]
    /\ UNCHANGED <<ecam, configAddress, maps, interpreter, req, disturbed, lookupFailed>>

\* Mutant: the register is unmapped in the switch and again after it.
UnmapTwice(t) ==
    /\ Goto(t, "unmap", "return")
    /\ maps' = maps - 2
    /\ UNCHANGED <<ecam, configAddress, interpreter, req, result, disturbed, lookupFailed>>

\* AcpiOsUnmapMemory calls AcpiOsExtUnmapMemory without its second argument: the
\* size it compares with is whatever is in the register, so the map is removed
\* or stays.
UnmapRegister(t) ==
    /\ Goto(t, "unmap", "return")
    /\ maps' \in {maps - 1, maps}
    /\ UNCHANGED <<ecam, configAddress, interpreter, req, result, disturbed, lookupFailed>>

\* Write the address to 0xCF8. Every thread that has written its own is now
\* at this one's register.
WriteAddressPort(t) ==
    /\ Goto(t, "address", "data")
    /\ configAddress' = PortAddress(req[t])
    /\ disturbed' = [u \in Threads |->
                       \/ disturbed[u]
                       \/ /\ u # t /\ pc[u] = "data"
                          /\ {req[t], req[u]} \cap SetupRequests # {}]
    /\ UNCHANGED <<ecam, maps, interpreter, req, result, lookupFailed>>

AccessDataPort(t) ==
    /\ Goto(t, "data", "return")
    /\ result' = [result EXCEPT ![t] = PortTarget(configAddress, DataPort(req[t]))]
    /\ UNCHANGED <<ecam, configAddress, maps, interpreter, req, disturbed, lookupFailed>>

\* Back in the caller, which leaves the interpreter if it was in it.
Return(t) ==
    /\ Goto(t, "return", "idle")
    /\ interpreter' = IF interpreter = t THEN NoThread ELSE interpreter
    /\ req' = [req EXCEPT ![t] = NoRequest]
    /\ result' = [result EXCEPT ![t] = Nothing]
    /\ disturbed' = [disturbed EXCEPT ![t] = FALSE]
    /\ UNCHANGED <<ecam, configAddress, maps, lookupFailed>>

\* AcpiOsTerminate forgets the window; no access is under way in AcpiTerminate.
AcpiOsTerminate ==
    /\ AllIdle
    /\ initialized' = FALSE /\ based' = FALSE /\ startBus' = 0 /\ endBus' = 0
    /\ lookupFailed' = FALSE
    /\ UNCHANGED <<configAddress, maps, interpreter, pc, req, result, disturbed>>

-----------------------------------------------------------------------------
Step(t) == \/ EcamReady(t) \/ EcamFound(t) \/ EcamNotFound(t)
           \/ SetBase(t) \/ SetStartBus(t) \/ SetEndBus(t) \/ SetInitialized(t)
           \/ Dispatch(t) \/ MapRegister(t) \/ MapFails(t) \/ AccessMmio(t)
           \/ UnmapRegister(t) \/ WriteAddressPort(t) \/ AccessDataPort(t) \/ Return(t)

Next == \/ \E t \in Threads : \/ \E r \in Requests : RegionAccess(t, r)
                              \/ \E r \in SetupRequests : SetupAccess(t, r)
                              \/ Step(t)
        \/ AcpiOsTerminate

Spec == Init /\ [][Next]_vars

-----------------------------------------------------------------------------
(* Properties                                                              *)

\* What the latch holds of an address: 24 bits.
Latched == {a \in Nat : a < 16777216}

\* The variables keep their types.
TypeOK == /\ initialized \in BOOLEAN /\ based \in BOOLEAN
          /\ startBus \in Nat /\ endBus \in 0..255
          /\ configAddress \in Latched
          /\ maps \in 0..MaxMaps
          /\ interpreter \in Threads \cup {NoThread}
          /\ pc \in [Threads -> {"idle", "ecam", "base", "start", "end", "flag", "dispatch",
                                 "map", "mmio", "unmap", "address", "data", "return"}]
          /\ req \in [Threads -> Request \cup {NoRequest}]
          /\ disturbed \in [Threads -> BOOLEAN]
          /\ lookupFailed \in BOOLEAN

\* The registers that a request may reach. The ports serve segment 0 and 256 bytes
\* of it, in units of the width; the window serves the segment of its allocation.
\* The segment asked for is not looked at.
Unit(r) == r.width \div 8
ByPort(r) == [by |-> "port", seg |-> 0, bus |-> r.bus, dev |-> r.dev, fn |-> r.fn,
              reg |-> ((r.reg % 256) \div Unit(r)) * Unit(r)]
ByMmio(r) == [by |-> "mmio", seg |-> Allocation.seg, bus |-> r.bus, dev |-> r.dev,
              fn |-> r.fn, reg |-> r.reg]

\* An access reaches its own register by one of the two methods unless it raced with
\* a region setup's read, which is made outside the interpreter: region handlers never
\* misdirect each other, whatever they find of the window, and the encodings of both
\* methods are right. Only below the first bus of the window does nobody answer: the
\* code compares with the segment number instead.
AccessReaches ==
    \A t \in Threads : result[t] # Nothing /\ ~disturbed[t] =>
        \/ result[t] \in {ByPort(req[t]), ByMmio(req[t])}
        \/ result[t].by = "nobody" /\ req[t].bus < Allocation.start

\* A thread that decides between the two methods sees the whole window or none
\* of it, unless an AcpiGetTable failed: gPciEcamInitialized is set after the
\* base and the bus range by every thread that found the table.
WindowComplete ==
    \A t \in Threads : pc[t] = "dispatch" /\ based /\ ~lookupFailed =>
        startBus = Allocation.seg /\ endBus = Allocation.end

\* A thread only dereferences a mapping that is still in the set, however the
\* threads' map and unmap calls interleave: no unmap removes more than its own.
MapsCoverAccesses ==
    \A t, u \in Threads : pc[t] \in {"mmio", "unmap"} /\ pc[u] \in {"mmio", "unmap"} =>
        maps >= (IF t = u THEN 1 ELSE 2)
=============================================================================
