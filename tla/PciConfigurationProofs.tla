----------------------- MODULE PciConfigurationProofs -----------------------
(***************************************************************************)
(* Proofs about the accesses to PCI configuration space, for any threads,  *)
(* any requests in the hardware's ranges and any window of the MCFG.       *)
(*                                                                         *)
(* Three arguments that do not need each other: a mapping is counted as    *)
(* long as a thread uses it (Counted); what a thread has found of the      *)
(* window is published before the flag (WindowPublished); and the latch    *)
(* of the ports holds the address of a thread that has written it, unless  *)
(* a setup access came in between (Latched), because of the threads with a *)
(* region's request only one is in the interpreter (Asked).                *)
(***************************************************************************)
EXTENDS PciConfiguration, FiniteSetTheorems, TLAPS

-----------------------------------------------------------------------------
(* Addresses are decoded to what they encode                               *)

\* A register modulo 256, in units of one, two and four bytes, is the address, which
\* drops the two low bits, and the port.
Register(g) == g \in 0..4095

SplitAt(g, q) == /\ q \in 0..63
                 /\ q * 4 + (g % 4) = ((g % 256) \div 1) * 1
                 /\ q * 4 + ((g \div 2) % 2) * 2 = ((g % 256) \div 2) * 2
                 /\ q * 4 = ((g % 256) \div 4) * 4

LEMMA LowBits ==
  ASSUME NEW g, Register(g)
  PROVE  SplitAt(g, (g % 256) \div 4)
  <1>1. g \in Nat /\ g <= 4095
    BY SMT DEF Register
  <1>2. PICK h \in Nat, m \in Nat : h = g \div 256 /\ m = g % 256
    BY ONLY <1>1, SMT
  <1>3. m < 256 /\ g = 256 * h + m
    BY ONLY <1>1, <1>2, SMT
  <1>4. PICK q \in Nat, x \in Nat : q = m \div 4 /\ x = m % 4
    BY ONLY m \in Nat, SMT
  <1>5. x < 4 /\ m = 4 * q + x
    BY ONLY m \in Nat, <1>4, SMT
  <1>6. g % 4 = x
    <2>1. PICK n \in Nat : n = 64 * h + q
      BY ONLY h \in Nat, q \in Nat, SMT
    <2>2. g = 4 * n + x
      BY ONLY <1>3, <1>5, <2>1, SMT
    <2> QED BY ONLY <1>1, <1>5, <2>2, n \in Nat, x \in Nat, SMT
  <1>7. q \in 0..63 /\ x \in 0..3
    BY ONLY <1>3, <1>5, m \in Nat, q \in Nat, x \in Nat, SMT
  <1>8. ((g \div 2) % 2) * 2 + q * 4 = (m \div 2) * 2
    <2>1. PICK y \in Nat, z \in Nat : y = x \div 2 /\ z = x % 2
      BY ONLY x \in Nat, SMT
    <2>2. x = 2 * y + z /\ z < 2 /\ y < 2
      BY ONLY <1>5, <2>1, x \in Nat, SMT
    <2>3. PICK n \in Nat : n = 128 * h + 2 * q + y
      BY ONLY h \in Nat, q \in Nat, y \in Nat, SMT
    <2>4. g = 2 * n + z
      BY ONLY <1>3, <1>5, <2>2, <2>3, SMT
    <2>5. g \div 2 = n
      BY ONLY <1>1, <2>2, <2>4, n \in Nat, z \in Nat, SMT
    <2>6. PICK k \in Nat : k = 64 * h + q
      BY ONLY h \in Nat, q \in Nat, SMT
    <2>7. n = 2 * k + y
      BY ONLY <2>3, <2>6, SMT
    <2>8. n % 2 = y
      BY ONLY <2>2, <2>7, n \in Nat, k \in Nat, y \in Nat, SMT
    <2>9. PICK l \in Nat : l = 2 * q + y
      BY ONLY q \in Nat, y \in Nat, SMT
    <2>10. m = 2 * l + z
      BY ONLY <1>5, <2>2, <2>9, SMT
    <2>11. m \div 2 = l
      BY ONLY <2>2, <2>10, m \in Nat, l \in Nat, z \in Nat, SMT
    <2> QED BY ONLY <2>5, <2>8, <2>9, <2>11, q \in Nat, y \in Nat, SMT
  <1>9. (m \div 1) * 1 = m
    BY ONLY m \in Nat, SMT
  <1>10. SplitAt(g, q)
    <2>1. q * 4 + (g % 4) = ((g % 256) \div 1) * 1
      BY ONLY <1>2, <1>5, <1>6, <1>9, m \in Nat, q \in Nat, x \in Nat, SMT
    <2>2. q * 4 + ((g \div 2) % 2) * 2 = ((g % 256) \div 2) * 2
      <3>1. PICK y \in Nat : y = (g \div 2) % 2
        BY ONLY <1>1, SMT
      <3> QED BY ONLY <1>2, <1>8, <3>1, q \in Nat, SMT
    <2>3. q * 4 = ((g % 256) \div 4) * 4
      BY ONLY <1>2, <1>4
    <2> QED BY ONLY <1>7, <2>1, <2>2, <2>3 DEF SplitAt
  <1> QED BY ONLY <1>2, <1>4, <1>10

Port(b, d, f, q) == b * 65536 + d * 2048 + f * 256 + q * 4
Mmio(b, d, f, g) == b * 1048576 + d * 32768 + f * 4096 + g

Device(b, d, f) == b \in 0..255 /\ d \in 0..31 /\ f \in 0..7

PortDecoded(a, b, d, f, q) == /\ a \in Nat /\ a \in Latched
                              /\ a \div 65536 = b
                              /\ (a \div 2048) % 32 = d
                              /\ (a \div 256) % 8 = f
                              /\ a % 256 = q * 4

MmioDecoded(a, b, d, f, g) == /\ a \div 1048576 = b
                              /\ (a \div 32768) % 32 = d
                              /\ (a \div 4096) % 8 = f
                              /\ a % 4096 = g

LEMMA LatchedIs == ASSUME NEW a \in Nat, a <= 16777215
                   PROVE  a \in Latched
  BY SMT DEF Latched

LEMMA PortFields ==
  ASSUME NEW b, NEW d, NEW f, NEW q, Device(b, d, f), q \in 0..63
  PROVE  PortDecoded(Port(b, d, f, q), b, d, f, q)
  <1>1. /\ b \in Nat /\ d \in Nat /\ f \in Nat /\ q \in Nat
        /\ b <= 255 /\ d <= 31 /\ f <= 7 /\ q <= 63
    BY SMT DEF Device
  <1>2. PICK a : a = Port(b, d, f, q)
    OBVIOUS
  <1>3. a = b * 65536 + d * 2048 + f * 256 + q * 4
    BY <1>2, SMT DEF Port
  <1>4. a \in Nat /\ a \in Latched
    <2>1. a \in Nat /\ a <= 16777215
      BY ONLY <1>1, <1>3, SMT
    <2> QED BY ONLY <2>1, LatchedIs
  <1>5. PICK x \in Nat : x = d * 2048 + f * 256 + q * 4
    BY ONLY <1>1, SMT
  <1>6. PICK y \in Nat : y = f * 256 + q * 4
    BY ONLY <1>1, SMT
  <1>7. PICK u \in Nat : u = 32 * b + d
    BY ONLY <1>1, SMT
  <1>8. PICK v \in Nat : v = 8 * u + f
    BY ONLY <1>1, SMT
  <1>9. a \div 65536 = b
    <2>1. a = 65536 * b + x /\ x < 65536
      BY ONLY <1>1, <1>3, <1>5, SMT
    <2> QED BY ONLY <1>1, <1>4, <2>1, x \in Nat, SMT
  <1>10. a \div 2048 = u /\ u % 32 = d
    <2>1. a = 2048 * u + y /\ y < 2048
      BY ONLY <1>1, <1>3, <1>6, <1>7, SMT
    <2>2. a \div 2048 = u
      BY ONLY <1>4, <2>1, y \in Nat, u \in Nat, SMT
    <2>3. u % 32 = d
      BY ONLY <1>1, <1>7, SMT
    <2> QED BY <2>2, <2>3
  <1>11. a \div 256 = v /\ a % 256 = q * 4 /\ v % 8 = f
    <2>1. a = 256 * v + q * 4 /\ q * 4 < 256
      BY ONLY <1>1, <1>3, <1>7, <1>8, SMT
    <2>2. a \div 256 = v /\ a % 256 = q * 4
      BY ONLY <1>1, <1>4, <2>1, v \in Nat, SMT
    <2>3. v % 8 = f
      BY ONLY <1>1, <1>8, u \in Nat, SMT
    <2> QED BY <2>2, <2>3
  <1> QED BY ONLY <1>2, <1>4, <1>9, <1>10, <1>11, SMT DEF PortDecoded

LEMMA MmioFields ==
  ASSUME NEW b, NEW d, NEW f, NEW g, Device(b, d, f), Register(g)
  PROVE  MmioDecoded(Mmio(b, d, f, g), b, d, f, g)
  <1>1. /\ b \in Nat /\ d \in Nat /\ f \in Nat /\ g \in Nat
        /\ b <= 255 /\ d <= 31 /\ f <= 7 /\ g <= 4095
    BY SMT DEF Device, Register
  <1>2. PICK a : a = Mmio(b, d, f, g)
    OBVIOUS
  <1>3. a = b * 1048576 + d * 32768 + f * 4096 + g
    BY <1>2, SMT DEF Mmio
  <1>4. a \in Nat
    BY ONLY <1>1, <1>3, SMT
  <1>5. PICK x \in Nat : x = d * 32768 + f * 4096 + g
    BY ONLY <1>1, SMT
  <1>6. PICK y \in Nat : y = f * 4096 + g
    BY ONLY <1>1, SMT
  <1>7. PICK u \in Nat : u = 32 * b + d
    BY ONLY <1>1, SMT
  <1>8. PICK v \in Nat : v = 8 * u + f
    BY ONLY <1>1, SMT
  <1>9. a \div 1048576 = b
    <2>1. a = 1048576 * b + x /\ x < 1048576
      BY ONLY <1>1, <1>3, <1>5, SMT
    <2> QED BY ONLY <1>1, <1>4, <2>1, x \in Nat, SMT
  <1>10. a \div 32768 = u /\ u % 32 = d
    <2>1. a = 32768 * u + y /\ y < 32768
      BY ONLY <1>1, <1>3, <1>6, <1>7, SMT
    <2>2. a \div 32768 = u
      BY ONLY <1>4, <2>1, y \in Nat, u \in Nat, SMT
    <2>3. u % 32 = d
      BY ONLY <1>1, <1>7, SMT
    <2> QED BY <2>2, <2>3
  <1>11. a \div 4096 = v /\ a % 4096 = g /\ v % 8 = f
    <2>1. a = 4096 * v + g /\ g < 4096
      BY ONLY <1>1, <1>3, <1>7, <1>8, SMT
    <2>2. a \div 4096 = v /\ a % 4096 = g
      BY ONLY <1>1, <1>4, <2>1, v \in Nat, SMT
    <2>3. v % 8 = f
      BY ONLY <1>1, <1>8, u \in Nat, SMT
    <2> QED BY <2>2, <2>3
  <1> QED BY ONLY <1>2, <1>9, <1>10, <1>11, SMT DEF MmioDecoded

\* The requests that are not refused.
Accepted == {r \in Requests \cup SetupRequests : r.width \in {8, 16, 32}}

LEMMA AcceptedIs ==
  ASSUME NEW r \in Accepted
  PROVE  /\ Device(r.bus, r.dev, r.fn)
         /\ Register(r.reg)
         /\ r.width \in {8, 16, 32}
  <1>1. r \in Request /\ r \in Requests \cup SetupRequests /\ r.width \in {8, 16, 32}
    BY PciAssumption DEF Accepted
  <1>2. r.bus \in 0..255 /\ r.dev \in 0..31 /\ r.fn \in 0..7 /\ r.reg \in 0..4095
    BY <1>1 DEF Request
  <1> QED BY <1>1, <1>2 DEF Device, Register

\* The address in the latch, with the port, names the register modulo 256.
LEMMA PortAddressIs ==
  ASSUME NEW r \in Accepted
  PROVE  /\ PortDecoded(PortAddress(r), r.bus, r.dev, r.fn, (r.reg % 256) \div 4)
         /\ ((r.reg % 256) \div 4) * 4 + DataPort(r)
              = ((r.reg % 256) \div Unit(r)) * Unit(r)
  <1>1. Device(r.bus, r.dev, r.fn) /\ r.width \in {8, 16, 32}
    BY AcceptedIs
  <1>2. PICK g : g = r.reg
    OBVIOUS
  <1>3. PICK q : q = (g % 256) \div 4
    OBVIOUS
  <1>4. Register(g)
    BY <1>2, AcceptedIs
  <1>5. SplitAt(g, q)
    BY ONLY <1>3, <1>4, LowBits
  <1>6. PortAddress(r) = Port(r.bus, r.dev, r.fn, q)
    BY <1>2, <1>3, SMT DEF PortAddress, Port
  <1>7. PortDecoded(PortAddress(r), r.bus, r.dev, r.fn, q)
    BY ONLY <1>1, <1>5, <1>6, PortFields, SMT DEF SplitAt
  <1>8. q * 4 + DataPort(r) = ((g % 256) \div Unit(r)) * Unit(r)
    <2>1. CASE r.width = 8
      <3>1. DataPort(r) = g % 4 /\ Unit(r) = 1
        BY <1>2, <2>1, SMT DEF DataPort, Unit
      <3> QED BY ONLY <1>5, <3>1 DEF SplitAt
    <2>2. CASE r.width = 16
      <3>1. DataPort(r) = ((g \div 2) % 2) * 2 /\ Unit(r) = 2
        BY <1>2, <2>2, SMT DEF DataPort, Unit
      <3> QED BY ONLY <1>5, <3>1 DEF SplitAt
    <2>3. CASE r.width = 32
      <3>1. DataPort(r) = 0 /\ Unit(r) = 4
        BY <2>3, SMT DEF DataPort, Unit
      <3> QED BY ONLY <1>5, <3>1, SMT DEF SplitAt
    <2> QED BY <1>1, <2>1, <2>2, <2>3
  <1> QED BY ONLY <1>2, <1>3, <1>7, <1>8

LEMMA PortAddressRange ==
  ASSUME NEW r \in Accepted
  PROVE  PortAddress(r) \in Latched
  BY PortAddressIs, SMT DEF PortDecoded

\* A port access with the right address in the latch.
LEMMA PortReaches ==
  ASSUME NEW r \in Accepted
  PROVE  PortTarget(PortAddress(r), DataPort(r)) = ByPort(r)
  <1>1. PICK a : a = PortAddress(r)
    OBVIOUS
  <1>2. PICK q : q = (r.reg % 256) \div 4
    OBVIOUS
  <1>3. PICK g : g = ((r.reg % 256) \div Unit(r)) * Unit(r)
    OBVIOUS
  <1>4. /\ PortDecoded(a, r.bus, r.dev, r.fn, q)
        /\ q * 4 + DataPort(r) = g
    BY <1>1, <1>2, <1>3, PortAddressIs
  <1>5. PortTarget(a, DataPort(r)) = [by |-> "port", seg |-> 0, bus |-> r.bus, dev |-> r.dev,
                                      fn |-> r.fn, reg |-> g]
    BY ONLY <1>4, SMT DEF PortTarget, PortDecoded
  <1> QED BY <1>1, <1>3, <1>5 DEF ByPort

\* An access through the window, to a bus up to its last one.
MmioAnswer(a, r) == \/ a = ByMmio(r)
                    \/ a.by = "nobody" /\ r.bus < Allocation.start

LEMMA MmioReaches ==
  ASSUME NEW r \in Accepted, r.bus <= Allocation.end
  PROVE  MmioAnswer(MmioTarget(MmioOffset(r)), r)
  <1>1. PICK a : a = MmioOffset(r)
    OBVIOUS
  <1>2. Device(r.bus, r.dev, r.fn) /\ Register(r.reg)
    BY AcceptedIs
  <1>3. a = Mmio(r.bus, r.dev, r.fn, r.reg)
    BY <1>1, SMT DEF MmioOffset, Mmio
  <1>4. MmioDecoded(a, r.bus, r.dev, r.fn, r.reg)
    BY ONLY <1>2, <1>3, MmioFields, SMT
  <1>5. Allocation.start \in 0..255 /\ Allocation.end \in 0..255 /\ r.bus \in 0..255
    BY <1>2, PciAssumption DEF Device
  <1>6. CASE r.bus < Allocation.start
    <2>1. r.bus \notin Allocation.start..Allocation.end
      BY ONLY <1>5, <1>6, SMT
    <2>2. MmioTarget(a) = [by |-> "nobody"]
      BY ONLY <1>4, <2>1 DEF MmioTarget, MmioDecoded
    <2> QED BY <1>1, <1>6, <2>2 DEF MmioAnswer
  <1>7. CASE ~(r.bus < Allocation.start)
    <2>1. r.bus \in Allocation.start..Allocation.end
      <3>1. PICK b, x, y : b = r.bus /\ x = Allocation.start /\ y = Allocation.end
        OBVIOUS
      <3>2. b \in Nat /\ x \in Nat /\ y \in Nat /\ b <= y /\ ~(b < x)
        BY <1>5, <1>7, <3>1
      <3>3. b \in x..y
        BY ONLY <3>2, SMT
      <3> QED BY <3>1, <3>3
    <2>2. MmioTarget(a) = [by |-> "mmio", seg |-> Allocation.seg, bus |-> r.bus, dev |-> r.dev,
                           fn |-> r.fn, reg |-> r.reg]
      BY ONLY <1>4, <2>1 DEF MmioTarget, MmioDecoded
    <2> QED BY <1>1, <2>2 DEF ByMmio, MmioAnswer
  <1> QED BY <1>6, <1>7

-----------------------------------------------------------------------------
(* The inductive invariant                                                 *)

Places == {"idle", "ecam", "base", "start", "end", "flag", "dispatch",
           "map", "mmio", "unmap", "address", "data", "return"}

\* Who uses a mapping has one of those that are counted.
Mapped  == {t \in Threads : pc[t] \in {"mmio", "unmap"}}
Counted == IsFiniteSet(Mapped) /\ Cardinality(Mapped) <= maps

\* What a thread that found the table has stored, before it sets the flag. A failed
\* lookup sets the flag alone.
Whole == based /\ startBus = Allocation.seg /\ endBus = Allocation.end

Stored(t) == /\ pc[t] \in {"start", "end", "flag"} => based
             /\ pc[t] \in {"end", "flag"} => startBus = Allocation.seg
             /\ pc[t] = "flag" => endBus = Allocation.end

WindowPublished ==
    /\ ~lookupFailed => /\ initialized => Whole
                        /\ \A t \in Threads : Stored(t)
    /\ \A t \in Threads : pc[t] = "dispatch" => initialized
    /\ endBus \in {0, Allocation.end}

\* A thread with a region's request has the interpreter.
AskedBy(t) ==
    /\ pc[t] # "idle" => req[t] \in Requests \cup SetupRequests
    /\ pc[t] \notin {"idle", "return"} => req[t] \in Accepted
    /\ pc[t] # "idle" /\ req[t] \in Requests => interpreter = t

Asked == \A t \in Threads : AskedBy(t)

\* A thread at the data port finds its own address in the latch, unless disturbed.
LatchedBy(t) ==
    /\ result[t] # Nothing => pc[t] \in {"unmap", "return"}
    /\ pc[t] = "data" /\ ~disturbed[t] => configAddress = PortAddress(req[t])
    /\ pc[t] \in {"map", "mmio"} => req[t].bus <= Allocation.end
    /\ result[t] # Nothing /\ ~disturbed[t] =>
         result[t] = ByPort(req[t]) \/ MmioAnswer(result[t], req[t])

Addressed == /\ result = [t \in Threads |-> result[t]]
             /\ \A t \in Threads : LatchedBy(t)

Inv == TypeOK /\ Counted /\ WindowPublished /\ Asked /\ Addressed

-----------------------------------------------------------------------------
(* Every step keeps it                                                     *)

LEMMA Goes ==
  ASSUME TypeOK, NEW t \in Threads, NEW from, NEW to \in Places, Goto(t, from, to)
  PROVE  /\ pc' \in [Threads -> Places]
         /\ pc[t] = from /\ pc'[t] = to
         /\ \A u \in Threads : u # t => pc'[u] = pc[u]
  BY DEF TypeOK, Places, Goto

\* A step changes one entry of pc, or none in AcpiOsTerminate.
LEMMA Cases ==
  ASSUME [Next]_vars
  PROVE  \/ UNCHANGED vars
         \/ AcpiOsTerminate
         \/ \E t \in Threads : \/ \E r \in Requests : RegionAccess(t, r)
                               \/ \E r \in SetupRequests : SetupAccess(t, r)
                               \/ Step(t)
  BY DEF Next

LEMMA CountedStep ==
  ASSUME TypeOK, Counted, [Next]_vars
  PROVE  Counted' /\ maps' \in 0..MaxMaps
  <1>0. maps \in 0..MaxMaps /\ Cardinality(Mapped) \in Nat
    BY FS_CardinalityType DEF TypeOK, Counted
  <1>1. ASSUME Mapped' = Mapped, maps' = maps
        PROVE  Counted' /\ maps' \in 0..MaxMaps
    BY <1>0, <1>1 DEF Counted
  <1>2. ASSUME NEW t \in Threads, NEW from, NEW to \in Places, Goto(t, from, to), maps' = maps,
               from \in {"mmio", "unmap"} <=> to \in {"mmio", "unmap"}
        PROVE  Counted' /\ maps' \in 0..MaxMaps
    <2>1. \A u \in Threads : pc'[u] \in {"mmio", "unmap"} <=> pc[u] \in {"mmio", "unmap"}
      BY <1>2, Goes
    <2>2. Mapped' = Mapped
      BY <2>1 DEF Mapped
    <2> QED BY <1>1, <1>2, <2>2
  <1>3. ASSUME NEW t \in Threads, MapRegister(t)
        PROVE  Counted' /\ maps' \in 0..MaxMaps
    <2>1. Goto(t, "map", "mmio") /\ "mmio" \in Places
      BY <1>3 DEF MapRegister, Places
    <2>2. Mapped' = Mapped \cup {t} /\ t \notin Mapped
      BY <2>1, Goes DEF Mapped
    <2>3. IsFiniteSet(Mapped') /\ Cardinality(Mapped') = Cardinality(Mapped) + 1
      BY <2>2, FS_AddElement DEF Counted
    <2>4. maps' = maps + 1 /\ maps' \in 0..MaxMaps
      BY <1>0, <1>3, PciAssumption DEF MapRegister
    <2> QED BY <1>0, <2>3, <2>4 DEF Counted
  <1>4. ASSUME NEW t \in Threads, UnmapRegister(t)
        PROVE  Counted' /\ maps' \in 0..MaxMaps
    <2>1. Goto(t, "unmap", "return") /\ "return" \in Places
      BY <1>4 DEF UnmapRegister, Places
    <2>2. Mapped' = Mapped \ {t} /\ t \in Mapped
      BY <2>1, Goes DEF Mapped
    <2>3. IsFiniteSet(Mapped') /\ Cardinality(Mapped') = Cardinality(Mapped) - 1
      BY <2>2, FS_RemoveElement DEF Counted
    <2>4. Cardinality(Mapped) # 0
      BY <2>2, FS_EmptySet DEF Counted
    <2>5. maps > 0
      BY <1>0, <2>4 DEF Counted
    <2>6. maps' \in {maps - 1, maps} /\ maps' \in 0..MaxMaps
      BY <1>0, <1>4, <2>5, PciAssumption DEF UnmapRegister
    <2> QED BY <1>0, <2>3, <2>6 DEF Counted
  <1>5. ASSUME NEW t \in Threads, NEW r, Begin(t, r)
        PROVE  Counted' /\ maps' \in 0..MaxMaps
    BY <1>2, <1>5 DEF Begin, Places
  <1>6. ASSUME NEW t \in Threads, Step(t)
        PROVE  Counted' /\ maps' \in 0..MaxMaps
    <2>1. CASE MapRegister(t)
      BY <1>3, <2>1
    <2>2. CASE UnmapRegister(t)
      BY <1>4, <2>2
    <2>3. CASE EcamReady(t)
      BY <1>2, <2>3 DEF EcamReady, Places
    <2>4. CASE EcamFound(t)
      BY <1>2, <2>4 DEF EcamFound, Places
    <2>5. CASE EcamNotFound(t)
      BY <1>2, <2>5 DEF EcamNotFound, Places
    <2>6. CASE SetBase(t)
      BY <1>2, <2>6 DEF SetBase, Places
    <2>7. CASE SetStartBus(t)
      BY <1>2, <2>7 DEF SetStartBus, Places
    <2>8. CASE SetEndBus(t)
      BY <1>2, <2>8 DEF SetEndBus, Places
    <2>9. CASE SetInitialized(t)
      BY <1>2, <2>9 DEF SetInitialized, Places
    <2>10. CASE Dispatch(t)
      BY <1>2, <2>10 DEF Dispatch, Places
    <2>11. CASE MapFails(t)
      BY <1>2, <2>11 DEF MapFails, Places
    <2>12. CASE AccessMmio(t)
      BY <1>2, <2>12 DEF AccessMmio, Places
    <2>13. CASE WriteAddressPort(t)
      BY <1>2, <2>13 DEF WriteAddressPort, Places
    <2>14. CASE AccessDataPort(t)
      BY <1>2, <2>14 DEF AccessDataPort, Places
    <2>15. CASE Return(t)
      BY <1>2, <2>15 DEF Return, Places
    <2> QED BY <1>6, <2>1, <2>2, <2>3, <2>4, <2>5, <2>6, <2>7, <2>8, <2>9, <2>10, <2>11,
               <2>12, <2>13, <2>14, <2>15 DEF Step
  <1>7. CASE AcpiOsTerminate
    BY <1>1, <1>7 DEF AcpiOsTerminate, Mapped
  <1>8. CASE UNCHANGED vars
    BY <1>1, <1>8 DEF vars, Mapped
  <1> QED BY Cases, <1>5, <1>6, <1>7, <1>8 DEF RegionAccess, SetupAccess

LEMMA PlaceStep ==
  ASSUME TypeOK, [Next]_vars
  PROVE  pc' \in [Threads -> Places]
  <1>0. pc \in [Threads -> Places]
    BY DEF TypeOK, Places
  <1>1. ASSUME NEW t \in Threads, Step(t) PROVE pc' \in [Threads -> Places]
    <2>1. CASE EcamReady(t)
      BY <1>0, <2>1 DEF EcamReady, Goto, Places
    <2>2. CASE EcamFound(t)
      BY <1>0, <2>2 DEF EcamFound, Goto, Places
    <2>3. CASE EcamNotFound(t)
      BY <1>0, <2>3 DEF EcamNotFound, Goto, Places
    <2>4. CASE SetBase(t)
      BY <1>0, <2>4 DEF SetBase, Goto, Places
    <2>5. CASE SetStartBus(t)
      BY <1>0, <2>5 DEF SetStartBus, Goto, Places
    <2>6. CASE SetEndBus(t)
      BY <1>0, <2>6 DEF SetEndBus, Goto, Places
    <2>7. CASE SetInitialized(t)
      BY <1>0, <2>7 DEF SetInitialized, Goto, Places
    <2>8. CASE Dispatch(t)
      BY <1>0, <2>8 DEF Dispatch, Goto, Places
    <2>9. CASE MapRegister(t)
      BY <1>0, <2>9 DEF MapRegister, Goto, Places
    <2>10. CASE MapFails(t)
      BY <1>0, <2>10 DEF MapFails, Goto, Places
    <2>11. CASE AccessMmio(t)
      BY <1>0, <2>11 DEF AccessMmio, Goto, Places
    <2>12. CASE UnmapRegister(t)
      BY <1>0, <2>12 DEF UnmapRegister, Goto, Places
    <2>13. CASE WriteAddressPort(t)
      BY <1>0, <2>13 DEF WriteAddressPort, Goto, Places
    <2>14. CASE AccessDataPort(t)
      BY <1>0, <2>14 DEF AccessDataPort, Goto, Places
    <2>15. CASE Return(t)
      BY <1>0, <2>15 DEF Return, Goto, Places
    <2> QED BY <1>1, <2>1, <2>2, <2>3, <2>4, <2>5, <2>6, <2>7, <2>8, <2>9, <2>10,
               <2>11, <2>12, <2>13, <2>14, <2>15 DEF Step
  <1>2. ASSUME NEW t \in Threads, NEW r, Begin(t, r) PROVE pc' \in [Threads -> Places]
    BY <1>0, <1>2 DEF Begin, Goto, Places
  <1>3. CASE AcpiOsTerminate
    BY <1>0, <1>3 DEF AcpiOsTerminate
  <1>4. CASE UNCHANGED vars
    BY <1>0, <1>4 DEF vars
  <1> QED BY Cases, <1>1, <1>2, <1>3, <1>4 DEF RegionAccess, SetupAccess

\* The types of what is neither a place nor a count.
Rest == /\ initialized \in BOOLEAN /\ based \in BOOLEAN
        /\ startBus \in Nat /\ endBus \in 0..255
        /\ interpreter \in Threads \cup {NoThread}
        /\ lookupFailed \in BOOLEAN

LEMMA RestStep ==
  ASSUME TypeOK, [Next]_vars
  PROVE  Rest'
  <1>0. Rest
    BY DEF TypeOK, Rest
  <1>a. Allocation.seg \in Nat /\ Allocation.end \in 0..255
    BY PciAssumption
  <1>1. ASSUME NEW t \in Threads, Step(t) PROVE Rest'
    <2>1. CASE EcamReady(t)
      BY <1>0, <2>1 DEF EcamReady, ecam, Rest
    <2>2. CASE EcamFound(t)
      BY <1>0, <2>2 DEF EcamFound, ecam, Rest
    <2>3. CASE EcamNotFound(t)
      BY <1>0, <2>3 DEF EcamNotFound, ecam, Rest
    <2>4. CASE SetBase(t)
      BY <1>0, <2>4 DEF SetBase, ecam, Rest
    <2>5. CASE SetStartBus(t)
      BY <1>0, <1>a, <2>5 DEF SetStartBus, Rest
    <2>6. CASE SetEndBus(t)
      BY <1>0, <1>a, <2>6 DEF SetEndBus, Rest
    <2>7. CASE SetInitialized(t)
      BY <1>0, <2>7 DEF SetInitialized, ecam, Rest
    <2>8. CASE Dispatch(t)
      BY <1>0, <2>8 DEF Dispatch, ecam, Rest
    <2>9. CASE MapRegister(t)
      BY <1>0, <2>9 DEF MapRegister, ecam, Rest
    <2>10. CASE MapFails(t)
      BY <1>0, <2>10 DEF MapFails, ecam, Rest
    <2>11. CASE AccessMmio(t)
      BY <1>0, <2>11 DEF AccessMmio, ecam, Rest
    <2>12. CASE UnmapRegister(t)
      BY <1>0, <2>12 DEF UnmapRegister, ecam, Rest
    <2>13. CASE WriteAddressPort(t)
      BY <1>0, <2>13 DEF WriteAddressPort, ecam, Rest
    <2>14. CASE AccessDataPort(t)
      BY <1>0, <2>14 DEF AccessDataPort, ecam, Rest
    <2>15. CASE Return(t)
      BY <1>0, <2>15 DEF Return, ecam, Rest
    <2> QED BY <1>1, <2>1, <2>2, <2>3, <2>4, <2>5, <2>6, <2>7, <2>8, <2>9, <2>10,
               <2>11, <2>12, <2>13, <2>14, <2>15 DEF Step
  <1>2. ASSUME NEW t \in Threads, NEW r, RegionAccess(t, r) \/ SetupAccess(t, r) PROVE Rest'
    <2>1. UNCHANGED <<ecam, lookupFailed>> /\ interpreter' \in {t, interpreter}
      BY <1>2 DEF RegionAccess, SetupAccess, Begin
    <2>2. interpreter' \in Threads \cup {NoThread}
      BY <1>0, <2>1 DEF Rest
    <2>3. UNCHANGED <<initialized, based, startBus, endBus, lookupFailed>>
      BY <2>1 DEF ecam
    <2> QED BY <1>0, <2>2, <2>3 DEF Rest
  <1>3. CASE AcpiOsTerminate
    <2>1. 0 \in Nat /\ 0 \in 0..255
      OBVIOUS
    <2> QED BY <1>0, <1>3, <2>1, Zenon DEF AcpiOsTerminate, Rest
  <1>4. CASE UNCHANGED vars
    BY <1>0, <1>4 DEF vars, ecam, Rest
  <1> QED BY Cases, <1>1, <1>2, <1>3, <1>4

Access == /\ configAddress \in Latched
          /\ req \in [Threads -> Request \cup {NoRequest}]
          /\ disturbed \in [Threads -> BOOLEAN]

LEMMA AccessStep ==
  ASSUME TypeOK, Asked, [Next]_vars
  PROVE  Access'
  <1>0. Access
    BY DEF TypeOK, Access
  <1>1. ASSUME NEW t \in Threads, Step(t) PROVE Access'
    <2>1. CASE EcamReady(t)
      BY <1>0, <2>1 DEF EcamReady, Access
    <2>2. CASE EcamFound(t)
      BY <1>0, <2>2 DEF EcamFound, Access
    <2>3. CASE EcamNotFound(t)
      BY <1>0, <2>3 DEF EcamNotFound, Access
    <2>4. CASE SetBase(t)
      BY <1>0, <2>4 DEF SetBase, Access
    <2>5. CASE SetStartBus(t)
      BY <1>0, <2>5 DEF SetStartBus, Access
    <2>6. CASE SetEndBus(t)
      BY <1>0, <2>6 DEF SetEndBus, Access
    <2>7. CASE SetInitialized(t)
      BY <1>0, <2>7 DEF SetInitialized, Access
    <2>8. CASE Dispatch(t)
      BY <1>0, <2>8 DEF Dispatch, Access
    <2>9. CASE MapRegister(t)
      BY <1>0, <2>9 DEF MapRegister, Access
    <2>10. CASE MapFails(t)
      BY <1>0, <2>10 DEF MapFails, Access
    <2>11. CASE AccessMmio(t)
      BY <1>0, <2>11 DEF AccessMmio, Access
    <2>12. CASE UnmapRegister(t)
      BY <1>0, <2>12 DEF UnmapRegister, Access
    <2>13. CASE WriteAddressPort(t)
      <3>1. configAddress' = PortAddress(req[t]) /\ req[t] \in Accepted
        BY <2>13 DEF WriteAddressPort, Goto, Asked, AskedBy
      <3>2. configAddress' \in Latched
        BY <3>1, PortAddressRange
      <3>3. disturbed' \in [Threads -> BOOLEAN]
        BY <1>0, <2>13 DEF WriteAddressPort, Access
      <3> QED BY <1>0, <2>13, <3>2, <3>3 DEF WriteAddressPort, Access
    <2>14. CASE AccessDataPort(t)
      BY <1>0, <2>14 DEF AccessDataPort, Access
    <2>15. CASE Return(t)
      BY <1>0, <2>15 DEF Return, Access
    <2> QED BY <1>1, <2>1, <2>2, <2>3, <2>4, <2>5, <2>6, <2>7, <2>8, <2>9, <2>10,
               <2>11, <2>12, <2>13, <2>14, <2>15 DEF Step
  <1>2. ASSUME NEW t \in Threads, NEW r \in Request, Begin(t, r) PROVE Access'
    BY <1>0, <1>2 DEF Begin, Access
  <1>3. CASE AcpiOsTerminate
    BY <1>0, <1>3 DEF AcpiOsTerminate, Access
  <1>4. CASE UNCHANGED vars
    BY <1>0, <1>4 DEF vars, Access
  <1> QED BY Cases, PciAssumption, <1>1, <1>2, <1>3, <1>4 DEF RegionAccess, SetupAccess

LEMMA WindowStep ==
  ASSUME TypeOK, WindowPublished, [Next]_vars
  PROVE  WindowPublished'
  <1>1. ASSUME NEW t \in Threads, Step(t) PROVE WindowPublished'
    <2>1. CASE EcamReady(t)
      BY <2>1 DEF EcamReady, Goto, ecam, TypeOK, WindowPublished, Whole, Stored
    <2>2. CASE EcamFound(t)
      BY <2>2 DEF EcamFound, Goto, ecam, TypeOK, WindowPublished, Whole, Stored
    <2>3. CASE EcamNotFound(t)
      BY <2>3 DEF EcamNotFound, Goto, ecam, TypeOK, WindowPublished, Whole, Stored
    <2>4. CASE SetBase(t)
      BY <2>4 DEF SetBase, Goto, ecam, TypeOK, WindowPublished, Whole, Stored
    <2>5. CASE SetStartBus(t)
      BY <2>5 DEF SetStartBus, Goto, ecam, TypeOK, WindowPublished, Whole, Stored
    <2>6. CASE SetEndBus(t)
      BY <2>6 DEF SetEndBus, Goto, ecam, TypeOK, WindowPublished, Whole, Stored
    <2>7. CASE SetInitialized(t)
      BY <2>7 DEF SetInitialized, Goto, ecam, TypeOK, WindowPublished, Whole, Stored
    <2>8. CASE Dispatch(t)
      BY <2>8 DEF Dispatch, Goto, ecam, TypeOK, WindowPublished, Whole, Stored
    <2>9. CASE MapRegister(t)
      BY <2>9 DEF MapRegister, Goto, ecam, TypeOK, WindowPublished, Whole, Stored
    <2>10. CASE MapFails(t)
      BY <2>10 DEF MapFails, Goto, ecam, TypeOK, WindowPublished, Whole, Stored
    <2>11. CASE AccessMmio(t)
      BY <2>11 DEF AccessMmio, Goto, ecam, TypeOK, WindowPublished, Whole, Stored
    <2>12. CASE UnmapRegister(t)
      BY <2>12 DEF UnmapRegister, Goto, ecam, TypeOK, WindowPublished, Whole, Stored
    <2>13. CASE WriteAddressPort(t)
      BY <2>13 DEF WriteAddressPort, Goto, ecam, TypeOK, WindowPublished, Whole, Stored
    <2>14. CASE AccessDataPort(t)
      BY <2>14 DEF AccessDataPort, Goto, ecam, TypeOK, WindowPublished, Whole, Stored
    <2>15. CASE Return(t)
      BY <2>15 DEF Return, Goto, ecam, TypeOK, WindowPublished, Whole, Stored
    <2> QED BY <1>1, <2>1, <2>2, <2>3, <2>4, <2>5, <2>6, <2>7, <2>8, <2>9, <2>10,
               <2>11, <2>12, <2>13, <2>14, <2>15 DEF Step
  <1>2. ASSUME NEW t \in Threads, NEW r, Begin(t, r) PROVE WindowPublished'
    BY <1>2 DEF Begin, Goto, ecam, TypeOK, WindowPublished, Whole, Stored
  <1>3. CASE AcpiOsTerminate
    BY <1>3 DEF AcpiOsTerminate, AllIdle, TypeOK, WindowPublished, Whole, Stored
  <1>4. CASE UNCHANGED vars
    BY <1>4 DEF vars, ecam, TypeOK, WindowPublished, Whole, Stored
  <1> QED BY Cases, <1>1, <1>2, <1>3, <1>4 DEF RegionAccess, SetupAccess

LEMMA AskedStep ==
  ASSUME TypeOK, Asked, [Next]_vars
  PROVE  Asked'
  <1>a. NoThread \notin Threads
    BY PciAssumption
  <1>1. ASSUME NEW t \in Threads, Step(t) PROVE Asked'
    <2>1. CASE EcamReady(t)
      BY <2>1 DEF EcamReady, Goto, TypeOK, Asked, AskedBy
    <2>2. CASE EcamFound(t)
      BY <2>2 DEF EcamFound, Goto, TypeOK, Asked, AskedBy
    <2>3. CASE EcamNotFound(t)
      BY <2>3 DEF EcamNotFound, Goto, TypeOK, Asked, AskedBy
    <2>4. CASE SetBase(t)
      BY <2>4 DEF SetBase, Goto, TypeOK, Asked, AskedBy
    <2>5. CASE SetStartBus(t)
      BY <2>5 DEF SetStartBus, Goto, TypeOK, Asked, AskedBy
    <2>6. CASE SetEndBus(t)
      BY <2>6 DEF SetEndBus, Goto, TypeOK, Asked, AskedBy
    <2>7. CASE SetInitialized(t)
      BY <2>7 DEF SetInitialized, Goto, TypeOK, Asked, AskedBy
    <2>8. CASE Dispatch(t)
      BY <2>8 DEF Dispatch, Goto, TypeOK, Asked, AskedBy
    <2>9. CASE MapRegister(t)
      BY <2>9 DEF MapRegister, Goto, TypeOK, Asked, AskedBy
    <2>10. CASE MapFails(t)
      BY <2>10 DEF MapFails, Goto, TypeOK, Asked, AskedBy
    <2>11. CASE AccessMmio(t)
      BY <2>11 DEF AccessMmio, Goto, TypeOK, Asked, AskedBy
    <2>12. CASE UnmapRegister(t)
      BY <2>12 DEF UnmapRegister, Goto, TypeOK, Asked, AskedBy
    <2>13. CASE WriteAddressPort(t)
      BY <2>13 DEF WriteAddressPort, Goto, TypeOK, Asked, AskedBy
    <2>14. CASE AccessDataPort(t)
      BY <2>14 DEF AccessDataPort, Goto, TypeOK, Asked, AskedBy
    <2>15. CASE Return(t)
      BY <2>15 DEF Return, Goto, TypeOK, Asked, AskedBy
    <2> QED BY <1>1, <2>1, <2>2, <2>3, <2>4, <2>5, <2>6, <2>7, <2>8, <2>9, <2>10,
               <2>11, <2>12, <2>13, <2>14, <2>15 DEF Step
  <1>2. ASSUME NEW t \in Threads, NEW r \in Requests, RegionAccess(t, r) PROVE Asked'
    BY <1>a, <1>2 DEF RegionAccess, Begin, Goto, TypeOK, Asked, AskedBy, Accepted
  <1>3. ASSUME NEW t \in Threads, NEW r \in SetupRequests, SetupAccess(t, r) PROVE Asked'
    BY <1>3, PciAssumption DEF SetupAccess, Begin, Goto, TypeOK, Asked, AskedBy, Accepted
  <1>4. CASE AcpiOsTerminate
    BY <1>4 DEF AcpiOsTerminate, Asked, AskedBy
  <1>5. CASE UNCHANGED vars
    BY <1>5 DEF vars, Asked, AskedBy
  <1> QED BY Cases, <1>1, <1>2, <1>3, <1>4, <1>5

LEMMA ResultStep ==
  ASSUME Addressed, [Next]_vars
  PROVE  result' = [t \in Threads |-> result'[t]]
  <1>0. result = [t \in Threads |-> result[t]]
    BY DEF Addressed
  <1>1. ASSUME NEW t \in Threads, Step(t) PROVE result' = [u \in Threads |-> result'[u]]
    <2>1. \/ UNCHANGED result
          \/ \E x : result' = [result EXCEPT ![t] = x]
      BY <1>1 DEF Step, EcamReady, EcamFound, EcamNotFound, SetBase, SetStartBus, SetEndBus,
                  SetInitialized, Dispatch, MapRegister, MapFails, AccessMmio, UnmapRegister,
                  WriteAddressPort, AccessDataPort, Return
    <2> QED BY <1>0, <2>1
  <1>2. ASSUME NEW t \in Threads, NEW r, Begin(t, r) PROVE result' = [u \in Threads |-> result'[u]]
    BY <1>0, <1>2 DEF Begin
  <1>3. CASE AcpiOsTerminate
    BY <1>0, <1>3 DEF AcpiOsTerminate
  <1>4. CASE UNCHANGED vars
    BY <1>0, <1>4 DEF vars
  <1> QED BY Cases, <1>1, <1>2, <1>3, <1>4 DEF RegionAccess, SetupAccess

\* An address is written over another thread's without disturbing it only by a
\* thread with a region's request, and then the other one has none.
LEMMA LatchStep ==
  ASSUME TypeOK, Asked, Addressed, NEW t \in Threads, WriteAddressPort(t), NEW u \in Threads
  PROVE  LatchedBy(u)'
  <1>1. /\ Goto(t, "address", "data")
        /\ configAddress' = PortAddress(req[t])
        /\ UNCHANGED <<req, result>>
        /\ disturbed'[u] <=> \/ disturbed[u]
                             \/ /\ u # t /\ pc[u] = "data"
                                /\ {req[t], req[u]} \cap SetupRequests # {}
    BY DEF WriteAddressPort
  <1>2. LatchedBy(u) /\ AskedBy(t) /\ AskedBy(u)
    BY DEF Addressed, Asked
  <1>3. pc[t] = "address" /\ pc'[t] = "data" /\ (u # t => pc'[u] = pc[u])
    BY <1>1, Goes DEF Places
  <1>4. CASE u = t
    BY <1>1, <1>2, <1>3, <1>4 DEF LatchedBy
  <1>5. CASE u # t /\ pc[u] = "data" /\ ~disturbed'[u]
    <2>1. req[t] \notin SetupRequests /\ req[u] \notin SetupRequests
      BY <1>1, <1>5
    <2>2. req[t] \in Requests /\ req[u] \in Requests
      BY <1>2, <1>3, <1>5, <2>1 DEF AskedBy
    <2> QED BY <1>2, <1>3, <1>5, <2>2 DEF AskedBy
  <1>6. CASE u # t /\ ~(pc[u] = "data" /\ ~disturbed'[u])
    BY <1>1, <1>2, <1>3, <1>6 DEF LatchedBy
  <1> QED BY <1>4, <1>5, <1>6

LEMMA AddressedStep ==
  ASSUME Inv, [Next]_vars
  PROVE  Addressed'
  <1>0. /\ TypeOK /\ WindowPublished /\ Asked
        /\ result = [t \in Threads |-> result[t]]
        /\ \A u \in Threads : LatchedBy(u)
    BY DEF Inv, Addressed
  <1>a. \A u \in Threads : AskedBy(u)
    BY <1>0 DEF Asked
  <1> SUFFICES \A u \in Threads : LatchedBy(u)'
    BY ResultStep DEF Inv, Addressed
  <1>1. ASSUME NEW t \in Threads, Step(t), NEW u \in Threads PROVE LatchedBy(u)'
    <2>1. CASE EcamReady(t)
      BY <1>0, <2>1 DEF EcamReady, Goto, TypeOK, LatchedBy, ecam
    <2>2. CASE EcamFound(t)
      BY <1>0, <2>2 DEF EcamFound, Goto, TypeOK, LatchedBy, ecam
    <2>3. CASE EcamNotFound(t)
      BY <1>0, <2>3 DEF EcamNotFound, Goto, TypeOK, LatchedBy, ecam
    <2>4. CASE SetBase(t)
      BY <1>0, <2>4 DEF SetBase, Goto, TypeOK, LatchedBy, ecam
    <2>5. CASE SetStartBus(t)
      BY <1>0, <2>5 DEF SetStartBus, Goto, TypeOK, LatchedBy, ecam
    <2>6. CASE SetEndBus(t)
      BY <1>0, <2>6 DEF SetEndBus, Goto, TypeOK, LatchedBy, ecam
    <2>7. CASE SetInitialized(t)
      BY <1>0, <2>7 DEF SetInitialized, Goto, TypeOK, LatchedBy, ecam
    <2>8. CASE Dispatch(t)
      <3>1. req[t] \in Accepted
        BY <1>a, <2>8 DEF Dispatch, Goto, AskedBy
      <3>2. InWindow(req[t]) => req[t].bus <= Allocation.end
        <4>1. Device(req[t].bus, req[t].dev, req[t].fn)
          BY <3>1, AcceptedIs
        <4>2. req[t].bus \in 0..255 /\ Allocation.end \in 0..255 /\ endBus \in {0, Allocation.end}
          BY <1>0, <4>1, PciAssumption DEF Device, WindowPublished
        <4> QED BY <4>2 DEF InWindow
      <3> QED BY <1>0, <2>8, <3>2 DEF Dispatch, Goto, TypeOK, LatchedBy
    <2>9. CASE MapRegister(t)
      BY <1>0, <2>9 DEF MapRegister, Goto, TypeOK, LatchedBy, ecam
    <2>10. CASE MapFails(t)
      BY <1>0, <2>10 DEF MapFails, Goto, TypeOK, LatchedBy, ecam
    <2>11. CASE AccessMmio(t)
      <3>1. req[t] \in Accepted
        BY <1>a, <2>11 DEF AccessMmio, Goto, AskedBy
      <3>2. pc[t] = "mmio" /\ req[t].bus <= Allocation.end
        BY <1>0, <2>11 DEF AccessMmio, Goto, LatchedBy
      <3>3. MmioAnswer(MmioTarget(MmioOffset(req[t])), req[t])
        BY <3>1, <3>2, MmioReaches
      <3> QED BY <1>0, <2>11, <3>3 DEF AccessMmio, Goto, TypeOK, LatchedBy
    <2>12. CASE UnmapRegister(t)
      BY <1>0, <2>12 DEF UnmapRegister, Goto, TypeOK, LatchedBy, ecam
    <2>13. CASE WriteAddressPort(t)
      BY <2>13, LatchStep DEF Inv
    <2>14. CASE AccessDataPort(t)
      <3>1. req[t] \in Accepted
        BY <1>a, <2>14 DEF AccessDataPort, Goto, AskedBy
      <3>2. ~disturbed[t] => configAddress = PortAddress(req[t])
        BY <1>0, <2>14 DEF AccessDataPort, Goto, LatchedBy
      <3>3. ~disturbed[t] => PortTarget(configAddress, DataPort(req[t])) = ByPort(req[t])
        BY <3>1, <3>2, PortReaches
      <3> QED BY <1>0, <2>14, <3>3 DEF AccessDataPort, Goto, TypeOK, LatchedBy
    <2>15. CASE Return(t)
      BY <1>0, <2>15 DEF Return, Goto, TypeOK, LatchedBy
    <2> QED BY <1>1, <2>1, <2>2, <2>3, <2>4, <2>5, <2>6, <2>7, <2>8, <2>9, <2>10,
               <2>11, <2>12, <2>13, <2>14, <2>15 DEF Step
  <1>2. ASSUME NEW t \in Threads, NEW r, Begin(t, r), NEW u \in Threads PROVE LatchedBy(u)'
    BY <1>0, <1>2 DEF Begin, Goto, TypeOK, LatchedBy
  <1>3. CASE AcpiOsTerminate
    BY <1>0, <1>3 DEF AcpiOsTerminate, LatchedBy
  <1>4. CASE UNCHANGED vars
    BY <1>0, <1>4 DEF vars, LatchedBy
  <1> QED BY Cases, <1>1, <1>2, <1>3, <1>4 DEF RegionAccess, SetupAccess

-----------------------------------------------------------------------------
(* The theorems                                                            *)

LEMMA InvInit == Init => Inv
  <1> SUFFICES ASSUME Init PROVE Inv
    OBVIOUS
  <1> USE PciAssumption
  <1>1. TypeOK
    <2>1. pc \in [Threads -> Places] /\ \A t \in Threads : pc[t] = "idle"
      BY DEF Init, Places
    <2>2. req \in [Threads -> Request \cup {NoRequest}] /\ disturbed \in [Threads -> BOOLEAN]
      BY DEF Init
    <2>3. startBus \in Nat /\ endBus \in 0..255 /\ maps \in 0..MaxMaps
      BY DEF Init
    <2>4. configAddress \in Latched
      BY LatchedIs DEF Init
    <2>5. initialized \in BOOLEAN /\ based \in BOOLEAN /\ lookupFailed \in BOOLEAN
      BY DEF Init
    <2>6. interpreter \in Threads \cup {NoThread}
      BY DEF Init
    <2> QED BY <2>1, <2>2, <2>3, <2>4, <2>5, <2>6 DEF TypeOK, Places
  <1>2. Counted
    <2>1. Mapped = {}
      BY DEF Init, Mapped
    <2>2. IsFiniteSet(Mapped) /\ Cardinality(Mapped) = 0
      BY <2>1, FS_EmptySet
    <2> QED BY <2>2 DEF Init, Counted
  <1>3. WindowPublished
    BY DEF Init, WindowPublished, Stored
  <1>4. Asked
    BY DEF Init, Asked, AskedBy
  <1>5. Addressed
    BY DEF Init, Addressed, LatchedBy
  <1> QED BY <1>1, <1>2, <1>3, <1>4, <1>5 DEF Inv

LEMMA InvStep == Inv /\ [Next]_vars => Inv'
  <1> SUFFICES ASSUME Inv, [Next]_vars PROVE Inv'
    OBVIOUS
  <1>1. TypeOK /\ Counted /\ WindowPublished /\ Asked
    BY DEF Inv
  <1>2. Counted' /\ maps' \in 0..MaxMaps
    BY <1>1, CountedStep
  <1>3. pc' \in [Threads -> Places]
    BY <1>1, PlaceStep
  <1>4. Rest' /\ Access'
    BY <1>1, RestStep, AccessStep
  <1>5. TypeOK'
    BY <1>2, <1>3, <1>4 DEF TypeOK, Rest, Access, Places
  <1>6. WindowPublished' /\ Asked'
    BY <1>1, WindowStep, AskedStep
  <1> QED BY <1>2, <1>5, <1>6, AddressedStep DEF Inv

LEMMA InvAlways == Spec => []Inv
  BY InvInit, InvStep, PTL DEF Spec

\* The variables keep their types; an unmap never takes the count of maps below none.
THEOREM TypeCorrect == Spec => []TypeOK
  <1>1. Inv => TypeOK
    BY DEF Inv
  <1> QED BY <1>1, InvAlways, PTL

\* An access that was not disturbed by the bridge walk of a region's setup reaches
\* the register it asked for, by the ports (in units of its width, an extended
\* register as its alias) or through the window, for any requests in the hardware's
\* ranges, aligned or not, and any window: what both methods encode is what the
\* hardware decodes, and the latch is not moved by another region's access. Nobody
\* answers only below the first bus of the window.
THEOREM AccessesReach == Spec => []AccessReaches
  <1>1. Inv => AccessReaches
    BY DEF Inv, Addressed, LatchedBy, AccessReaches, MmioAnswer
  <1> QED BY <1>1, InvAlways, PTL

\* A thread that is to choose between the methods finds the window as a whole or
\* not at all, unless a lookup of the table failed before.
THEOREM WindowIsWhole == Spec => []WindowComplete
  <1>1. Inv => WindowComplete
    BY DEF Inv, WindowPublished, Whole, WindowComplete
  <1> QED BY <1>1, InvAlways, PTL

\* Every access through the window has a map of its own in the set.
THEOREM MapsLast == Spec => []MapsCoverAccesses
  <1>1. Inv => MapsCoverAccesses
    <2> SUFFICES ASSUME Inv, NEW t \in Threads, NEW u \in Threads, t \in Mapped, u \in Mapped
                 PROVE  maps >= (IF t = u THEN 1 ELSE 2)
      BY DEF MapsCoverAccesses, Mapped
    <2>1. IsFiniteSet(Mapped) /\ Cardinality(Mapped) <= maps /\ maps \in Nat
      BY DEF Inv, Counted, TypeOK
    <2>2. {t, u} \subseteq Mapped
      OBVIOUS
    <2>3. /\ IsFiniteSet({t, u})
          /\ Cardinality({t, u}) <= Cardinality(Mapped)
          /\ Cardinality({t, u}) \in Nat /\ Cardinality(Mapped) \in Nat
      BY <2>1, <2>2, FS_Subset, FS_CardinalityType
    <2>4. Cardinality({t, u}) = IF t = u THEN 1 ELSE 2
      <3>1. IsFiniteSet({t}) /\ Cardinality({t}) = 1
        BY FS_Singleton
      <3>2. {t, u} = {t} \cup {u}
        OBVIOUS
      <3>3. CASE t = u
        BY <3>1, <3>2, <3>3
      <3>4. CASE t # u
        BY <3>1, <3>2, <3>4, FS_AddElement
      <3> QED BY <3>3, <3>4
    <2> QED BY <2>1, <2>3, <2>4
  <1> QED BY <1>1, InvAlways, PTL
=============================================================================
