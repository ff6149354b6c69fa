------------------------- MODULE MCPciConfiguration -------------------------
(* Accesses inside, below and beyond the ECAM window, aligned or not,        *)
(* of each width, and a bridge's header type read by a region's setup.       *)
EXTENDS PciConfiguration, TLC

CONSTANTS t1, t2, t3

Access(op, bus, dev, reg, width) ==
    [op |-> op, seg |-> 0, bus |-> bus, dev |-> dev, fn |-> 1, reg |-> reg, width |-> width]

MCThreads == {t1, t2, t3}

\* No thread is special, and the runs check no liveness.
Symmetry == Permutations(MCThreads)

MCRequests == {Access("write", 1, 3, 7, 16),    (* in the window, not aligned *)
               Access("read", 0, 3, 268, 32),   (* below it, extended register *)
               Access("read", 2, 3, 268, 32),   (* beyond it                  *)
               Access("read", 2, 3, 64, 64)}    (* a width that is refused    *)

\* PCI_CFG_HEADER_TYPE_REG of a bridge in the window and of one beyond it.
MCSetupRequests == {Access("read", 1, 1, 14, 8), Access("read", 2, 1, 14, 8)}

\* The window of one bus of segment 0, which is not the first.
MCAllocation == [seg |-> 0, start |-> 1, end |-> 1]
=============================================================================
