--------------------------- MODULE MCAcpiOsExecute ---------------------------
(* Two threads, executions nested twice, a wait that gives up after two      *)
(* polls: every stage of a call meets every stage of the other's, and both   *)
(* ends of a wait are reached. The safety properties are proved for every    *)
(* number of threads.                                                        *)
EXTENDS AcpiOsExecute
=============================================================================
