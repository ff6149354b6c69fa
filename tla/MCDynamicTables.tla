--------------------------- MODULE MCDynamicTables ---------------------------
(* One thread with calls in the user function of its walk, another beside   *)
(* it; two tables that share two owner ids, one inside the other.           *)
EXTENDS DynamicTables

CONSTANTS t1, t2, ssdt1, ssdt2

TwoThreads == {t1, t2}
TwoTables  == {ssdt1, ssdt2}
TwoIds     == {1, 2}
Inside     == [tb \in TwoTables |-> IF tb = ssdt2 THEN ssdt1 ELSE Nobody]
OneOfThem  == {ssdt2}
Nesting    == [t \in TwoThreads |-> IF t = t1 THEN 2 ELSE 1]
=============================================================================
