--------------------------- MODULE MCAcpiOsCache ---------------------------
(* Two threads and three objects with a cache two deep: the list is empty,   *)
(* partly filled and full, and both threads are outside the lock at once.    *)
EXTENDS AcpiOsCache
=============================================================================
