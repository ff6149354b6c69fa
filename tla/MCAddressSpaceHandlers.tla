----------------------- MODULE MCAddressSpaceHandlers -----------------------
(* Two clients that register a context and one that does not, three writes   *)
(* by two or three threads: every order of the stores of two writers and of  *)
(* the loads of a reader beside them, first registrations, replacements,     *)
(* removals and registrations after them.                                    *)
EXTENDS AddressSpaceHandlers, TLC

CONSTANTS t1, t2, t3, c1, c2, c3

MCThreads == {t1, t2, t3}
MCClients == {c1, c2, c3}
MCWithContext == {c1, c2}

\* Reads change nothing another thread sees: one reader at a time is enough.
MCReaders == {t3}

\* The other threads are alike, so are the clients that register a context, and
\* the runs check no liveness.
Symmetry == Permutations(MCThreads \ MCReaders) \cup Permutations(MCWithContext)
=============================================================================
