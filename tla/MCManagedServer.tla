--------------------------- MODULE MCManagedServer ---------------------------
(* Two resolve calls and one dht_metrics call on a managed server.         *)
EXTENDS ManagedServer, TLC

CONSTANTS c1, c2, m1

MCCallers == {c1, c2, m1}
MCMetrics == {m1}
Resolves  == {c1, c2}

(* The clock is set back by a little and by far.                            *)
MCChanges == {-2, -100}

Symmetry == Permutations(Resolves)
=============================================================================
