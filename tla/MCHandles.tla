------------------------------ MODULE MCHandles ------------------------------
(* Two caches, two request-done hooks, two append hooks.                   *)
EXTENDS Handles, TLC

CONSTANTS k1, k2, d1, d2, a1, a2

MCCaches == {k1, k2}
MCDone   == {d1, d2}
MCAppend == {a1, a2}

Symmetry == Permutations(MCCaches) \cup Permutations(MCDone) \cup Permutations(MCAppend)
=============================================================================
