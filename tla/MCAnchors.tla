------------------------------ MODULE MCAnchors ------------------------------
(* Three anchors of which two are a quorum, a log of two entries, and one   *)
(* epoch after the genesis.                                                 *)
EXTENDS Anchors, TLC

CONSTANTS a1, a2, a3, e1, e2

MCAnchorSet == {a1, a2, a3}
MCEntries   == {e1, e2}

Symmetry == Permutations(MCAnchorSet) \cup Permutations(MCEntries)
=============================================================================
