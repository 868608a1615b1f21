--------------------------- MODULE MCManagedClient ---------------------------
(* Instances of ManagedClient: calls r1 to r4 and a call m1 whose path is *)
(* malformed, on a connection of a few streams.                            *)
EXTENDS ManagedClient, TLC

CONSTANTS r1, r2, r3, r4, m1, s1, s2, s3

(* client_safety: three entries can be pending at once, so swap_remove     *)
(* moves an entry over a gap, and a fourth call may find no stream free.   *)
FourCalls    == {r1, r2, r3, r4}
ThreeStreams == {s1, s2, s3}
NoMalformed  == {}

(* client_service: three calls, two of them well formed, on two streams.   *)
ThreeCalls == {r1, r2, m1}
TwoStreams == {s1, s2}

OneMalformed == {m1}

Symmetry == Permutations(FourCalls) \cup Permutations(ThreeStreams)
=============================================================================
