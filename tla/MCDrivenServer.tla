--------------------------- MODULE MCDrivenServer ---------------------------
(* Instances of DrivenServer: two requests share a connection, a third has *)
(* its own; no header, a valid one, and an invalid one first and last.     *)
EXTENDS DrivenServer, TLC

CONSTANTS r1, r2, r3, k1, k2

MCRequests == {r1, r2, r3}
MCConns    == {k1, k2}
MCConnOf   == (r1 :> k1) @@ (r2 :> k1) @@ (r3 :> k2)

H(name, ok) == [name |-> name, ok |-> ok]
MCHeaderLists ==
    {<<>>, <<H("etag", TRUE)>>, <<H("age", FALSE)>>, <<H("etag", TRUE), H("age", FALSE)>>}
=============================================================================
