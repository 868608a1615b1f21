---------------------------- MODULE MCDrivenClient ----------------------------
(* Two requests and a stream, two connections, two streams at a time.      *)
EXTENDS DrivenClient

CONSTANTS r1, r2, s1

MCRequests == {r1, r2}
MCStreams  == {s1}
MCIds      == 1..3
=============================================================================
