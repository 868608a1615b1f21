-------------------------- MODULE TransparencyLog --------------------------
(***************************************************************************)
(* A log node (logserver.rs, log.rs, the nwlog example): a LogServer that  *)
(* owns an in-memory Log and runs in a server's handler.  Nothing of it    *)
(* survives the process: one that starts again has an empty Log, and what  *)
(* is submitted to it then may be other entries, or the same in another    *)
(* order.  An application that persists entries in its append hook and     *)
(* appends them again before it serves gets one of these logs, too.        *)
(*                                                                         *)
(* A log is the sequence of its entries, and stands for its merkle root:   *)
(* two logs have the same root if and only if they are equal.              *)
(***************************************************************************)
EXTENDS Naturals, Sequences, Codes

CONSTANTS
    Entries,  \* the entries that are submitted
    MaxLog    \* bound on the length of the log

ASSUME LogAssumption == MaxLog \in Nat

VARIABLE log  \* the Log: the entries in order

Logs == UNION {[1..n -> Entries] : n \in 0..MaxLog}

LogInit == log = <<>>

(* LogServer::dispatch, of the write of an entry that C accepts.  One that *)
(* it refuses, a read, and a path that is not the log's leave the log be.  *)
Submit(e) ==
    /\ Len(log) < MaxLog
    /\ log' = Append(log, e)

(* The process ends and starts again: LogServer::new over Log::new.        *)
RestartLog == log' = <<>>

LogNext == RestartLog \/ \E e \in Entries : Submit(e)

(* One log continues the other.                                            *)
Prefix(s, t) == Len(s) <= Len(t) /\ \A i \in 1..Len(s) : s[i] = t[i]

=============================================================================
