------------------------------ MODULE Anchors ------------------------------
(***************************************************************************)
(* The anchors of a log node (trust/anchor.rs, trust/checkpoint.rs): each  *)
(* compares the log node's root with the one of its own replica and signs  *)
(* it once an epoch; a coordinator makes a checkpoint of a quorum of       *)
(* partial signatures.                                                     *)
(*                                                                         *)
(* The log node restarts with an empty log, an anchor without the roots it *)
(* had collected.  Partial signatures travel by any way, late, twice or    *)
(* never.  How an anchor keeps its replica is up to its application; two   *)
(* things are assumed of it (Replicate, RestartAnchor): entries are        *)
(* appended to a replica and never taken off it, and it is durable.        *)
(*                                                                         *)
(* A checkpoint is its epoch and root; signatures cannot be made up.       *)
(***************************************************************************)
EXTENDS TransparencyLog, Integers, FiniteSets

CONSTANTS
    AnchorSet, \* the anchors
    Threshold, \* partials that make a quorum
    MaxEpoch   \* bound on the epochs

ASSUME AnchorsAssumption ==
    /\ IsFiniteSet(AnchorSet) /\ Threshold \in Nat /\ MaxEpoch \in Nat
    /\ 2 * Threshold > Cardinality(AnchorSet)
    /\ Threshold <= Cardinality(AnchorSet)

VARIABLES
    epoch,     \* now
    replica,   \* each anchor's replica of the log
    collected, \* the root each anchor has recorded, by epoch
    signed     \* the partial signatures there are

vars == <<log, epoch, replica, collected, signed>>

CONFIG_INVALID          == -101
TRUST_INVALID_ENTRY     == -701
TRUST_THRESHOLD         == -704
TRUST_FATAL_LOG_CORRUPT == -782

Checkpoint == [epoch : 0..MaxEpoch, root : Logs]
Partial    == [by : AnchorSet, on : Checkpoint]

Signers(c) == {a \in AnchorSet : [by |-> a, on |-> c] \in signed}

(* finish_checkpoint, of the partials of n anchors.                        *)
FinishCode(n) ==
    IF n = 0 THEN CONFIG_INVALID ELSE IF n >= Threshold THEN 0 ELSE TRUST_THRESHOLD

(* A checkpoint that a coordinator can make and publish.                   *)
Finished(c) == Check(FinishCode(Cardinality(Signers(c)))) = "Ok"

(* genesis_checkpoint: the founders all sign.                              *)
GenesisCode(founders, threshold) ==
    IF founders = 0 \/ threshold = 0 \/ threshold > founders THEN CONFIG_INVALID ELSE 0

Genesis == [epoch |-> 0, root |-> <<>>]

Init ==
    /\ LogInit
    /\ epoch = 0
    /\ replica = [a \in AnchorSet |-> <<>>]
    /\ collected = {}
    /\ signed = IF GenesisCode(Cardinality(AnchorSet), Threshold) = 0
                THEN [by : AnchorSet, on : {Genesis}] ELSE {}

(* An assumption, no code of the repository: while the log has more        *)
(* entries than the replica, the anchor appends the one it lacks.          *)
Replicate(a) ==
    /\ Len(replica[a]) < Len(log)
    /\ replica' = [replica EXCEPT ![a] = Append(@, log[Len(@) + 1])]
    /\ UNCHANGED <<log, epoch, collected, signed>>

SizesOnly(server, local) ==   \* faulty: the root itself is not compared
    IF Len(server) = Len(local) THEN 0 ELSE TRUST_FATAL_LOG_CORRUPT

CollectCode(server, local) ==
    IF server = local THEN 0 ELSE TRUST_FATAL_LOG_CORRUPT

CollectedAhead(a) ==   \* faulty: recorded for the epoch to come
    [by |-> a, on |-> [epoch |-> epoch + 1, root |-> log]]

(* What collect_log_root records.                                          *)
Collected(a) == [by |-> a, on |-> [epoch |-> epoch, root |-> log]]

(* AnchorNode::collect_log_root, with the root the log node serves.  No    *)
(* one asks before there is an entry.                                      *)
Collect(a) ==
    /\ epoch > 0 /\ log # <<>>
    /\ Check(CollectCode(log, replica[a])) = "Ok"
    /\ collected' = {p \in collected : p.by # a \/ p.on.epoch # epoch}
                       \cup {Collected(a)}
    /\ UNCHANGED <<log, epoch, replica, signed>>

ProduceCode(p) == IF p \in collected THEN 0 ELSE TRUST_INVALID_ENTRY

(* AnchorNode::produce_partial_sig for the anchor itself; or dispatch for  *)
(* a peer, whose request_partial_sig takes it.                             *)
Sign(a, c) ==
    /\ Check(ProduceCode([by |-> a, on |-> c])) = "Ok"
    /\ signed' = signed \cup {[by |-> a, on |-> c]}
    /\ UNCHANGED <<log, epoch, replica, collected>>

(* AnchorNode::new: what was collected is gone, the replica is not.        *)
RestartAnchor(a) ==
    /\ collected' = {p \in collected : p.by # a}
    /\ UNCHANGED <<log, epoch, replica, signed>>

NextEpoch ==
    /\ epoch < MaxEpoch /\ epoch' = epoch + 1
    /\ UNCHANGED <<log, replica, collected, signed>>

Next ==
    \/ LogNext /\ UNCHANGED <<epoch, replica, collected, signed>>
    \/ \E a \in AnchorSet : Replicate(a) \/ Collect(a) \/ RestartAnchor(a)
    \/ \E p \in collected : Sign(p.by, p.on)
    \/ NextEpoch

Spec == Init /\ [][Next]_vars

(***************************************************************************)
(* Properties                                                              *)
(***************************************************************************)
(* The state is well typed, and no root was collected or signed for an     *)
(* epoch to come (collect_log_root).                                       *)
TypeOK ==
    /\ log \in Logs
    /\ epoch \in 0..MaxEpoch
    /\ replica \in [AnchorSet -> Logs]
    /\ collected \subseteq Partial /\ signed \subseteq Partial
    /\ \A p \in collected \cup signed : p.on.epoch <= epoch

(***************************************************************************)
(* Checkpoints that a quorum of anchors signed form one chain: of any two, *)
(* one is a prefix of the other, although the log node may have started    *)
(* over with another log, and anchors restart and may sign two roots in    *)
(* one epoch (collect_log_root, produce_partial_sig, finish_checkpoint).   *)
(***************************************************************************)
CheckpointsChain ==
    \A p, q \in signed : Finished(p.on) /\ Finished(q.on) =>
        Prefix(p.on.root, q.on.root) \/ Prefix(q.on.root, p.on.root)

=============================================================================
