---------------------------- MODULE AnchorsProofs ----------------------------
(***************************************************************************)
(* Checkpoints form a chain, for any number of anchors, any quorum of more *)
(* than half of them, and logs and epochs of any length.                   *)
(*                                                                         *)
(* CheckpointsChain is not inductive.  What is: an anchor's replica only   *)
(* grows, so every root it has collected or signed is a prefix of it       *)
(* (RootsAreReplicated).  Two quorums have an anchor in common, and two    *)
(* prefixes of its replica are prefixes one of the other.                  *)
(***************************************************************************)
EXTENDS Anchors, SequenceTheorems, FiniteSetTheorems, TLAPS

(***************************************************************************)
(* The log node: a step leaves it with a log, be it a restart or not.      *)
(***************************************************************************)
LEMMA IsALog == \A s \in Logs : s \in Seq(Entries) /\ Len(s) \in Nat /\ Len(s) <= MaxLog
<1> SUFFICES ASSUME NEW s \in Logs PROVE s \in Seq(Entries) /\ Len(s) \in Nat /\ Len(s) <= MaxLog
  OBVIOUS
<1>1. PICK n \in 0..MaxLog : s \in [1..n -> Entries]
  BY DEF Logs
<1>2. n \in Nat /\ s \in Seq(Entries)
  BY <1>1, SeqDef, LogAssumption
<1>. QED  BY <1>1, <1>2, LenProperties

LEMMA BecomesALog == \A s \in Seq(Entries) : Len(s) <= MaxLog => s \in Logs
<1> SUFFICES ASSUME NEW s \in Seq(Entries), Len(s) <= MaxLog PROVE s \in Logs
  OBVIOUS
<1>1. Len(s) \in 0..MaxLog /\ s \in [1..Len(s) -> Entries]
  BY LenProperties, LogAssumption
<1>. QED  BY <1>1 DEF Logs

LEMMA EmptyLog == <<>> \in Logs /\ Len(<<>>) = 0
<1>1. <<>> \in Seq(Entries) /\ Len(<<>>) = 0
  BY EmptySeq
<1>2. Len(<<>>) <= MaxLog
  BY <1>1, LogAssumption
<1>. QED  BY <1>1, <1>2, BecomesALog, Zenon

LEMMA Grows ==
    ASSUME NEW s \in Seq(Entries), NEW e \in Entries
    PROVE  /\ Append(s, e) \in Seq(Entries) /\ Len(Append(s, e)) = Len(s) + 1
           /\ \A i \in 1..Len(s) : Append(s, e)[i] = s[i]
           /\ Append(s, e)[Len(s) + 1] = e
BY AppendProperties

LEMMA GrowsToALog ==
    ASSUME NEW s \in Seq(Entries), NEW e \in Entries, Len(s) < MaxLog
    PROVE  Append(s, e) \in Logs
<1>1. Append(s, e) \in Seq(Entries)
  BY AppendProperties
<1>2. Len(Append(s, e)) <= MaxLog
  BY AppendProperties, LenProperties, LogAssumption
<1>. QED  BY <1>1, <1>2, BecomesALog, Zenon

LEMMA PrefixOfGrown ==
    ASSUME NEW r \in Seq(Entries), NEW s \in Seq(Entries), NEW e \in Entries, Prefix(r, s)
    PROVE  Prefix(r, Append(s, e))
BY Grows, LenProperties DEF Prefix

LEMMA PrefixesOfOne ==
    ASSUME NEW r \in Seq(Entries), NEW s \in Seq(Entries), NEW t \in Seq(Entries),
           Prefix(r, t), Prefix(s, t)
    PROVE  Prefix(r, s) \/ Prefix(s, r)
BY LenProperties DEF Prefix

LEMMA LogStep == log \in Logs /\ LogNext => log' \in Logs
<1>1. log \in Logs /\ RestartLog => log' \in Logs
  BY EmptyLog DEF RestartLog
<1>2. ASSUME log \in Logs, NEW e \in Entries, Submit(e) PROVE log' \in Logs
  BY <1>2, IsALog, GrowsToALog DEF Submit
<1>. QED  BY <1>1, <1>2 DEF LogNext

(***************************************************************************)
(* The anchors.                                                            *)
(***************************************************************************)
RootsAreReplicated ==
    \A p \in collected \cup signed : Prefix(p.on.root, replica[p.by])

IInv == TypeOK /\ RootsAreReplicated

(* The checks of the collected root and of the partials' number.           *)
LEMMA Checked ==
    /\ \A s, t : Check(CollectCode(s, t)) = "Ok" => s = t
    /\ \A n \in Nat : Check(FinishCode(n)) = "Ok" => n >= Threshold
    /\ \A p : Check(ProduceCode(p)) = "Ok" => p \in collected
BY SMTT(60) DEF Check, CollectCode, FinishCode, ProduceCode, FromCode, Named, CONFIG_INVALID,
                TRUST_INVALID_ENTRY, TRUST_THRESHOLD, TRUST_FATAL_LOG_CORRUPT

(***************************************************************************)
(* The invariant.                                                          *)
(***************************************************************************)
LEMMA InitInv == Init => IInv
<1> SUFFICES ASSUME Init PROVE IInv
  OBVIOUS
<1>1. log = <<>> /\ replica = [a \in AnchorSet |-> <<>>] /\ epoch = 0 /\ collected = {}
  BY DEF Init, LogInit
<1>2. Genesis \in Checkpoint
  <2>1. 0 \in 0..MaxEpoch
    BY AnchorsAssumption
  <2>. QED  BY <2>1, EmptyLog DEF Checkpoint, Genesis
<1>3. /\ signed \subseteq Partial
      /\ \A p \in signed : p.by \in AnchorSet /\ p.on.root = <<>> /\ p.on.epoch = 0
  BY <1>2 DEF Init, Partial, Genesis
<1>4. TypeOK
  <2>1. epoch \in 0..MaxEpoch /\ collected \subseteq Partial
    BY <1>1, AnchorsAssumption
  <2>2. log \in Logs /\ replica \in [AnchorSet -> Logs]
    BY <1>1, EmptyLog
  <2>3. \A p \in collected \cup signed : p.on.epoch <= epoch
    BY <1>1, <1>3
  <2>. QED  BY <1>3, <2>1, <2>2, <2>3, Zenon DEF TypeOK
<1>5. RootsAreReplicated
  BY <1>1, <1>3, EmptyLog DEF RootsAreReplicated, Prefix
<1>. QED  BY <1>4, <1>5 DEF IInv

(* The log node's own steps.                                               *)
LEMMA LogMoving ==
    ASSUME IInv, LogNext, UNCHANGED <<epoch, replica, collected, signed>>
    PROVE  IInv'
BY LogStep DEF IInv, TypeOK, RootsAreReplicated

(* The anchors' steps.                                                     *)
LEMMA Replicating ==
    ASSUME IInv, NEW a \in AnchorSet, Replicate(a)
    PROVE  IInv'
<1> DEFINE e == log[Len(replica[a]) + 1]
<1>1. /\ Len(replica[a]) < Len(log)
      /\ replica' = [replica EXCEPT ![a] = Append(replica[a], e)]
      /\ log' = log /\ epoch' = epoch /\ collected' = collected /\ signed' = signed
  BY DEF Replicate
<1>2. /\ log \in Seq(Entries) /\ Len(log) <= MaxLog /\ Len(log) \in Nat
      /\ \A b \in AnchorSet : replica[b] \in Seq(Entries) /\ Len(replica[b]) \in Nat
  BY IsALog DEF IInv, TypeOK
<1>3. e \in Entries
  BY <1>1, <1>2, ElementOfSeq
<1>. HIDE DEF e
<1>4. TypeOK'
  <2>1. Append(replica[a], e) \in Logs
    BY <1>1, <1>2, <1>3, GrowsToALog, LogAssumption
  <2>. QED  BY <1>1, <2>1 DEF IInv, TypeOK
<1>5. RootsAreReplicated'
  <2> SUFFICES ASSUME NEW p \in collected \cup signed PROVE Prefix(p.on.root, replica'[p.by])
    BY <1>1 DEF RootsAreReplicated
  <2>1. p.by \in AnchorSet /\ p.on.root \in Seq(Entries) /\ Prefix(p.on.root, replica[p.by])
    BY IsALog DEF IInv, TypeOK, RootsAreReplicated, Partial, Checkpoint
  <2>2. CASE p.by = a
    BY <1>1, <1>2, <1>3, <2>1, <2>2, PrefixOfGrown DEF IInv, TypeOK
  <2>3. CASE p.by # a
    BY <1>1, <2>1, <2>3 DEF IInv, TypeOK
  <2>. QED  BY <2>2, <2>3
<1>. QED  BY <1>4, <1>5 DEF IInv

LEMMA Collecting ==
    ASSUME IInv, NEW a \in AnchorSet, Collect(a)
    PROVE  IInv'
<1>1. /\ log = replica[a] /\ collected' \subseteq collected \cup {Collected(a)}
      /\ UNCHANGED <<log, epoch, replica, signed>>
  BY Checked DEF Collect
<1>2. Collected(a) \in Partial /\ Collected(a).on.epoch <= epoch
  BY DEF Collected, IInv, TypeOK, Partial, Checkpoint
<1>3. Prefix(Collected(a).on.root, replica[Collected(a).by])
  BY <1>1, IsALog, LenProperties DEF Collected, IInv, TypeOK, Prefix
<1>. QED  BY <1>1, <1>2, <1>3 DEF IInv, TypeOK, RootsAreReplicated

LEMMA NextInv == IInv /\ [Next]_vars => IInv'
<1> SUFFICES ASSUME IInv, [Next]_vars PROVE IInv'
  OBVIOUS
<1>1. CASE LogNext /\ UNCHANGED <<epoch, replica, collected, signed>>
  BY <1>1, LogMoving
<1>2. ASSUME NEW a \in AnchorSet, Replicate(a) \/ Collect(a) PROVE IInv'
  BY <1>2, Replicating, Collecting
<1>3. ASSUME NEW a \in AnchorSet, RestartAnchor(a) PROVE IInv'
  <2>1. collected' \subseteq collected
    BY <1>3 DEF RestartAnchor
  <2>. QED  BY <1>3, <2>1 DEF RestartAnchor, IInv, TypeOK, RootsAreReplicated
<1>4. ASSUME NEW p \in collected, Sign(p.by, p.on) PROVE IInv'
  <2>1. [by |-> p.by, on |-> p.on] \in collected
    BY <1>4, Checked DEF Sign
  <2>2. signed' \subseteq signed \cup collected
    BY <1>4, <2>1 DEF Sign
  <2>. QED  BY <1>4, <2>2 DEF Sign, IInv, TypeOK, RootsAreReplicated
<1>5. CASE NextEpoch
  <2>1. UNCHANGED <<log, replica, collected, signed>> /\ epoch' \in 0..MaxEpoch /\ epoch' = epoch + 1
    BY <1>5, AnchorsAssumption DEF NextEpoch, IInv, TypeOK
  <2>2. \A p \in collected \cup signed : p.on.epoch \in Nat /\ p.on.epoch <= epoch
    BY AnchorsAssumption DEF IInv, TypeOK, Partial, Checkpoint
  <2>3. \A p \in collected \cup signed : p.on.epoch <= epoch'
    BY <2>1, <2>2, AnchorsAssumption DEF IInv, TypeOK
  <2>. QED  BY <2>1, <2>3 DEF IInv, TypeOK, RootsAreReplicated
<1>6. CASE UNCHANGED vars
  BY <1>6 DEF vars, IInv, TypeOK, RootsAreReplicated
<1>. QED  BY <1>1, <1>2, <1>3, <1>4, <1>5, <1>6 DEF Next

THEOREM Invariant == Spec => []IInv
BY InitInv, NextInv, PTL DEF Spec

(***************************************************************************)
(* The state of the log node and of its anchors is well typed, and nothing *)
(* is collected or signed for an epoch to come (collect_log_root).         *)
(***************************************************************************)
THEOREM TypeCorrect == Spec => []TypeOK
BY Invariant, PTL DEF IInv

(***************************************************************************)
(* Two quorums meet.                                                       *)
(***************************************************************************)
LEMMA QuorumsMeet ==
    ASSUME NEW c, NEW d, Finished(c), Finished(d)
    PROVE  Signers(c) \cap Signers(d) # {}
<1>1. /\ Signers(c) \in SUBSET AnchorSet /\ Signers(d) \in SUBSET AnchorSet
      /\ IsFiniteSet(Signers(c)) /\ IsFiniteSet(Signers(d))
  BY FS_Subset, AnchorsAssumption DEF Signers
<1>2. /\ Cardinality(Signers(c)) \in Nat /\ Cardinality(Signers(d)) \in Nat
      /\ Cardinality(AnchorSet) \in Nat
  BY <1>1, FS_CardinalityType, AnchorsAssumption
<1>3. Cardinality(Signers(c)) >= Threshold /\ Cardinality(Signers(d)) >= Threshold
  BY <1>2, Checked DEF Finished
<1>4. Cardinality(Signers(c) \cup Signers(d)) <= Cardinality(AnchorSet)
  BY <1>1, FS_Subset, AnchorsAssumption
<1>5. Cardinality(Signers(c) \cap Signers(d))
        = Cardinality(Signers(c)) + Cardinality(Signers(d)) - Cardinality(Signers(c) \cup Signers(d))
  <2>1. /\ IsFiniteSet(Signers(c) \cup Signers(d)) /\ IsFiniteSet(Signers(c) \cap Signers(d))
    BY <1>1, FS_Union, FS_Intersection
  <2>2. /\ Cardinality(Signers(c) \cup Signers(d)) \in Nat
        /\ Cardinality(Signers(c) \cap Signers(d)) \in Nat
    BY <2>1, FS_CardinalityType
  <2>3. Cardinality(Signers(c) \cup Signers(d))
          = Cardinality(Signers(c)) + Cardinality(Signers(d)) - Cardinality(Signers(c) \cap Signers(d))
    BY <1>1, FS_Union
  <2>. QED  BY <1>2, <2>2, <2>3
<1>6. Cardinality(Signers(c) \cap Signers(d)) # 0
  <2>1. Cardinality(Signers(c) \cup Signers(d)) \in Nat
    BY <1>1, FS_Union, FS_CardinalityType
  <2>. QED  BY <1>2, <1>3, <1>4, <1>5, <2>1, AnchorsAssumption
<1>. QED  BY <1>6, FS_EmptySet

(***************************************************************************)
(* Whatever the log node loses, and however often anchors restart, the     *)
(* checkpoints that can be made of a majority's partial signatures are     *)
(* prefixes one of the other (collect_log_root, finish_checkpoint).        *)
(***************************************************************************)
THEOREM Chain == Spec => []CheckpointsChain
<1>1. IInv => CheckpointsChain
  <2> SUFFICES ASSUME IInv, NEW p \in signed, NEW q \in signed, Finished(p.on), Finished(q.on)
               PROVE  Prefix(p.on.root, q.on.root) \/ Prefix(q.on.root, p.on.root)
    BY DEF CheckpointsChain
  <2>1. PICK a \in AnchorSet : [by |-> a, on |-> p.on] \in signed /\ [by |-> a, on |-> q.on] \in signed
    BY QuorumsMeet DEF Signers
  <2>2. Prefix(p.on.root, replica[a]) /\ Prefix(q.on.root, replica[a])
    BY <2>1 DEF IInv, RootsAreReplicated
  <2>3. /\ p.on.root \in Seq(Entries) /\ q.on.root \in Seq(Entries)
        /\ replica[a] \in Seq(Entries)
    BY IsALog DEF IInv, TypeOK, Partial, Checkpoint
  <2>. QED  BY <2>2, <2>3, PrefixesOfOne
<1>. QED  BY <1>1, Invariant, PTL

=============================================================================
