-------------------------- MODULE TrustStoreProofs --------------------------
(***************************************************************************)
(* A save binds every later store, for logs and epochs of any length.      *)
(*                                                                         *)
(* SavesBind says of the store what a load must find of the save, so the   *)
(* invariant has both (Sound).                                             *)
(***************************************************************************)
EXTENDS TrustStore, SequenceTheorems, TLAPS

(***************************************************************************)
(* The log node: a step leaves it with a log (the lemmas of AnchorsProofs, *)
(* which has other variables).                                             *)
(***************************************************************************)
LEMMA IsALog == \A s \in Logs : s \in Seq(Entries) /\ Len(s) \in Nat /\ Len(s) <= MaxLog
<1> SUFFICES ASSUME NEW s \in Logs PROVE s \in Seq(Entries) /\ Len(s) \in Nat /\ Len(s) <= MaxLog
  OBVIOUS
<1>1. PICK n \in 0..MaxLog : s \in [1..n -> Entries]
  BY DEF Logs
<1>2. n \in Nat /\ s \in Seq(Entries)
  BY <1>1, SeqDef, LogAssumption
<1>. QED  BY <1>1, <1>2, LenProperties

LEMMA BecomesALog == \A s \in Seq(Entries) : Len(s) <= MaxLog => s \in Logs
<1> SUFFICES ASSUME NEW s \in Seq(Entries), Len(s) <= MaxLog PROVE s \in Logs
  OBVIOUS
<1>1. Len(s) \in 0..MaxLog /\ s \in [1..Len(s) -> Entries]
  BY LenProperties, LogAssumption
<1>. QED  BY <1>1 DEF Logs

LEMMA EmptyLog == <<>> \in Logs /\ Len(<<>>) = 0
<1>1. <<>> \in Seq(Entries) /\ Len(<<>>) = 0
  BY EmptySeq
<1>2. Len(<<>>) <= MaxLog
  BY <1>1, LogAssumption
<1>. QED  BY <1>1, <1>2, BecomesALog, Zenon

LEMMA GrowsToALog ==
    ASSUME NEW s \in Seq(Entries), NEW e \in Entries, Len(s) < MaxLog
    PROVE  Append(s, e) \in Logs
<1>1. Append(s, e) \in Seq(Entries)
  BY AppendProperties
<1>2. Len(Append(s, e)) <= MaxLog
  BY AppendProperties, LenProperties, LogAssumption
<1>. QED  BY <1>1, <1>2, BecomesALog, Zenon

LEMMA LogStep == log \in Logs /\ LogNext => log' \in Logs
<1>1. log \in Logs /\ RestartLog => log' \in Logs
  BY EmptyLog DEF RestartLog
<1>2. ASSUME log \in Logs, NEW e \in Entries, Submit(e) PROVE log' \in Logs
  BY <1>2, IsALog, GrowsToALog DEF Submit
<1>. QED  BY <1>1, <1>2 DEF LogNext

(***************************************************************************)
(* The store.                                                              *)
(***************************************************************************)
Sound(s) ==
    /\ s.cp \in s.history
    /\ \A c \in s.history : /\ Len(c.root) <= s.max
                            /\ \A d \in s.history : c.epoch = d.epoch => c = d

NotBehind == saved.max <= store.max /\ saved.history \subseteq store.history

IInv == TypeOK /\ Sound(store) /\ Sound(saved) /\ NotBehind

LEMMA Refusals ==
    /\ Check(TRUST_THRESHOLD) # "Ok" /\ Check(TRUST_FATAL_EQUIVOCATION) # "Ok"
    /\ Check(TRUST_STALE_CHECKPOINT) # "Ok"
BY SMTT(60) DEF Check, FromCode, Named, TRUST_THRESHOLD, TRUST_FATAL_EQUIVOCATION,
                TRUST_STALE_CHECKPOINT

(* What is installed is not a fork of anything installed before.           *)
LEMMA Installed ==
    ASSUME NEW c, NEW quorum \in BOOLEAN, Check(UpdateCode(c, quorum)) = "Ok"
    PROVE  ~Forked(c)
BY Refusals DEF UpdateCode

(* A clean answer is of a log that has not shrunk.                         *)
LEMMA CleanAnswers ==
    ASSUME NEW commitment \in BOOLEAN, KeyStatus(VerifyCode(commitment)) = "NotRevoked"
    PROVE  ~RolledBack(Len(log))
<1> SUFFICES ASSUME RolledBack(Len(log)) PROVE FALSE
  OBVIOUS
<1>1. VerifyCode(commitment) = -782
  BY DEF VerifyCode, TRUST_FATAL_LOG_CORRUPT
<1>. QED  BY <1>1 DEF KeyStatus

LEMMA LenIsACount == ASSUME TypeOK PROVE Len(log) \in 0..MaxLog /\ store.max \in Nat
BY IsALog, LogAssumption DEF TypeOK, Store

(* A log node's step: the store is left alone.                             *)
LEMMA LogMoving ==
    ASSUME IInv, LogNext, UNCHANGED <<epoch, published, nodeVars>>
    PROVE  IInv'
<1>1. log' \in Logs
  BY LogStep DEF IInv, TypeOK
<1>. QED  BY <1>1 DEF nodeVars, IInv, TypeOK, Sound, NotBehind

LEMMA InitInv == Init => IInv
<1> SUFFICES ASSUME Init PROVE IInv
  OBVIOUS
<1>1. log \in Logs
  BY EmptyLog DEF Init, LogInit
<1>2. Genesis \in Checkpoint /\ Len(Genesis.root) = 0
  BY EmptyLog, TrustStoreAssumption DEF Genesis, Checkpoint
<1>3. NewStore \in Store
  BY <1>2, LogAssumption DEF NewStore, Store
<1>4. Sound(NewStore)
  BY <1>2 DEF Sound, NewStore
<1>5. TypeOK
  BY <1>1, <1>2, <1>3, TrustStoreAssumption DEF Init, TypeOK
<1>6. NotBehind
  BY <1>3 DEF NotBehind, Init, NewStore
<1>. QED  BY <1>4, <1>5, <1>6 DEF IInv, Init

(***************************************************************************)
(* The node's steps.                                                       *)
(***************************************************************************)
LEMMA Installing ==
    ASSUME IInv, NEW c \in published, NEW quorum \in BOOLEAN, Install(c, quorum)
    PROVE  IInv'
<1>1. UNCHANGED <<log, epoch, published, saved>>
  BY DEF Install
<1>2. CASE store' = store
  BY <1>1, <1>2 DEF IInv, TypeOK, Sound, NotBehind
<1>3. CASE store' # store
  <2> DEFINE m == Larger(store.max, Len(c.root))
  <2>1. /\ store' = [max |-> m, cp |-> c, history |-> store.history \cup {c}]
        /\ ~Forked(c)
    BY <1>3, Installed DEF Install
  <2>2. c \in Checkpoint /\ Len(c.root) \in 0..MaxLog
    BY IsALog, LogAssumption DEF IInv, TypeOK, Checkpoint
  <2>3. m \in 0..MaxLog /\ m >= store.max /\ m >= Len(c.root)
    BY <2>2, LogAssumption DEF IInv, TypeOK, Store, Larger
  <2>. HIDE DEF m
  <2>4. store' \in Store
    BY <2>1, <2>2, <2>3 DEF IInv, TypeOK, Store
  <2>5. NotBehind'
    BY <1>1, <2>1, <2>3, LogAssumption DEF IInv, TypeOK, Store, NotBehind
  <2>6. Sound(store')
    <3>1. \A d \in store.history : Len(d.root) <= m
      <4> SUFFICES ASSUME NEW d \in store.history PROVE Len(d.root) <= m
        OBVIOUS
      <4>1. Len(d.root) <= store.max /\ Len(d.root) \in Nat /\ store.max \in Nat
        BY IsALog, LogAssumption DEF IInv, TypeOK, Store, Sound, Checkpoint
      <4>. QED  BY <2>3, <4>1
    <3>2. \A d \in store.history : d.epoch = c.epoch => d = c
      BY <2>1, <2>2 DEF Forked, IInv, TypeOK, Store, Checkpoint
    <3>. QED  BY <2>1, <2>3, <3>1, <3>2 DEF IInv, Sound
  <2>. QED  BY <1>1, <2>4, <2>5, <2>6 DEF IInv, TypeOK, Sound
<1>. QED  BY <1>2, <1>3

(* The counter moves up, and nothing else of the store.                    *)
LEMMA Counting ==
    ASSUME IInv, UNCHANGED <<log, epoch, published, saved>>,
           store' = store \/ (Len(log) >= store.max /\ store' = Counted(Len(log)))
    PROVE  IInv'
<1>1. \/ store' = store
      \/ Len(log) >= store.max /\ store' = [store EXCEPT !.max = Len(log)]
  BY DEF Counted
<1>2. Len(log) \in 0..MaxLog
  BY LenIsACount DEF IInv
<1>3. /\ store' \in Store /\ store'.max >= store.max /\ store'.max \in Nat /\ store.max \in Nat
      /\ store'.cp = store.cp /\ store'.history = store.history
  BY <1>1, <1>2, LogAssumption DEF IInv, TypeOK, Store
<1>4. Sound(store')
  <2>1. \A d \in store.history : Len(d.root) <= store'.max
    <3> SUFFICES ASSUME NEW d \in store.history PROVE Len(d.root) <= store'.max
      OBVIOUS
    <3>1. Len(d.root) <= store.max /\ Len(d.root) \in Nat
      BY IsALog DEF IInv, TypeOK, Store, Sound, Checkpoint
    <3>. QED  BY <1>3, <3>1
  <2>. QED  BY <1>3, <2>1 DEF IInv, Sound
<1>5. NotBehind'
  BY <1>3, LogAssumption DEF IInv, TypeOK, Store, NotBehind
<1>. QED  BY <1>3, <1>4, <1>5 DEF IInv, TypeOK, Sound

LEMMA Verifying ==
    ASSUME IInv, NEW commitment \in BOOLEAN, VerifyKey(commitment)
    PROVE  IInv'
<1>1. CASE KeyStatus(VerifyCode(commitment)) = "NotRevoked"
  <2>1. Len(log) >= store.max
    BY <1>1, CleanAnswers, LenIsACount, LogAssumption DEF RolledBack, IInv
  <2>. QED  BY <1>1, <2>1, Counting DEF VerifyKey
<1>2. CASE KeyStatus(VerifyCode(commitment)) # "NotRevoked"
  <2>1. store' = store
    BY <1>2, Zenon DEF VerifyKey
  <2>2. UNCHANGED <<log, epoch, published, saved>>
    BY DEF VerifyKey
  <2>. QED  BY <2>1, <2>2, Counting
<1>. QED  BY <1>1, <1>2

LEMMA NextInv == IInv /\ [Next]_vars => IInv'
<1> SUFFICES ASSUME IInv, [Next]_vars PROVE IInv'
  OBVIOUS
<1>1. CASE LogNext /\ UNCHANGED <<epoch, published, nodeVars>>
  BY <1>1, LogMoving
<1>2. CASE NextEpoch
  BY <1>2, TrustStoreAssumption DEF NextEpoch, nodeVars, IInv, TypeOK, Sound, NotBehind
<1>3. CASE Publish
  <2>1. [epoch |-> epoch, root |-> log] \in Checkpoint
    BY DEF IInv, TypeOK, Checkpoint
  <2>. QED  BY <1>3, <2>1 DEF Publish, nodeVars, IInv, TypeOK, Sound, NotBehind
<1>4. ASSUME NEW c \in published, NEW quorum \in BOOLEAN, Install(c, quorum) PROVE IInv'
  BY <1>4, Installing
<1>5. CASE Observe
  <2>1. Len(log) >= store.max
    BY <1>5, LenIsACount, LogAssumption DEF Observe, RolledBack, IInv
  <2>. QED  BY <1>5, <2>1, Counting DEF Observe
<1>6. CASE Save
  <2>1. store.max <= store.max
    BY LogAssumption DEF IInv, TypeOK, Store
  <2>. QED  BY <1>6, <2>1 DEF Save, IInv, TypeOK, Sound, NotBehind
<1>7. CASE RestartNode
  <2>1. saved.max <= saved.max
    BY LogAssumption DEF IInv, TypeOK, Store
  <2>. QED  BY <1>7, <2>1 DEF RestartNode, Loaded, IInv, TypeOK, Sound, NotBehind
<1>8. ASSUME NEW commitment \in BOOLEAN, VerifyKey(commitment) PROVE IInv'
  BY <1>8, Verifying
<1>9. CASE UNCHANGED vars
  BY <1>9 DEF vars, nodeVars, IInv, TypeOK, Sound, NotBehind
<1>. QED  BY <1>1, <1>2, <1>3, <1>4, <1>5, <1>6, <1>7, <1>8, <1>9 DEF Next

THEOREM Invariant == Spec => []IInv
BY InitInv, NextInv, PTL DEF Spec

(***************************************************************************)
(* The store, its save and the log node are well typed.                    *)
(***************************************************************************)
THEOREM TypeCorrect == Spec => []TypeOK
BY Invariant, PTL DEF IInv

(***************************************************************************)
(* The counter and the history never fall behind the last save, and the    *)
(* node never holds two checkpoints of one epoch (TrustStore::load,        *)
(* update_checkpoint).                                                     *)
(***************************************************************************)
THEOREM Bound == Spec => []SavesBind
<1>1. IInv => SavesBind
  BY DEF IInv, Sound, NotBehind, SavesBind
<1>. QED  BY <1>1, Invariant, PTL

=============================================================================
