----------------------------- MODULE TrustStore -----------------------------
(***************************************************************************)
(* A node's TrustStore (trust/store.rs) over a log node: it installs       *)
(* checkpoints, follows the size of the log, asks about a key, and is      *)
(* saved now and then; a restart is a new store that loads the last save.  *)
(*                                                                         *)
(* Checkpoints (module Anchors) are published of the log as it then is,    *)
(* and reach the node by any way, late, twice or never.  The log node may  *)
(* start over with an empty log, so the node may meet two checkpoints of   *)
(* one epoch and a log that has shrunk.                                    *)
(***************************************************************************)
EXTENDS TransparencyLog, Integers, FiniteSets

CONSTANTS
    Revocation,   \* the entry that revokes the key the node asks about
    MaxEpoch,     \* bound on the epochs
    MaxPublished, \* bound on the checkpoints after the genesis
    WarnEpochs    \* age in epochs at which a checkpoint is still installed

ASSUME TrustStoreAssumption ==
    MaxEpoch \in Nat /\ MaxPublished \in Nat /\ WarnEpochs \in Nat

VARIABLES
    epoch,     \* now
    published, \* the checkpoints there are
    store,     \* the node's TrustStore
    saved      \* the last TrustStore::save

nodeVars == <<store, saved>>
vars     == <<log, epoch, published, nodeVars>>

TRUST_STALE_CHECKPOINT   == -703
TRUST_THRESHOLD          == -704
TRUST_REVOKED            == -705
TRUST_FATAL_EQUIVOCATION == -781
TRUST_FATAL_LOG_CORRUPT  == -782

Checkpoint == [epoch : 0..MaxEpoch, root : Logs]
Genesis    == [epoch |-> 0, root |-> <<>>]

(* TrustStore::new, load_genesis_anchors, and the genesis installed.       *)
NewStore == [max |-> 0, cp |-> Genesis, history |-> {Genesis}]

Init ==
    /\ LogInit
    /\ epoch = 0 /\ published = {Genesis}
    /\ store = NewStore /\ saved = NewStore

NextEpoch ==
    /\ epoch < MaxEpoch /\ epoch' = epoch + 1
    /\ UNCHANGED <<log, published, nodeVars>>

(* The anchors sign what the log node serves.                              *)
Publish ==
    /\ Cardinality(published) <= MaxPublished
    /\ published' = published \cup {[epoch |-> epoch, root |-> log]}
    /\ UNCHANGED <<log, epoch, nodeVars>>

(***************************************************************************)
(* Checkpoints.                                                            *)
(***************************************************************************)
Larger(m, n) == IF m > n THEN m ELSE n

(* nwep_checkpoint_staleness: by age, fresh, warning or stale.             *)
Band(c) ==
    LET age == epoch - c.epoch
    IN  IF age < 1 THEN 0 ELSE IF age <= WarnEpochs THEN 1 ELSE 2

(* CheckpointStatus::from_code.                                            *)
StatusOf(band) == CASE band = 0 -> "Fresh" [] band = 1 -> "Warning" [] OTHER -> "Stale"

(* The equivocation guard: another root in an epoch it has installed.      *)
Forked(c) == \E h \in store.history : h.epoch = c.epoch /\ h.root # c.root

(* nwep_trust_store_update_checkpoint, the partials a quorum or not.       *)
UpdateCode(c, quorum) ==
    IF ~quorum THEN TRUST_THRESHOLD
    ELSE IF Forked(c) THEN TRUST_FATAL_EQUIVOCATION
    ELSE IF StatusOf(Band(c)) = "Stale" THEN TRUST_STALE_CHECKPOINT
    ELSE Band(c)

(* TrustStore::update_checkpoint.                                          *)
Install(c, quorum) ==
    /\ store' = IF Check(UpdateCode(c, quorum)) = "Ok"
                THEN [max     |-> Larger(store.max, Len(c.root)),
                      cp      |-> c,
                      history |-> store.history \cup {c}]
                ELSE store
    /\ UNCHANGED <<log, epoch, published, saved>>

(***************************************************************************)
(* The size of the log, and the key.                                       *)
(***************************************************************************)
RolledBack(n) == n < store.max

CountsIndex(n) == [store EXCEPT !.max = n - 1]   \* faulty: the last index

(* nwep_trust_store_observe_log_size, of a log of n entries.               *)
Counted(n) == [store EXCEPT !.max = n]

(* TrustStore::observe_log_size.                                           *)
Observe ==
    /\ ~RolledBack(Len(log))
    /\ store' = Counted(Len(log))
    /\ UNCHANGED <<log, epoch, published, saved>>

(* nwep_trust_store_verify_key.  The log node signs its size; a proof of   *)
(* revocation takes the commitment of the key to check.                    *)
VerifyCode(commitment) ==
    IF RolledBack(Len(log)) THEN TRUST_FATAL_LOG_CORRUPT
    ELSE IF \A i \in 1..Len(log) : log[i] # Revocation THEN 0
    ELSE IF commitment THEN 1 ELSE TRUST_REVOKED

KeyStatus(rc) == CASE rc = 0 -> "NotRevoked" [] rc = 1 -> "Revoked" [] OTHER -> "error"

(* TrustStore::verify_key.  A clean answer is an observation, too.         *)
VerifyKey(commitment) ==
    /\ store' = IF KeyStatus(VerifyCode(commitment)) = "NotRevoked"
                THEN Counted(Len(log)) ELSE store
    /\ UNCHANGED <<log, epoch, published, saved>>

(***************************************************************************)
(* Persistence.                                                            *)
(***************************************************************************)
Save ==
    /\ saved' = store
    /\ UNCHANGED <<log, epoch, published, store>>

StartFresh == NewStore   \* faulty: the save is not loaded

(* TrustStore::load replaces all of it but the anchor set.                 *)
Loaded == saved

(* The node ends and starts again: TrustStore::new, load_genesis_anchors,  *)
(* load.                                                                   *)
RestartNode ==
    /\ store' = Loaded
    /\ UNCHANGED <<log, epoch, published, saved>>

Next ==
    \/ LogNext /\ UNCHANGED <<epoch, published, nodeVars>>
    \/ NextEpoch \/ Publish
    \/ \E c \in published, quorum \in BOOLEAN : Install(c, quorum)
    \/ Observe \/ Save \/ RestartNode
    \/ \E commitment \in BOOLEAN : VerifyKey(commitment)

Spec == Init /\ [][Next]_vars

(***************************************************************************)
(* Properties                                                              *)
(***************************************************************************)
Store == [max : 0..MaxLog, cp : Checkpoint, history : SUBSET Checkpoint]

TypeOK ==
    /\ log \in Logs
    /\ epoch \in 0..MaxEpoch /\ published \subseteq Checkpoint
    /\ store \in Store /\ saved \in Store

(***************************************************************************)
(* No restart takes the node behind its last save: the counter and the     *)
(* history are at least the saved ones, the counter covers the checkpoints *)
(* installed, and no two of them are of one epoch, whatever the log node   *)
(* serves after its own restarts (TrustStore::save, load and               *)
(* update_checkpoint, store.rs:61, 119-148).                               *)
(***************************************************************************)
SavesBind ==
    /\ saved.max <= store.max /\ saved.history \subseteq store.history
    /\ store.cp \in store.history
    /\ \A c \in store.history : /\ Len(c.root) <= store.max
                                /\ \A d \in store.history : c.epoch = d.epoch => c = d

=============================================================================
