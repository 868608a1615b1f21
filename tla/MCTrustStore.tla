---------------------------- MODULE MCTrustStore ----------------------------
(* A key binding and its revocation, two epochs after the genesis, and two  *)
(* checkpoints, which may be of one epoch.                                  *)
EXTENDS TrustStore

CONSTANTS binding, revocation

MCEntries == {binding, revocation}
=============================================================================
