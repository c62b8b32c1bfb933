---------------------------- MODULE MCVaultBlobs ----------------------------
(* VaultBlobs on a small instance. *)
EXTENDS VaultBlobs
=============================================================================
