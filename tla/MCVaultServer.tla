--------------------------- MODULE MCVaultServer ---------------------------
(* VaultServer on a small instance. *)
EXTENDS VaultServer, TLC

\* Ids of one kind are interchangeable: nothing orders them.
Symmetry == Permutations(ItemIds) \cup Permutations(FolderIds) \cup Permutations(Blobs)
=============================================================================
