---------------------------- MODULE MCVaultSync ----------------------------
(* VaultSync on a small instance. *)
EXTENDS VaultSync, TLC

\* Ids of one kind are interchangeable.
Symmetry == Permutations(ItemIds) \cup Permutations(FolderIds)

\* Nothing is claimed any more of a tab that may have missed every row, and a
\* suspect row stays one.
SomethingClaimed == suspect # Ids
=============================================================================
