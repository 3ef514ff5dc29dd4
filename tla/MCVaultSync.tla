----------------------------- MODULE MCVaultSync -----------------------------
(* VaultSync for TLC: one file of each kind, in the order of their names.     *)
EXTENDS VaultSync, TLC

ThreeFiles == <<"metrics.csv", "run.json", "status.json">>

SyncerSymmetry == Permutations(Syncers)
=============================================================================
