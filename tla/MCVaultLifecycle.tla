-------------------------- MODULE MCVaultLifecycle --------------------------
(* VaultLifecycle for TLC; its configurations give the bounds their values. *)
EXTENDS VaultLifecycle
=============================================================================
