--------------------------- MODULE MCVaultFetcher ---------------------------
(* Small instances of VaultFetcher for TLC.                                *)
EXTENDS VaultFetcher, TLC

\* Nothing tells the files apart but the order they are written in, and that
\* order is any.
FileSymmetry == Permutations(Files)
=============================================================================
