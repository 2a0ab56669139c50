-------------------------- MODULE MCWalletSession --------------------------
(* Small instances of WalletSession for TLC. *)
EXTENDS WalletSession, TLC

CONSTANTS p1, p2, std, priv, s1, s2, s3

Symmetric == Permutations(Phrases) \cup Permutations(Slots)
=============================================================================
