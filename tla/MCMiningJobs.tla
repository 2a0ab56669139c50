----------------------------- MODULE MCMiningJobs -----------------------------
(* Small instances of MiningJobs for TLC. *)
EXTENDS MiningJobs, TLC

CONSTANTS job, s1, s2, m1, m2

Symmetric == Permutations(States) \cup Permutations(Miners)
=============================================================================
