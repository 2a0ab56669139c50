---------------------------- MODULE MCCoinLoads ----------------------------
(* CoinLoads for TLC: two wallets, one coin of a kind and two loads.         *)
EXTENDS CoinLoads, TLC

CONSTANTS w1, w2, slow, deferred, private, l1, l2

Symmetric == Permutations({w1, w2}) \cup Permutations({l1, l2})
=============================================================================
