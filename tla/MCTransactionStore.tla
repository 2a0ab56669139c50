------------------------- MODULE MCTransactionStore -------------------------
(* Small instances of TransactionStore for TLC. *)
EXTENDS TransactionStore, TLC

CONSTANTS t1, t2, i1, o1, o2, load, zano

Symmetric == Permutations(Txs) \cup Permutations(Outpoints)
=============================================================================
