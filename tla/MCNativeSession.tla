-------------------------- MODULE MCNativeSession --------------------------
(* NativeSession for TLC.  Requests of one kind are alike.                 *)
EXTENDS NativeSession, TLC

CONSTANTS e1, e2, s1, n1, n2, x1, o1, o2, o3
Symmetric == Permutations({e1, e2}) \cup Permutations({o1, o2, o3})
=============================================================================
