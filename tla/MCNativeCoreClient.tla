------------------------- MODULE MCNativeCoreClient -------------------------
(***************************************************************************)
(* Small instances of NativeCoreClient for TLC.  main.cjs routes a request *)
(* by its method: a client serves the light wallet of one coin, or the     *)
(* node reads and the general calls.  NativeCalls gives one client node    *)
(* reads and sends together, which is more than any of them serves.        *)
(***************************************************************************)
EXTENDS NativeCoreClient, TLC

CONSTANTS r1, r2, r3, r4

Symmetric == Permutations(EpicSends)
=============================================================================
