---------------------------- MODULE MCKeepaSync ----------------------------
(* KeepaSync for TLC: which ASIN each listing sells; emitters are alike.   *)
EXTENDS KeepaSync, TLC

CONSTANTS l1, l2
OneAsin  == (l1 :> 1)
TwoAsins == (l1 :> 1 @@ l2 :> 2)
Shared   == (l1 :> 1 @@ l2 :> 1)

Symmetry == Permutations(Emitters)
=============================================================================
