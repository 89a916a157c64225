------------------------------ MODULE MCAdLog ------------------------------
(***************************************************************************)
(* Instances of AdLog for TLC: two instances of the server with one writer *)
(* each, a set of faults, and the symmetry of the ads and of the instances, *)
(* which are model values.                                                 *)
(***************************************************************************)
EXTENDS AdLog, TLC

CONSTANTS w1, w2, i1, i2

OneEach == (w1 :> i1) @@ (w2 :> i2)
Swap == (w1 :> w2) @@ (w2 :> w1) @@ (i1 :> i2) @@ (i2 :> i1)

Symmetry == Permutations(Ads) \cup {Swap}
=============================================================================
