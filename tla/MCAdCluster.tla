---------------------------- MODULE MCAdCluster ----------------------------
(***************************************************************************)
(* Instances of AdCluster for TLC: two instances of the server, with one   *)
(* writer each or with one that only reads the stream.                     *)
(***************************************************************************)
EXTENDS AdCluster, TLC

CONSTANTS w1, w2, i1, i2

OneEach == (w1 :> i1) @@ (w2 :> i2)
OneReader == w1 :> i1
Swap == (w1 :> w2) @@ (w2 :> w1) @@ (i1 :> i2) @@ (i2 :> i1)

Symmetry == Permutations(Ads) \cup {Swap}
AdSymmetry == Permutations(Ads)

CrashOnly == {"crash"}
CrashOrLoss == {"crash", "xadd"}
Tolerated == {"lock", "db", "queue", "stop"}
=============================================================================
