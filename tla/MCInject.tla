------------------------------ MODULE MCInject ------------------------------
(***************************************************************************)
(* Instances of Inject for TLC: two instances of the server with one       *)
(* writer each.                                                            *)
(***************************************************************************)
EXTENDS Inject, TLC

CONSTANTS w1, w2, i1, i2

OneEach == (w1 :> i1) @@ (w2 :> i2)

\* The lock's TTL outlasts the critical sections.
InTime == FaultKinds \ {"expiry"}
=============================================================================
