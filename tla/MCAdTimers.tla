----------------------------- MODULE MCAdTimers -----------------------------
(***************************************************************************)
(* Instances of AdTimers for TLC: three ads, two of which start together   *)
(* and one of which is over when another one starts.                       *)
(***************************************************************************)
EXTENDS AdTimers, TLC

CONSTANTS a1, a2, a3

Starts == (a1 :> 0) @@ (a2 :> 2) @@ (a3 :> 2)
Ends == (a1 :> 1) @@ (a2 :> 3) @@ (a3 :> 4)

\* All three start later than the clock does.
LaterStarts == (a1 :> 1) @@ (a2 :> 1) @@ (a3 :> 2)
LaterEnds == (a1 :> 4) @@ (a2 :> 4) @@ (a3 :> 4)
=============================================================================
