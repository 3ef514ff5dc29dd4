-------------------------- MODULE MCLatestFinished --------------------------
(* LatestFinished for TLC.                                                  *)
EXTENDS LatestFinished, TLC

CONSTANTS r1, r2, r3

\* Two runs that end at the same instant and one that ends later.
Three == {r1, r2, r3}
ThreeInstants == (r1 :> 1) @@ (r2 :> 1) @@ (r3 :> 2)
=============================================================================
