------------------------------ MODULE MCRunSeal ------------------------------
(* RunSeal for TLC.                                                          *)
EXTENDS RunSeal, TLC

CONSTANTS s1, s2

TwoStages == {s1, s2}
StageSymmetry == Permutations(TwoStages)
=============================================================================
