--------------------------- MODULE MCProgressStage ---------------------------
(* ProgressStage for TLC: totals around the points where the step changes.   *)
EXTENDS ProgressStage

SmallTotals == {0, 1, 2, 19, 20, 21, 39, 40, 41, 43}
=============================================================================
