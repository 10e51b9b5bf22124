------------------------------- MODULE MCOzonSync -------------------------------
(* Instances of OzonSync small enough for TLC.                                *)
EXTENDS OzonSync, TLC

CONSTANTS a, b, c, w1, w2

ThreeRuns == {a, b, c}
TwoRuns == {a, b}
OneWorker == {w1}
TwoWorkers == {w1, w2}
FirstDay == {Request("manual", 1, 1)}
NoManual == {}
Symmetry == Permutations({a, b, c}) \cup Permutations({w1, w2})
================================================================================
