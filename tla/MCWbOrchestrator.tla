---------------------------- MODULE MCWbOrchestrator ----------------------------
(* Instances of WbOrchestrator small enough for TLC.                          *)
EXTENDS WbOrchestratorRefinement, TLC

CONSTANTS r1, r2, w1, w2, t1, t2, t3

OneRange == {r1}
TwoRanges == {r1, r2}
OneWorker == {w1}
TwoWorkers == {w1, w2}
TwoTokens == {t1, t2}
ThreeTokens == {t1, t2, t3}
Recent == {Ask("finance_range", r1), Ask("funnel_tail", "true")}
FinanceOnly == {Ask("finance_range", r1)}
TwoRequests == Recent \cup {Ask("finance_range", r2)}

Symmetry == Permutations({w1, w2}) \cup Permutations({t1, t2, t3}) \cup Permutations({r1, r2})
================================================================================
