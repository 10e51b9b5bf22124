------------------------ MODULE MCWbOrchestratorHistory ------------------------
(* An instance of WbOrchestratorHistory small enough for liveness: no         *)
(* symmetry, one worker, one lane with two ranges.                            *)
EXTENDS WbOrchestratorHistory

CONSTANTS r1, r2, w1, t1, t2

FinanceOnly == {Ask("finance_range", r1), Ask("finance_range", r2)}
================================================================================
