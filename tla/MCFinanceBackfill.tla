---------------------------- MODULE MCFinanceBackfill ----------------------------
(* A 2026 of two months of two days, a 2025 of one; one day has no sales.      *)
EXTENDS FinanceBackfill

MCThrough == [y \in Years |-> IF y = "2026" THEN 4 ELSE 2]
MCHasSales == [y \in Years |-> IF y = "2026" THEN {1, 2, 4} ELSE {1, 2}]
MCHasAds == [y \in Years |-> IF y = "2026" THEN {2} ELSE {}]
================================================================================
