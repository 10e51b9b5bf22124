------------------------------ MODULE MCFunnelYear ------------------------------
(* One worker and a year of two days, which are one batch.                    *)
EXTENDS FunnelYear
================================================================================
