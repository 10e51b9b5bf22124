------------------------------- MODULE SellerWork -------------------------------
(******************************************************************************)
(* What the WB orchestrator promises about the work of one seller, without    *)
(* tokens, leases, queues, locks or workers: requests are merged, one of them *)
(* at a time is served against Wildberries, and serving it takes away or      *)
(* advances that request only, and only as it was when the step read it.      *)
(******************************************************************************)
EXTENDS WbIntents

CONSTANT Kicks

VARIABLES
  work,      \* what the seller asked for and has not got yet
  serving    \* the request that is being served, as the step read it

Nobody == [key |-> "none", asked |-> Absent]

Init ==
  /\ work \in {NoIntents} \cup Kicks
  /\ serving = Nobody

Request(patch) ==
  /\ work' = Merge(work, patch)
  /\ UNCHANGED serving

WindowCloses ==
  /\ work["funnel_tail"] # Absent
  /\ work' = [work EXCEPT !["funnel_tail"] = Absent]
  /\ UNCHANGED serving

Start(k) ==
  /\ serving = Nobody
  /\ work[k] # Absent
  /\ serving' = [key |-> k, asked |-> work[k]]
  /\ UNCHANGED work

(* A step may leave the request for more steps, or serve it.                  *)
Finish ==
  /\ serving # Nobody
  /\ LET k == serving.key
     IN work' \in {work} \cup
                  (IF work[k] = serving.asked THEN {Served(work, k)} ELSE {})
  /\ serving' = Nobody

Next == \/ \E patch \in Kicks : Request(patch)
        \/ WindowCloses
        \/ \E k \in Key : Start(k)
        \/ Finish

Spec == Init /\ [][Next]_<<work, serving>>
================================================================================
