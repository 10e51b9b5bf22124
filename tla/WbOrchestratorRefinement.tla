------------------------ MODULE WbOrchestratorRefinement ------------------------
(******************************************************************************)
(* The scheduler with its tokens, leases and workers implements SellerWork.   *)
(* What is being served is what the holder of the advisory lock calls WB for. *)
(******************************************************************************)
EXTENDS WbOrchestrator

Serves(w) == pc[w] = "calling" /\ step[w] \in Key
Serving == IF lock \in Workers /\ Serves(lock)
             THEN [key |-> step[lock], asked |-> snap[lock].intents[step[lock]]]
             ELSE [key |-> "none", asked |-> Absent]

Seller == INSTANCE SellerWork WITH work <- intents, serving <- Serving

(* Whatever is repeated, lost or late, one request at a time is served, and a *)
(* step takes away or advances only that request, only if no kick replaced it.*)
ImplementsSellerWork == Seller!Spec
================================================================================
