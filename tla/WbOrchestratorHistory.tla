------------------------- MODULE WbOrchestratorHistory -------------------------
(******************************************************************************)
(* WbOrchestrator with a memory: when the last step ended, and under which    *)
(* token.  The memory never guards a step of the program; it lets        *)
(* properties compare a state with what came before it.                       *)
(******************************************************************************)
EXTENDS WbOrchestrator

VARIABLES
  pace,       \* what is left of the pause after a step that left ready work
  own         \* the last step ended under the token it began with

history == <<pace, own>>
hvars == <<vars, history>>

HInit ==
  /\ Init
  /\ pace = 0 /\ own = TRUE

HTime ==
  /\ TimePasses
  /\ pace' = Down(pace)
  /\ UNCHANGED own
HEnds(w) ==
  /\ TickEnds(w)
  /\ pace' = IF status' = "scheduled" THEN StepDelay ELSE 0
  /\ own' = (token' = NoToken)
HOther ==
  /\ \/ \E patch \in Kicks : Kick(patch)
     \/ ClearFunnelTailIntent \/ Dispatch \/ Broker
     \/ \E w \in Workers :
          \/ Receive(w) \/ Validate(w) \/ TickUnlocks(w) \/ WorkerCrashes(w)
          \/ StepHasNoKey(w) \/ StepChooses(w) \/ StepHasNothing(w)
          \/ StepLabelsRateLimited(w)
          \/ \E d \in RetryDelays : StepRateLimited(w, d)
          \/ \E b \in BOOLEAN : StepSaves(w, b) \/ StepFails(w, b)
  /\ UNCHANGED history

HNext == HTime \/ HOther \/ \E w \in Workers : HEnds(w)
HSpec == HInit /\ [][HNext]_hvars
HFairSpec == HSpec /\ Fairness
--------------------------------------------------------------------------------
Begins(w) == pc[w] = "locked" /\ pc'[w] = "began"

(* After a step that left ready work the seller rests for ORCH_STEP_DELAY_SEC. *)
(* As long as a step ends before the dispatcher replaced its token, nothing   *)
(* shortens that pause: not a kick, a closing window, a late or repeated      *)
(* message, a failed publish or a dispatcher that looks at the row.           *)
PacingKeptByOwnToken ==
  [][\A w \in Workers : Begins(w) /\ own => pace = 0]_hvars
================================================================================
