------------------------------- MODULE WbIntents -------------------------------
(******************************************************************************)
(* The work a seller has asked the WB orchestrator for, and the pure          *)
(* functions of celery_app/tasks.py and wb_orchestrator_scheduler.py on it.   *)
(*                                                                            *)
(* A row's `intents` JSON has two lanes of requests,                          *)
(*   high: finance_range, funnel_tail        low: finance_backfill_year       *)
(* and a `blocked` map that says until when Wildberries refuses an operation. *)
(* A request is here a function from keys to values, Absent when the key is   *)
(* not there; a pair of dates is one value.  A point in time is kept as the   *)
(* time that is left until it: 0 is now or earlier, Null is a NULL column.    *)
(******************************************************************************)
EXTENDS Integers

CONSTANT Ranges        \* the (date_from, date_to) pairs a seller may ask for

Absent == "absent"
Null == -1

Key == {"finance_range", "funnel_tail", "finance_backfill_year"}
Lane == [finance_range |-> "high", funnel_tail |-> "high",
         finance_backfill_year |-> "low"]
Asked == [finance_range |-> Ranges, funnel_tail |-> {"true"},
          finance_backfill_year |-> {"2026", "2025"}]

Op == {"finance", "funnel"}
OpOf == [finance_range |-> "finance", funnel_tail |-> "funnel",
         finance_backfill_year |-> "finance"]

Value == Ranges \cup {"true", "2026", "2025"}

ASSUME RangesAssumption == Ranges \cap {Absent, "true", "2026", "2025"} = {}

Intents == {f \in [Key -> Value \cup {Absent}] :
              \A k \in Key : f[k] \in Asked[k] \cup {Absent}}
Time == Nat \cup {Null}
Blocks == [Op -> Time]

NoIntents == [k \in Key |-> Absent]
NotBlocked == [op \in Op |-> Null]

(* What a kick may carry: the patches the routers and the archive manager     *)
(* send (a finance_range always with both of its dates).                      *)
Ask(k, v) == [NoIntents EXCEPT ![k] = v]
Patches ==
  {Ask("funnel_tail", "true")}
  \cup {Ask("finance_backfill_year", y) : y \in {"2026", "2025"}}
  \cup {Ask("finance_range", r) : r \in Ranges}
  \cup {[Ask("finance_range", r) EXCEPT !["funnel_tail"] = "true"] : r \in Ranges}
  \cup {[Ask("finance_range", r) EXCEPT !["funnel_tail"] = "true",
                                        !["finance_backfill_year"] = "2026"] : r \in Ranges}

(* A key of the patch overwrites, a key that is not in it is kept.            *)
Merge(intents, patch) ==
  [k \in Key |-> IF patch[k] = Absent THEN intents[k] ELSE patch[k]]

(* A mistake: the step's lane overwrites what kicks wrote meanwhile.          *)
OverwriteLane(current, snapshot, lane, remaining) ==
  [k \in Key |-> IF Lane[k] = lane THEN remaining[k] ELSE current[k]]

(* What is left of the latest row after a step worked on a snapshot of it:    *)
(* in the step's lane, a key that still equals the snapshot takes the step's  *)
(* outcome; a key that a kick has changed meanwhile is kept.                  *)
AfterConsumedStep(current, snapshot, lane, remaining) ==
  [k \in Key |-> IF Lane[k] = lane /\ current[k] = snapshot[k]
                   THEN remaining[k] ELSE current[k]]

PendingOps(intents) == {OpOf[k] : k \in {j \in Key : intents[j] # Absent}}

(* When the work could start: for each pending operation not before the end   *)
(* of its block and not before `delay`; a row without block metadata honours  *)
(* the cooldown of the whole row.                                             *)
Max2(a, b) == IF a >= b THEN a ELSE b
Min2(a, b) == IF a <= b THEN a ELSE b
Wait(op, blocked, cooldown) ==
  IF blocked[op] # Null THEN blocked[op]
  ELSE IF blocked = NotBlocked /\ cooldown # Null THEN cooldown ELSE 0
DueForState(intents, blocked, cooldown, delay) ==
  LET due(op) == Max2(delay, Wait(op, blocked, cooldown))
      ops == PendingOps(intents)
  IN IF ops = {} THEN Null
     ELSE IF ops = Op THEN Min2(due("finance"), due("funnel"))
     ELSE IF "finance" \in ops THEN due("finance") ELSE due("funnel")

(* The key the next step serves, in the order _run_orchestrator_step tries    *)
(* them; a key whose operation is blocked is skipped.                         *)
Serviceable(k, intents, blocked) == intents[k] # Absent /\ blocked[OpOf[k]] <= 0
StepFor(intents, blocked) ==
  IF Serviceable("finance_range", intents, blocked) THEN "finance_range"
  ELSE IF Serviceable("funnel_tail", intents, blocked) THEN "funnel_tail"
  ELSE IF Serviceable("finance_backfill_year", intents, blocked)
         THEN "finance_backfill_year"
  ELSE IF \E op \in PendingOps(intents) : blocked[op] > 0 THEN "blocked_wait"
  ELSE "nothing"

(* The row a step hands to AfterConsumedStep when it has done all its work:   *)
(* the key goes, and a finished 2026 makes room for 2025.                     *)
Served(intents, k) ==
  [intents EXCEPT ![k] = IF k = "finance_backfill_year" /\ intents[k] = "2026"
                           THEN "2025" ELSE Absent]
================================================================================
