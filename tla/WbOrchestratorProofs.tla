-------------------------- MODULE WbOrchestratorProofs --------------------------
(******************************************************************************)
(* Safety of the WB scheduler for any number of workers, tokens, faults and   *)
(* ranges and for all delays, and that it implements SellerWork.  IInv is     *)
(* inductive: the row's invariants need the lock (only its holder ends a      *)
(* tick) and the lock needs nothing else; the refinement needs the invariant  *)
(* because only the lock tells whose step is being served; the pause between  *)
(* two steps has an invariant of its own, PaceInv.  The last part is about    *)
(* the archive, the lane of a step that has a cursor of its own.              *)
(******************************************************************************)
EXTENDS WbOrchestratorRefinement, WbOrchestratorHistory, FinanceBackfill, TLAPS

--------------------------------------------------------------------------------
(* What the pure functions of WbIntents return, for every set of ranges.      *)

(* A delay is never confused with NULL: max and min of two times from now on  *)
(* are times from now on.                                                     *)
LEMMA MaxMinType ==
  \A a, b \in Nat : Max2(a, b) \in Nat /\ Min2(a, b) \in Nat /\ Max2(a, b) >= a
BY DEF Max2, Min2

(* The pending operations of a row are operations.                            *)
LEMMA PendingOpsType == \A in : PendingOps(in) \subseteq Op
BY DEF PendingOps, OpOf, Key, Op

(* due_for_state gives NULL exactly for a row without work, and otherwise a   *)
(* time that is not before the delay it was asked to keep.                    *)
LEMMA DueType ==
  ASSUME NEW in, NEW b \in Blocks, NEW c \in Time, NEW d \in Nat
  PROVE  /\ DueForState(in, b, c, d) \in Time
         /\ DueForState(in, b, c, d) = Null <=> PendingOps(in) = {}
<1> DEFINE due(op) == Max2(d, Wait(op, b, c))
<1>1. \A op \in Op : due(op) \in Nat
  <2> SUFFICES ASSUME NEW op \in Op PROVE Wait(op, b, c) \in Nat
    BY MaxMinType
  <2>1. b[op] \in Time
    BY DEF Blocks
  <2> QED BY <2>1 DEF Wait, Time, Null
<1>2. PendingOps(in) \subseteq Op
  BY PendingOpsType
<1> HIDE DEF due
<1>3. DueForState(in, b, c, d) =
        IF PendingOps(in) = {} THEN Null
        ELSE IF PendingOps(in) = Op THEN Min2(due("finance"), due("funnel"))
        ELSE IF "finance" \in PendingOps(in) THEN due("finance") ELSE due("funnel")
  BY DEF DueForState, due
<1>4. due("finance") \in Nat /\ due("funnel") \in Nat
  BY <1>1 DEF Op
<1>5. Min2(due("finance"), due("funnel")) \in Nat
  BY <1>4, MaxMinType
<1> QED BY <1>3, <1>4, <1>5 DEF Time, Null

(* A merge of two requests is a request.                                      *)
LEMMA MergeType ==
  ASSUME NEW in \in Intents, NEW patch \in Intents
  PROVE  Merge(in, patch) \in Intents
BY DEF Intents, Merge

(* A kick sends a request.                                                    *)
LEMMA PatchesType == Patches \subseteq Intents
<1>1. ASSUME NEW f \in Intents, NEW k \in Key, NEW v \in Asked[k]
      PROVE  [f EXCEPT ![k] = v] \in Intents
  <2>1. v \in Value
    BY DEF Asked, Value, Key
  <2> QED BY <2>1 DEF Intents
<1>2. NoIntents \in Intents
  BY DEF NoIntents, Intents
<1>3. \A k \in Key : \A v \in Asked[k] : Ask(k, v) \in Intents
  BY <1>1, <1>2 DEF Ask
<1>4. /\ "funnel_tail" \in Key /\ "true" \in Asked["funnel_tail"]
      /\ "finance_backfill_year" \in Key
      /\ \A y \in {"2026", "2025"} : y \in Asked["finance_backfill_year"]
      /\ "finance_range" \in Key /\ \A r \in Ranges : r \in Asked["finance_range"]
  BY DEF Key, Asked
<1>5. ASSUME NEW r \in Ranges
      PROVE  LET two == [Ask("finance_range", r) EXCEPT !["funnel_tail"] = "true"]
             IN two \in Intents /\ [two EXCEPT !["finance_backfill_year"] = "2026"] \in Intents
  <2> DEFINE two == [Ask("finance_range", r) EXCEPT !["funnel_tail"] = "true"]
  <2>1. Ask("finance_range", r) \in Intents
    BY <1>3, <1>4
  <2>2. two \in Intents
    BY <2>1, <1>1, <1>4
  <2> HIDE DEF two
  <2>3. [two EXCEPT !["finance_backfill_year"] = "2026"] \in Intents
    BY <2>2, <1>1, <1>4
  <2> QED BY <2>2, <2>3 DEF two
<1>6. ASSUME NEW r \in Ranges
      PROVE  [Ask("finance_range", r) EXCEPT !["funnel_tail"] = "true",
                                             !["finance_backfill_year"] = "2026"]
             = [[Ask("finance_range", r) EXCEPT !["funnel_tail"] = "true"]
                  EXCEPT !["finance_backfill_year"] = "2026"]
  BY DEF Ask, NoIntents, Key
<1> HIDE DEF Ask, Intents, Asked, Key
<1> QED BY <1>3, <1>4, <1>5, <1>6 DEF Patches

(* A step that saves its progress asks for nothing that was not asked for.    *)
LEMMA AfterConsumedType ==
  ASSUME NEW current \in Intents, NEW snapshot \in Intents,
         NEW remaining \in Intents, NEW lane,
         \A k \in Key : remaining[k] # Absent => snapshot[k] # Absent
  PROVE  LET after == AfterConsumedStep(current, snapshot, lane, remaining)
         IN /\ after \in Intents
            /\ PendingOps(after) \subseteq PendingOps(current)
<1> DEFINE after == AfterConsumedStep(current, snapshot, lane, remaining)
<1>1. after \in Intents
  BY DEF AfterConsumedStep, Intents
<1>2. \A k \in Key : after[k] # Absent => current[k] # Absent
  BY DEF AfterConsumedStep
<1>3. PendingOps(after) \subseteq PendingOps(current)
  BY <1>2 DEF PendingOps
<1> QED BY <1>1, <1>3

(* Serving a key takes it away or replaces it, and adds no other.             *)
LEMMA ServedType ==
  ASSUME NEW in \in Intents, NEW k \in Key
  PROVE  /\ Served(in, k) \in Intents
         /\ \A j \in Key : Served(in, k)[j] # Absent => in[j] # Absent
         /\ \A j \in Key : j # k => Served(in, k)[j] = in[j]
<1>1. "2025" \in Asked["finance_backfill_year"] /\ "2025" \in Value /\ "2026" # Absent
  BY DEF Asked, Value, Absent
<1> QED BY <1>1 DEF Served, Intents, Absent

--------------------------------------------------------------------------------
(* The rows, messages and ticks: one step for each action of Next.            *)

(* A step is one of the requests or one of the two ways to have nothing to do. *)
LEMMA StepForType == \A in, b : StepFor(in, b) \in Step
BY DEF StepFor, Step, Key

(* A worker that leaves its tick, by itself or by dying, is as it began.      *)
LEMMA ResetType ==
  ASSUME TickType, NEW w \in Workers, Reset(w)
  PROVE  /\ lock' \in Workers \cup {NoWorker}
         /\ mine' \in [Workers -> Tokens \cup {Legacy, NoToken}]
         /\ snap' \in [Workers -> [intents : Intents, blocked : Blocks]]
         /\ step' \in [Workers -> Step]
         /\ age' \in [Workers -> 0..MaxAge]
         /\ err' \in [Workers -> BOOLEAN]
<1>1. NoSnap \in [intents : Intents, blocked : Blocks]
  BY DEF NoSnap, NoIntents, NotBlocked, Intents, Blocks, Time
<1>2. "nothing" \in Step /\ 0 \in 0..MaxAge
  BY TimeAssumption DEF Step
<1> QED BY <1>1, <1>2 DEF Reset, TickType

(* schedule_state gives a due time exactly to a row that has work, and a      *)
(* status that is never running or error.                                     *)
LEMMA ScheduleType ==
  ASSUME RowType, NEW in, NEW delay \in Nat, ScheduleState(in, delay)
  PROVE  /\ next' \in Time /\ cooldown' \in Time
         /\ status' \in {"idle", "scheduled", "cooldown"}
         /\ next' = Null <=> PendingOps(in) = {}
<1> DEFINE due == DueForState(in, blocked, cooldown, delay)
<1>1. due \in Time /\ (due = Null <=> PendingOps(in) = {})
  BY DueType DEF RowType
<1>2. /\ next' = due
      /\ status' = IF due = Null THEN "idle"
                   ELSE IF due > delay THEN "cooldown" ELSE "scheduled"
      /\ cooldown' = IF due > delay THEN due ELSE Null
  BY DEF ScheduleState
<1> HIDE DEF due
<1> QED BY <1>1, <1>2 DEF Time, Null

(* A cleared token has no lease.                                              *)
LEMMA ClearType == ClearToken => token' = NoToken /\ lease' = Null
BY DEF ClearToken

(* NULL and every delay are points in time.                                   *)
LEMMA NullIsTime == Null \in Time /\ 0 \in Time /\ (\A n \in Nat : n \in Time)
BY DEF Null, Time

(* The clock neither sets nor clears a time.                                  *)
LEMMA DownType == \A t \in Time : Down(t) \in Time /\ (Down(t) = Null <=> t = Null)
BY DEF Down, Time, Null

(* What a tick that came early writes back as the next due time.              *)
LEMMA NotDueType ==
  ASSUME RowType
  PROVE  LET due == DueForState(intents, blocked, cooldown, 0)
         IN /\ due \in Time /\ (due = Null <=> PendingOps(intents) = {})
            /\ due # Null /\ next # Null => Max2(due, next) \in Nat
<1> DEFINE due == DueForState(intents, blocked, cooldown, 0)
<1>1. due \in Time /\ (due = Null <=> PendingOps(intents) = {})
  BY DueType DEF RowType
<1> HIDE DEF due
<1>2. due # Null /\ next # Null => Max2(due, next) \in Nat
  BY <1>1, MaxMinType DEF RowType, Time
<1> QED BY <1>1, <1>2 DEF due

(* Saving progress leaves a row with well-typed work and no new operation.    *)
LEMMA SavedType ==
  ASSUME TypeOK, NEW w \in Workers, NEW done \in BOOLEAN, StepSaves(w, done)
  PROVE  intents' \in Intents /\ PendingOps(intents') \subseteq PendingOps(intents)
<1> DEFINE k == step[w]
           old == snap[w].intents
           remaining == IF done THEN Served(old, k) ELSE old
<1>1. k \in Key /\ old \in Intents /\ intents \in Intents
      /\ intents' = AfterConsumedStep(intents, old, Lane[k], remaining)
  BY DEF StepSaves, TypeOK, TickType, RowType
<1> HIDE DEF k, old
<1>2. remaining \in Intents /\ \A j \in Key : remaining[j] # Absent => old[j] # Absent
  BY <1>1, ServedType
<1> HIDE DEF remaining
<1> QED BY <1>1, <1>2, AfterConsumedType

--------------------------------------------------------------------------------
(* Every step keeps the types of the workers.                                 *)
LEMMA TickTypeStep ==
  ASSUME TypeOK, [Next]_vars
  PROVE  TickType'
<1> USE DEF TypeOK, TickType
<1>1. ASSUME NEW patch \in Kicks, Kick(patch) PROVE TickType'
  BY <1>1 DEF Kick, ticks
<1>2. ASSUME ClearFunnelTailIntent PROVE TickType'
  BY <1>2 DEF ClearFunnelTailIntent, ticks
<1>3. ASSUME NEW t \in Tokens, DispatchClaims(t) PROVE TickType'
  BY <1>3 DEF DispatchClaims, ticks
<1>4. ASSUME DispatchDefers PROVE TickType'
  BY <1>4 DEF DispatchDefers, ticks
<1>5. ASSUME NEW t \in claimed, Publish(t) PROVE TickType'
  BY <1>5 DEF Publish, ticks
<1>6. ASSUME NEW t \in claimed, NEW reached \in BOOLEAN, PublishFails(t, reached)
      PROVE  TickType'
  BY <1>6 DEF PublishFails, ticks
<1>7. ASSUME NEW t \in claimed, DispatcherCrashes(t) PROVE TickType'
  BY <1>7 DEF DispatcherCrashes, ticks
<1>8. ASSUME NEW m \in queue, LoseMessage(m) PROVE TickType'
  BY <1>8 DEF LoseMessage, ticks
<1>9. ASSUME TimePasses PROVE TickType'
  BY <1>9, TimeAssumption DEF TimePasses, Min2
<1>10. ASSUME NEW w \in Workers, NEW m \in queue, NEW again \in BOOLEAN, TickAcquires(w, m, again)
      PROVE  TickType'
  BY <1>10 DEF TickAcquires, Goto, Take, BrokerType
<1>11. ASSUME NEW w \in Workers, NEW m \in queue, NEW again \in BOOLEAN, TickAlreadyRunning(w, m, again)
      PROVE  TickType'
  BY <1>11 DEF TickAlreadyRunning, ticks
<1>12. ASSUME NEW w \in Workers, TickLegacy(w) PROVE TickType'
  BY <1>12 DEF TickLegacy, Goto
<1>13. ASSUME NEW w \in Workers, TickStale(w) PROVE TickType'
  BY <1>13 DEF TickStale, Goto
<1>14. ASSUME NEW w \in Workers, TickNotDue(w) PROVE TickType'
  BY <1>14 DEF TickNotDue, Goto
<1>15. ASSUME NEW w \in Workers, TickBegins(w) PROVE TickType'
  BY <1>15, TimeAssumption DEF TickBegins, Goto
<1>16. ASSUME NEW w \in Workers, StepHasNoKey(w) PROVE TickType'
  BY <1>16, TimeAssumption DEF StepHasNoKey, Goto
<1>17. ASSUME NEW w \in Workers, StepChooses(w) PROVE TickType'
  BY <1>17, StepForType DEF StepChooses, Goto, RowType
<1>18. ASSUME NEW w \in Workers, StepHasNothing(w) PROVE TickType'
  BY <1>18 DEF StepHasNothing, Goto
<1>19. ASSUME NEW w \in Workers, NEW done \in BOOLEAN, StepSaves(w, done)
      PROVE  TickType'
  BY <1>19 DEF StepSaves, Goto
<1>20. ASSUME NEW w \in Workers, NEW d \in RetryDelays, StepRateLimited(w, d)
      PROVE  TickType'
  BY <1>20 DEF StepRateLimited, Goto
<1>21. ASSUME NEW w \in Workers, StepLabelsRateLimited(w) PROVE TickType'
  BY <1>21 DEF StepLabelsRateLimited, Goto
<1>22. ASSUME NEW w \in Workers, NEW permanent \in BOOLEAN, StepFails(w, permanent)
      PROVE  TickType'
  BY <1>22, TimeAssumption DEF StepFails, Goto
<1>23. ASSUME NEW w \in Workers, TickEnds(w) PROVE TickType'
  BY <1>23 DEF TickEnds, Goto
<1>24. ASSUME NEW w \in Workers, TickUnlocks(w) PROVE TickType'
  BY <1>24, ResetType DEF TickUnlocks, Goto
<1>25. ASSUME NEW w \in Workers, WorkerCrashes(w) PROVE TickType'
  BY <1>25, ResetType DEF WorkerCrashes
<1>26. ASSUME UNCHANGED vars PROVE TickType'
  BY <1>26 DEF vars, row, broker, ticks
<1> QED
  BY <1>1, <1>2, <1>3, <1>4, <1>5, <1>6, <1>7, <1>8, <1>9, <1>10, <1>11,
     <1>12, <1>13, <1>14, <1>15, <1>16, <1>17, <1>18, <1>19, <1>20, <1>21,
     <1>22, <1>23, <1>24, <1>25, <1>26
     DEF Next, Request, Dispatch, Broker, Receive, Validate, RunStep, Tick

(* Every step keeps the types of the row.                                     *)
LEMMA RowTypeStep ==
  ASSUME TypeOK, RefusedWasCalled, [Next]_vars
  PROVE  RowType'
<1> USE DEF TypeOK, RowType
<1>1. ASSUME NEW patch \in Kicks, Kick(patch) PROVE RowType'
  BY <1>1, KicksAssumption, PatchesType, MergeType, ScheduleType DEF Kick, Status
<1>2. ASSUME ClearFunnelTailIntent PROVE RowType'
  <2>1. [intents EXCEPT !["funnel_tail"] = Absent] \in Intents
    BY DEF Intents
  <2> QED BY <1>2, <2>1 DEF ClearFunnelTailIntent, Status
<1>3. ASSUME NEW t \in Tokens, DispatchClaims(t) PROVE RowType'
  BY <1>3, TimeAssumption, NullIsTime DEF DispatchClaims
<1>4. ASSUME DispatchDefers PROVE RowType'
  BY <1>4, ScheduleType, ClearType, NullIsTime DEF DispatchDefers, Status
<1>5. ASSUME NEW t \in claimed, Publish(t) PROVE RowType'
  BY <1>5 DEF Publish, row
<1>6. ASSUME NEW t \in claimed, NEW reached \in BOOLEAN, PublishFails(t, reached)
      PROVE  RowType'
  BY <1>6, ScheduleType, ClearType, NullIsTime DEF PublishFails, Status, ReleaseFailedPublish
<1>7. ASSUME NEW t \in claimed, DispatcherCrashes(t) PROVE RowType'
  BY <1>7 DEF DispatcherCrashes, row
<1>8. ASSUME NEW m \in queue, LoseMessage(m) PROVE RowType'
  BY <1>8 DEF LoseMessage, row
<1>9. ASSUME TimePasses PROVE RowType'
  <2>1. blocked' \in Blocks
    BY <1>9, DownType DEF TimePasses, Blocks
  <2> QED BY <1>9, <2>1, DownType DEF TimePasses
<1>10. ASSUME NEW w \in Workers, NEW m \in queue, NEW again \in BOOLEAN, TickAcquires(w, m, again)
      PROVE  RowType'
  BY <1>10 DEF TickAcquires, row
<1>11. ASSUME NEW w \in Workers, NEW m \in queue, NEW again \in BOOLEAN, TickAlreadyRunning(w, m, again)
      PROVE  RowType'
  BY <1>11 DEF TickAlreadyRunning, row
<1>12. ASSUME NEW w \in Workers, TickLegacy(w) PROVE RowType'
  BY <1>12, ScheduleType, ClearType, NullIsTime DEF TickLegacy, Status
<1>13. ASSUME NEW w \in Workers, TickStale(w) PROVE RowType'
  BY <1>13 DEF TickStale, row
<1>14. ASSUME NEW w \in Workers, TickNotDue(w) PROVE RowType'
  BY <1>14, NotDueType, ClearType, NullIsTime DEF TickNotDue, RescheduleEarly, Status
<1>15. ASSUME NEW w \in Workers, TickBegins(w) PROVE RowType'
  BY <1>15, NullIsTime DEF TickBegins, Status
<1>16. ASSUME NEW w \in Workers, StepHasNoKey(w) PROVE RowType'
  BY <1>16 DEF StepHasNoKey, row
<1>17. ASSUME NEW w \in Workers, StepChooses(w) PROVE RowType'
  BY <1>17 DEF StepChooses, row
<1>18. ASSUME NEW w \in Workers, StepHasNothing(w) PROVE RowType'
  <2>1. \A op \in Op : blocked[op] \in Time
    BY DEF Blocks
  <2> QED BY <1>18, <2>1, PendingOpsType, NullIsTime DEF StepHasNothing, Status
<1>19. ASSUME NEW w \in Workers, NEW done \in BOOLEAN, StepSaves(w, done)
      PROVE  RowType'
  BY <1>19, SavedType, NullIsTime DEF StepSaves, Status
<1>20. ASSUME NEW w \in Workers, NEW d \in RetryDelays, StepRateLimited(w, d)
      PROVE  RowType'
  <2>1. d \in Nat /\ age[w] \in Nat
    BY TimeAssumption DEF TickType
  <2>2. Max2(0, d - age[w]) \in Time
    BY <2>1 DEF Max2, Time
  <2>3. blocked' \in Blocks
    BY <1>20, <2>2 DEF StepRateLimited, Blocks
  <2> QED BY <1>20, <2>3 DEF StepRateLimited
<1>21. ASSUME NEW w \in Workers, StepLabelsRateLimited(w) PROVE RowType'
  <2>1. blocked[OpOf[step[w]]] \in Time
    BY <1>21 DEF RefusedWasCalled, StepLabelsRateLimited, Goto, Blocks, OpOf, Key, Op
  <2> QED BY <1>21, <2>1, NullIsTime DEF StepLabelsRateLimited, Status
<1>22. ASSUME NEW w \in Workers, NEW permanent \in BOOLEAN, StepFails(w, permanent)
      PROVE  RowType'
  BY <1>22 DEF StepFails, row
<1>23. ASSUME NEW w \in Workers, TickEnds(w) PROVE RowType'
  BY <1>23, ScheduleType, ClearType, NullIsTime, TimeAssumption DEF TickEnds, Status
<1>24. ASSUME NEW w \in Workers, TickUnlocks(w) PROVE RowType'
  BY <1>24 DEF TickUnlocks, row
<1>25. ASSUME NEW w \in Workers, WorkerCrashes(w) PROVE RowType'
  BY <1>25 DEF WorkerCrashes, row
<1>26. ASSUME UNCHANGED vars PROVE RowType'
  BY <1>26 DEF vars, row, broker, ticks
<1> QED
  BY <1>1, <1>2, <1>3, <1>4, <1>5, <1>6, <1>7, <1>8, <1>9, <1>10, <1>11,
     <1>12, <1>13, <1>14, <1>15, <1>16, <1>17, <1>18, <1>19, <1>20, <1>21,
     <1>22, <1>23, <1>24, <1>25, <1>26
     DEF Next, Request, Dispatch, Broker, Receive, Validate, RunStep, Tick

(* Every step keeps the types of the broker.                                  *)
LEMMA BrokerTypeStep ==
  ASSUME TypeOK, [Next]_vars
  PROVE  BrokerType'
<1> USE DEF TypeOK, BrokerType
<1>1. ASSUME NEW patch \in Kicks, Kick(patch) PROVE BrokerType'
  BY <1>1 DEF Kick, broker
<1>2. ASSUME ClearFunnelTailIntent PROVE BrokerType'
  BY <1>2 DEF ClearFunnelTailIntent, broker
<1>3. ASSUME NEW t \in Tokens, DispatchClaims(t) PROVE BrokerType'
  BY <1>3 DEF DispatchClaims, broker
<1>4. ASSUME DispatchDefers PROVE BrokerType'
  BY <1>4 DEF DispatchDefers, broker
<1>5. ASSUME NEW t \in claimed, Publish(t) PROVE BrokerType'
  BY <1>5 DEF Publish, broker
<1>6. ASSUME NEW t \in claimed, NEW reached \in BOOLEAN, PublishFails(t, reached)
      PROVE  BrokerType'
  BY <1>6, TimeAssumption DEF PublishFails, broker
<1>7. ASSUME NEW t \in claimed, DispatcherCrashes(t) PROVE BrokerType'
  BY <1>7, TimeAssumption DEF DispatcherCrashes, broker
<1>8. ASSUME NEW m \in queue, LoseMessage(m) PROVE BrokerType'
  BY <1>8, TimeAssumption DEF LoseMessage, broker
<1>9. ASSUME TimePasses PROVE BrokerType'
  BY <1>9 DEF TimePasses, broker
<1>10. ASSUME NEW w \in Workers, NEW m \in queue, NEW again \in BOOLEAN, TickAcquires(w, m, again)
      PROVE  BrokerType'
  BY <1>10, TimeAssumption DEF TickAcquires, Take
<1>11. ASSUME NEW w \in Workers, NEW m \in queue, NEW again \in BOOLEAN, TickAlreadyRunning(w, m, again)
      PROVE  BrokerType'
  BY <1>11, TimeAssumption DEF TickAlreadyRunning, Take
<1>12. ASSUME NEW w \in Workers, TickLegacy(w) PROVE BrokerType'
  BY <1>12 DEF TickLegacy, broker
<1>13. ASSUME NEW w \in Workers, TickStale(w) PROVE BrokerType'
  BY <1>13 DEF TickStale, broker
<1>14. ASSUME NEW w \in Workers, TickNotDue(w) PROVE BrokerType'
  BY <1>14 DEF TickNotDue, broker
<1>15. ASSUME NEW w \in Workers, TickBegins(w) PROVE BrokerType'
  BY <1>15 DEF TickBegins, broker
<1>16. ASSUME NEW w \in Workers, StepHasNoKey(w) PROVE BrokerType'
  BY <1>16 DEF StepHasNoKey, broker
<1>17. ASSUME NEW w \in Workers, StepChooses(w) PROVE BrokerType'
  BY <1>17 DEF StepChooses, broker
<1>18. ASSUME NEW w \in Workers, StepHasNothing(w) PROVE BrokerType'
  BY <1>18 DEF StepHasNothing, broker
<1>19. ASSUME NEW w \in Workers, NEW done \in BOOLEAN, StepSaves(w, done)
      PROVE  BrokerType'
  BY <1>19 DEF StepSaves, broker
<1>20. ASSUME NEW w \in Workers, NEW d \in RetryDelays, StepRateLimited(w, d)
      PROVE  BrokerType'
  BY <1>20 DEF StepRateLimited, broker
<1>21. ASSUME NEW w \in Workers, StepLabelsRateLimited(w)
      PROVE  BrokerType'
  BY <1>21 DEF StepLabelsRateLimited, broker
<1>22. ASSUME NEW w \in Workers, NEW permanent \in BOOLEAN, StepFails(w, permanent)
      PROVE  BrokerType'
  BY <1>22 DEF StepFails, broker
<1>23. ASSUME NEW w \in Workers, TickEnds(w) PROVE BrokerType'
  BY <1>23 DEF TickEnds, broker
<1>24. ASSUME NEW w \in Workers, TickUnlocks(w) PROVE BrokerType'
  BY <1>24 DEF TickUnlocks, broker
<1>25. ASSUME NEW w \in Workers, WorkerCrashes(w) PROVE BrokerType'
  BY <1>25, TimeAssumption DEF WorkerCrashes, broker
<1>26. ASSUME UNCHANGED vars PROVE BrokerType'
  BY <1>26 DEF vars, row, broker, ticks
<1> QED
  BY <1>1, <1>2, <1>3, <1>4, <1>5, <1>6, <1>7, <1>8, <1>9, <1>10, <1>11,
     <1>12, <1>13, <1>14, <1>15, <1>16, <1>17, <1>18, <1>19, <1>20, <1>21,
     <1>22, <1>23, <1>24, <1>25, <1>26
     DEF Next, Request, Dispatch, Broker, Receive, Validate, RunStep, Tick

(* execution_lock: only the holder is in a tick, and no step frees or takes   *)
(* the lock of another worker.                                                *)
LEMMA LockStep ==
  ASSUME TypeOK, HolderIsLocked, RefusedWasCalled, [Next]_vars
  PROVE  (HolderIsLocked /\ RefusedWasCalled)'
<1> USE DEF TypeOK, TickType, HolderIsLocked, RefusedWasCalled, Idle
<1>1. ASSUME NEW patch \in Kicks, Kick(patch)
      PROVE  (HolderIsLocked /\ RefusedWasCalled)'
  BY <1>1 DEF Kick, ticks
<1>2. ASSUME ClearFunnelTailIntent
      PROVE  (HolderIsLocked /\ RefusedWasCalled)'
  BY <1>2 DEF ClearFunnelTailIntent, ticks
<1>3. ASSUME NEW t \in Tokens, DispatchClaims(t)
      PROVE  (HolderIsLocked /\ RefusedWasCalled)'
  BY <1>3 DEF DispatchClaims, ticks
<1>4. ASSUME DispatchDefers PROVE (HolderIsLocked /\ RefusedWasCalled)'
  BY <1>4 DEF DispatchDefers, ticks
<1>5. ASSUME NEW t \in claimed, Publish(t)
      PROVE  (HolderIsLocked /\ RefusedWasCalled)'
  BY <1>5 DEF Publish, ticks
<1>6. ASSUME NEW t \in claimed, NEW reached \in BOOLEAN, PublishFails(t, reached)
      PROVE  (HolderIsLocked /\ RefusedWasCalled)'
  BY <1>6 DEF PublishFails, ticks
<1>7. ASSUME NEW t \in claimed, DispatcherCrashes(t)
      PROVE  (HolderIsLocked /\ RefusedWasCalled)'
  BY <1>7 DEF DispatcherCrashes, ticks
<1>8. ASSUME NEW m \in queue, LoseMessage(m)
      PROVE  (HolderIsLocked /\ RefusedWasCalled)'
  BY <1>8 DEF LoseMessage, ticks
<1>9. ASSUME TimePasses PROVE (HolderIsLocked /\ RefusedWasCalled)'
  BY <1>9 DEF TimePasses
<1>10. ASSUME NEW w \in Workers, NEW m \in queue, NEW again \in BOOLEAN, TickAcquires(w, m, again)
      PROVE  (HolderIsLocked /\ RefusedWasCalled)'
  <2>1. m # NoToken
    BY <1>10, NamesAssumption DEF TickAcquires, Take, BrokerType, Legacy, NoToken
  <2> QED BY <1>10, <2>1, NamesAssumption DEF TickAcquires, LockIsFree, Goto
<1>11. ASSUME NEW w \in Workers, NEW m \in queue, NEW again \in BOOLEAN, TickAlreadyRunning(w, m, again)
      PROVE  (HolderIsLocked /\ RefusedWasCalled)'
  BY <1>11 DEF TickAlreadyRunning, ticks
<1>12. ASSUME NEW w \in Workers, TickLegacy(w)
      PROVE  (HolderIsLocked /\ RefusedWasCalled)'
  BY <1>12 DEF TickLegacy, Goto
<1>13. ASSUME NEW w \in Workers, TickStale(w)
      PROVE  (HolderIsLocked /\ RefusedWasCalled)'
  BY <1>13 DEF TickStale, Goto
<1>14. ASSUME NEW w \in Workers, TickNotDue(w)
      PROVE  (HolderIsLocked /\ RefusedWasCalled)'
  BY <1>14 DEF TickNotDue, Goto
<1>15. ASSUME NEW w \in Workers, TickBegins(w)
      PROVE  (HolderIsLocked /\ RefusedWasCalled)'
  BY <1>15 DEF TickBegins, Goto
<1>16. ASSUME NEW w \in Workers, StepHasNoKey(w)
      PROVE  (HolderIsLocked /\ RefusedWasCalled)'
  BY <1>16 DEF StepHasNoKey, Goto
<1>17. ASSUME NEW w \in Workers, StepChooses(w)
      PROVE  (HolderIsLocked /\ RefusedWasCalled)'
  BY <1>17 DEF StepChooses, Goto
<1>18. ASSUME NEW w \in Workers, StepHasNothing(w)
      PROVE  (HolderIsLocked /\ RefusedWasCalled)'
  BY <1>18 DEF StepHasNothing, Goto
<1>19. ASSUME NEW w \in Workers, NEW done \in BOOLEAN, StepSaves(w, done)
      PROVE  (HolderIsLocked /\ RefusedWasCalled)'
  BY <1>19 DEF StepSaves, Goto
<1>20. ASSUME NEW w \in Workers, NEW d \in RetryDelays, StepRateLimited(w, d)
      PROVE  (HolderIsLocked /\ RefusedWasCalled)'
  BY <1>20 DEF StepRateLimited, Goto
<1>21. ASSUME NEW w \in Workers, StepLabelsRateLimited(w)
      PROVE  (HolderIsLocked /\ RefusedWasCalled)'
  BY <1>21 DEF StepLabelsRateLimited, Goto
<1>22. ASSUME NEW w \in Workers, NEW permanent \in BOOLEAN, StepFails(w, permanent)
      PROVE  (HolderIsLocked /\ RefusedWasCalled)'
  BY <1>22 DEF StepFails, Goto
<1>23. ASSUME NEW w \in Workers, TickEnds(w)
      PROVE  (HolderIsLocked /\ RefusedWasCalled)'
  BY <1>23 DEF TickEnds, Goto
<1>24. ASSUME NEW w \in Workers, TickUnlocks(w)
      PROVE  (HolderIsLocked /\ RefusedWasCalled)'
  BY <1>24 DEF TickUnlocks, Goto, Reset
<1>25. ASSUME NEW w \in Workers, WorkerCrashes(w)
      PROVE  (HolderIsLocked /\ RefusedWasCalled)'
  BY <1>25 DEF WorkerCrashes, Reset
<1>26. ASSUME UNCHANGED vars PROVE (HolderIsLocked /\ RefusedWasCalled)'
  BY <1>26 DEF vars, row, broker, ticks
<1> QED
  BY <1>1, <1>2, <1>3, <1>4, <1>5, <1>6, <1>7, <1>8, <1>9, <1>10, <1>11,
     <1>12, <1>13, <1>14, <1>15, <1>16, <1>17, <1>18, <1>19, <1>20, <1>21,
     <1>22, <1>23, <1>24, <1>25, <1>26
     DEF Next, Request, Dispatch, Broker, Receive, Validate, RunStep, Tick

(* The invariants of the row that say more than its types.                    *)
RowInv ==
  /\ WorkingIsNoError /\ TokenHasLease /\ ErrorIsQuiet /\ WorkHasWakeup
  /\ SpentTokenIsDead

(* The row's own invariants: wake-ups, quiet errors, spent tokens.            *)
LEMMA RowStep ==
  ASSUME IInv, [Next]_vars
  PROVE  RowInv'
<1> USE DEF IInv, TypeOK, RowType, BrokerType, TickType, RowInv, WorkingIsNoError,
           TokenHasLease, ErrorIsQuiet, WorkHasWakeup, SpentTokenIsDead,
           HolderIsLocked, Idle, Working
<1>1. ASSUME NEW patch \in Kicks, Kick(patch) PROVE RowInv'
  BY <1>1, ScheduleType DEF Kick, KickReplans, ticks
<1>2. ASSUME ClearFunnelTailIntent PROVE RowInv'
  <2>1. PendingOps(intents') \subseteq PendingOps(intents)
    BY <1>2 DEF ClearFunnelTailIntent, PendingOps, Key, Intents
  <2> QED BY <1>2, <2>1 DEF ClearFunnelTailIntent, ticks
<1>3. ASSUME NEW t \in Tokens, DispatchClaims(t) PROVE RowInv'
  BY <1>3, TimeAssumption, NamesAssumption DEF DispatchClaims, ticks, Fresh, Null, Claimable
<1>4. ASSUME DispatchDefers PROVE RowInv'
  BY <1>4, ScheduleType, ClearType DEF DispatchDefers, ticks
<1>5. ASSUME NEW t \in claimed, Publish(t) PROVE RowInv'
  BY <1>5 DEF Publish, row, ticks
<1>6. ASSUME NEW t \in claimed, NEW reached \in BOOLEAN, PublishFails(t, reached)
      PROVE  RowInv'
  BY <1>6, ScheduleType, ClearType, NamesAssumption DEF PublishFails, ReleaseFailedPublish, ticks
<1>7. ASSUME NEW t \in claimed, DispatcherCrashes(t) PROVE RowInv'
  BY <1>7 DEF DispatcherCrashes, row, ticks
<1>8. ASSUME NEW m \in queue, LoseMessage(m) PROVE RowInv'
  BY <1>8 DEF LoseMessage, row, ticks
<1>9. ASSUME TimePasses PROVE RowInv'
  BY <1>9, DownType DEF TimePasses, Null
<1>10. ASSUME NEW w \in Workers, NEW m \in queue, NEW again \in BOOLEAN, TickAcquires(w, m, again)
      PROVE  RowInv'
  BY <1>10 DEF TickAcquires, row, Goto, Take
<1>11. ASSUME NEW w \in Workers, NEW m \in queue, NEW again \in BOOLEAN, TickAlreadyRunning(w, m, again)
      PROVE  RowInv'
  BY <1>11 DEF TickAlreadyRunning, row, ticks
<1>12. ASSUME NEW w \in Workers, TickLegacy(w) PROVE RowInv'
  BY <1>12, ScheduleType, NamesAssumption DEF TickLegacy, Goto
<1>13. ASSUME NEW w \in Workers, TickStale(w) PROVE RowInv'
  BY <1>13 DEF TickStale, row, Goto
<1>14. ASSUME NEW w \in Workers, TickNotDue(w) PROVE RowInv'
  BY <1>14, NotDueType, ClearType, NamesAssumption DEF TickNotDue, RescheduleEarly, Goto, Null
<1>15. ASSUME NEW w \in Workers, TickBegins(w) PROVE RowInv'
  BY <1>15 DEF TickBegins, Goto
<1>16. ASSUME NEW w \in Workers, StepHasNoKey(w) PROVE RowInv'
  BY <1>16 DEF StepHasNoKey, row, Goto
<1>17. ASSUME NEW w \in Workers, StepChooses(w) PROVE RowInv'
  BY <1>17 DEF StepChooses, row, Goto
<1>18. ASSUME NEW w \in Workers, StepHasNothing(w) PROVE RowInv'
  BY <1>18 DEF StepHasNothing, row, Goto
<1>19. ASSUME NEW w \in Workers, NEW done \in BOOLEAN, StepSaves(w, done)
      PROVE  RowInv'
  BY <1>19, SavedType DEF StepSaves, Goto
<1>20. ASSUME NEW w \in Workers, NEW d \in RetryDelays, StepRateLimited(w, d)
      PROVE  RowInv'
  BY <1>20 DEF StepRateLimited, row, Goto
<1>21. ASSUME NEW w \in Workers, StepLabelsRateLimited(w) PROVE RowInv'
  BY <1>21 DEF StepLabelsRateLimited, row, Goto
<1>22. ASSUME NEW w \in Workers, NEW permanent \in BOOLEAN, StepFails(w, permanent)
      PROVE  RowInv'
  BY <1>22 DEF StepFails, row, Goto
<1>23. ASSUME NEW w \in Workers, TickEnds(w) PROVE RowInv'
  BY <1>23, ScheduleType, ClearType, TimeAssumption, NamesAssumption DEF TickEnds, Goto
<1>24. ASSUME NEW w \in Workers, TickUnlocks(w) PROVE RowInv'
  BY <1>24 DEF TickUnlocks, row, Goto, Reset
<1>25. ASSUME NEW w \in Workers, WorkerCrashes(w) PROVE RowInv'
  BY <1>25 DEF WorkerCrashes, row, Reset
<1>26. ASSUME UNCHANGED vars PROVE RowInv'
  BY <1>26 DEF vars, row, broker, ticks
<1> QED
  BY <1>1, <1>2, <1>3, <1>4, <1>5, <1>6, <1>7, <1>8, <1>9, <1>10, <1>11,
     <1>12, <1>13, <1>14, <1>15, <1>16, <1>17, <1>18, <1>19, <1>20, <1>21,
     <1>22, <1>23, <1>24, <1>25, <1>26
     DEF Next, Request, Dispatch, Broker, Receive, Validate, RunStep, Tick

--------------------------------------------------------------------------------
(* A fresh row and a migrated row satisfy the invariant.                      *)
LEMMA InitIInv == Init => IInv
<1> SUFFICES ASSUME Init PROVE IInv
  OBVIOUS
<1>1. intents \in Intents
  BY KicksAssumption, PatchesType DEF Init, NoIntents, Intents
<1>2. RowType
  BY <1>1, NullIsTime, TimeAssumption
     DEF Init, RowType, Status, NotBlocked, Blocks
<1>3. BrokerType
  BY TimeAssumption DEF Init, BrokerType
<1>4. TickType
  <2>1. NoSnap \in [intents : Intents, blocked : Blocks]
    BY NullIsTime DEF NoSnap, NoIntents, NotBlocked, Intents, Blocks
  <2> QED BY <2>1, TimeAssumption DEF Init, TickType, Step
<1>5. intents = NoIntents => PendingOps(intents) = {}
  BY DEF NoIntents, PendingOps
<1>6. HolderIsLocked /\ WorkingIsNoError /\ RefusedWasCalled /\ SpentTokenIsDead
  BY DEF Init, HolderIsLocked, WorkingIsNoError, RefusedWasCalled,
         SpentTokenIsDead, Idle, Working
<1>7. TokenHasLease /\ ErrorIsQuiet /\ WorkHasWakeup
  BY <1>5 DEF Init, TokenHasLease, ErrorIsQuiet, WorkHasWakeup, Null
<1> QED BY <1>2, <1>3, <1>4, <1>6, <1>7 DEF IInv, TypeOK

(* No step of Next, and no stuttering, breaks it.                             *)
LEMMA NextIInv == IInv /\ [Next]_vars => IInv'
BY TickTypeStep, RowTypeStep, BrokerTypeStep, LockStep, RowStep
   DEF IInv, TypeOK, RowInv

(* All that the row, its lease, its token and the lock promise together:      *)
(* IInv is what the run checks, and it holds of the scheduler for ever.       *)
THEOREM Invariant == Spec => []IInv
BY InitIInv, NextIInv, PTL DEF Spec

(* Every column, message and tick variable keeps its type.                    *)
THEOREM TypeCorrect == Spec => []TypeOK
BY Invariant, PTL DEF IInv

(* A seller's work runs one step at a time, whatever is repeated or late.     *)
THEOREM OneStep == Spec => []OneStepPerSeller
<1>1. IInv => OneStepPerSeller
  BY DEF IInv, HolderIsLocked, OneStepPerSeller, Working, Idle
<1> QED BY <1>1, Invariant, PTL

(* Work that was asked for has a due time or a lease, or waits in error.      *)
THEOREM NoWorkForgotten == Spec => []WorkHasWakeup
BY Invariant, PTL DEF IInv

(* A row in error has nothing that could wake it but a kick.                  *)
THEOREM QuietError == Spec => []ErrorIsQuiet
BY Invariant, PTL DEF IInv

(* A tick that is over has taken its token out of the row.                    *)
THEOREM TokensDieOnce == Spec => []SpentTokenIsDead
BY Invariant, PTL DEF IInv

(* A token is out exactly while its lease is counted.                         *)
THEOREM TokenAndLease == Spec => []TokenHasLease
BY Invariant, PTL DEF IInv

(* A step that saves its progress keeps every request that was changed while  *)
(* it ran (_intents_after_consumed_step).                                     *)
THEOREM NewWorkKept == Spec => SaveKeepsNewWork
<1> DEFINE Kept == \A w \in Workers, k \in Key :
                     /\ pc[w] = "calling" /\ pc'[w] = "finally"
                     /\ intents[k] # snap[w].intents[k]
                     => intents'[k] = intents[k]
<1>1. ASSUME TypeOK, [Next]_vars PROVE Kept
  <2> SUFFICES ASSUME NEW w \in Workers, NEW k \in Key,
                      pc[w] = "calling", pc'[w] = "finally",
                      intents[k] # snap[w].intents[k]
               PROVE  intents'[k] = intents[k]
    OBVIOUS
  <2>1. CASE \E v \in Workers, done \in BOOLEAN : StepSaves(v, done)
    <3>1. PICK v \in Workers, done \in BOOLEAN : StepSaves(v, done)
      BY <2>1
    <3>2. v = w
      BY <3>1, <1>1 DEF StepSaves, Goto, TypeOK, TickType
    <3> QED BY <3>1, <3>2 DEF StepSaves, AfterConsumedStep
  <2>2. CASE Request
    <3>1. pc' = pc
      BY <2>2 DEF Request, Kick, ClearFunnelTailIntent, ticks
    <3> QED BY <3>1
  <2>3. CASE Dispatch \/ Broker \/ TimePasses \/ UNCHANGED vars
    BY <2>3 DEF Dispatch, DispatchClaims, DispatchDefers, Broker, Publish,
         PublishFails, DispatcherCrashes, LoseMessage, TimePasses, vars, row
  <2>4. CASE \E v \in Workers : Receive(v) \/ Validate(v) \/ TickEnds(v)
                               \/ TickUnlocks(v) \/ WorkerCrashes(v)
    BY <2>4 DEF Receive, TickAcquires, TickAlreadyRunning, Validate, TickLegacy,
         TickStale, TickNotDue, TickBegins, TickEnds, TickUnlocks, WorkerCrashes, row
  <2>5. CASE \E v \in Workers :
               \/ StepHasNoKey(v) \/ StepChooses(v) \/ StepHasNothing(v)
               \/ \E d \in RetryDelays : StepRateLimited(v, d)
               \/ StepLabelsRateLimited(v)
               \/ \E permanent \in BOOLEAN : StepFails(v, permanent)
    BY <2>5 DEF StepHasNoKey, StepChooses, StepHasNothing, StepRateLimited,
         StepLabelsRateLimited, StepFails, row
  <2> QED BY <1>1, <2>1, <2>2, <2>3, <2>4, <2>5 DEF Next, Tick, RunStep
<1>2. TypeOK /\ [Next]_vars => [Kept]_vars
  BY <1>1
<1> QED BY <1>2, TypeCorrect, PTL DEF Spec, SaveKeepsNewWork

--------------------------------------------------------------------------------
(* The scheduler implements SellerWork.                                       *)

Nobody == [key |-> "none", asked |-> Absent]

(* The instance speaks of the same requests.                                  *)
LEMMA SameRequests ==
  /\ Seller!Key = Key /\ Seller!Absent = Absent /\ Seller!NoIntents = NoIntents
  /\ Seller!Nobody = Nobody
  /\ \A a, b : Seller!Merge(a, b) = Merge(a, b)
  /\ \A a, b : Seller!Served(a, b) = Served(a, b)
BY DEF Seller!Key, Key, Seller!Absent, Absent, Seller!NoIntents, NoIntents,
       Seller!Nobody, Nobody, Seller!Merge, Merge, Seller!Served, Served

(* A step only chooses a request that was asked for.                          *)
LEMMA StepForIsAsked ==
  \A in, b : StepFor(in, b) \in Key => in[StepFor(in, b)] # Absent
BY DEF StepFor, Serviceable, Key

(* What is served depends on the lock's holder and its tick only.             *)
LEMMA ServingByHolder ==
  ASSUME NEW w \in Workers, lock = w
  PROVE  Serving = IF Serves(w) THEN [key |-> step[w], asked |-> snap[w].intents[step[w]]]
                   ELSE Nobody
BY DEF Serving, Nobody

(* Without a holder of the lock nobody is served.                             *)
LEMMA ServingNobody == lock \notin Workers => Serving = Nobody
BY DEF Serving, Nobody

(* Saving progress changes the served request only, and only if it still is   *)
(* what the step has read.                                                    *)
LEMMA SavesTheServed ==
  ASSUME TypeOK, NEW w \in Workers, NEW done \in BOOLEAN, StepSaves(w, done)
  PROVE  LET k == step[w]
         IN intents' \in {intents} \cup
              (IF intents[k] = snap[w].intents[k] THEN {Served(intents, k)} ELSE {})
<1> DEFINE k == step[w]
           old == snap[w].intents
           remaining == IF done THEN Served(old, k) ELSE old
<1>1. k \in Key /\ old \in Intents /\ intents \in Intents
      /\ intents' = AfterConsumedStep(intents, old, Lane[k], remaining)
  BY DEF StepSaves, TypeOK, TickType, RowType
<1> HIDE DEF k, old
<1>2. \A j \in Key : j # k => remaining[j] = old[j]
  BY <1>1, ServedType
<1>3. \A j \in Key : j # k => intents'[j] = intents[j]
  BY <1>1, <1>2 DEF AfterConsumedStep
<1>4. intents' = [j \in Key |-> intents'[j]] /\ intents = [j \in Key |-> intents[j]]
  BY <1>1 DEF AfterConsumedStep, Intents
<1>5. CASE intents[k] # old[k] \/ ~done
  <2>1. intents'[k] = intents[k]
    BY <1>1, <1>5 DEF AfterConsumedStep
  <2>2. intents' = intents
    BY <2>1, <1>3, <1>4
  <2> QED BY <2>2
<1>6. CASE intents[k] = old[k] /\ done
  <2>1. Served(old, k)[k] = Served(intents, k)[k]
    BY <1>1, <1>6 DEF Served, Intents
  <2>2. intents'[k] = Served(intents, k)[k]
    BY <1>1, <1>6, <2>1 DEF AfterConsumedStep
  <2>3. \A j \in Key : intents'[j] = Served(intents, k)[j]
    BY <2>2, <1>3, <1>1, ServedType
  <2>4. Served(intents, k) = [j \in Key |-> Served(intents, k)[j]]
    BY <1>1 DEF Served, Intents
  <2>5. intents' = Served(intents, k)
    BY <2>3, <2>4, <1>4
  <2> QED BY <2>5, <1>6 DEF k, old
<1> QED BY <1>5, <1>6 DEF k

(* An end of the step that changes no work is a Finish or a stutter.          *)
LEMMA EndsQuietly ==
  ASSUME IInv, NEW w \in Workers, ~Idle(w), UNCHANGED intents, Serving' = Nobody
  PROVE  Seller!Finish \/ UNCHANGED <<intents, Serving>>
<1>1. lock = w
  BY DEF IInv, HolderIsLocked
<1>2. CASE Serves(w)
  <2>1. Serving # Nobody
    BY <1>1, <1>2, ServingByHolder DEF Serves, Nobody, Key
  <2> QED BY <2>1, SameRequests DEF Seller!Finish
<1>3. CASE ~Serves(w)
  BY <1>1, <1>3, ServingByHolder
<1> QED BY <1>2, <1>3

(* Initially nothing is served, and the row holds nothing or a kick.          *)
LEMMA InitRefines == Init => Seller!Init
<1> SUFFICES ASSUME Init PROVE Seller!Init
  OBVIOUS
<1>1. Serving = Nobody
  BY NamesAssumption, ServingNobody DEF Init
<1>2. intents \in {NoIntents} \cup Kicks
  BY DEF Init
<1> QED BY <1>1, <1>2, SameRequests DEF Seller!Init

(* Every step of the scheduler is a step of SellerWork or a stutter.          *)
LEMMA NextRefines == IInv /\ [Next]_vars => [Seller!Next]_<<intents, Serving>>
<1> SUFFICES ASSUME IInv, [Next]_vars
             PROVE  Seller!Next \/ UNCHANGED <<intents, Serving>>
  OBVIOUS
<1> USE DEF IInv, TypeOK
<1>1. UNCHANGED ticks => Serving' = Serving
  BY DEF ticks, Serving, Serves
<1>2. ASSUME NEW w \in Workers, ~Idle(w) PROVE lock = w
  BY <1>2 DEF HolderIsLocked
<1>3. CASE Request
  <2>1. ASSUME NEW patch \in Kicks, Kick(patch) PROVE Seller!Next
    <3>1. intents' = Merge(intents, patch) /\ UNCHANGED Serving
      BY <2>1, <1>1 DEF Kick
    <3> QED BY <3>1, SameRequests DEF Seller!Next, Seller!Request
  <2>2. ASSUME ClearFunnelTailIntent PROVE Seller!Next
    <3>1. UNCHANGED Serving
      BY <2>2, <1>1 DEF ClearFunnelTailIntent
    <3> QED BY <2>2, <3>1, SameRequests
            DEF ClearFunnelTailIntent, Seller!Next, Seller!WindowCloses
  <2> QED BY <1>3, <2>1, <2>2 DEF Request
<1>4. CASE Dispatch \/ Broker
  <2>1. UNCHANGED <<intents, ticks>>
    BY <1>4 DEF Dispatch, DispatchClaims, DispatchDefers, Broker, Publish,
         PublishFails, DispatcherCrashes, LoseMessage, row
  <2> QED BY <2>1, <1>1
<1>5. CASE TimePasses \/ UNCHANGED vars
  BY <1>5 DEF TimePasses, vars, row, ticks, Serving, Serves
<1>6. ASSUME NEW w \in Workers, Receive(w) PROVE UNCHANGED <<intents, Serving>>
  <2>1. ASSUME NEW m \in queue, NEW again \in BOOLEAN, TickAcquires(w, m, again)
        PROVE  UNCHANGED <<intents, Serving>>
    <3>1. UNCHANGED intents /\ Serving = Nobody
      BY <2>1, NamesAssumption, ServingNobody DEF TickAcquires, LockIsFree, row
    <3>2. lock' = w /\ pc'[w] = "locked"
      BY <2>1 DEF TickAcquires, Goto, TickType
    <3>3. Serving' = Nobody
      BY <3>2 DEF Serving, Serves, Nobody
    <3> QED BY <3>1, <3>3
  <2>2. ASSUME NEW m \in queue, NEW again \in BOOLEAN, TickAlreadyRunning(w, m, again)
        PROVE  UNCHANGED <<intents, Serving>>
    BY <2>2, <1>1 DEF TickAlreadyRunning, row
  <2> QED BY <1>6, <2>1, <2>2 DEF Receive
<1>7. ASSUME NEW w \in Workers, Validate(w) \/ StepHasNoKey(w) \/ TickEnds(w)
                                \/ StepLabelsRateLimited(w)
      PROVE  UNCHANGED <<intents, Serving>>
  <2>1. /\ UNCHANGED <<intents, lock>>
        /\ pc[w] \in {"locked", "began", "finally", "blocked_set"}
        /\ pc'[w] \in {"unlock", "began", "finally"}
    BY <1>7 DEF Validate, TickLegacy, TickStale, TickNotDue, TickBegins,
         StepHasNoKey, TickEnds, StepLabelsRateLimited, Goto, TickType, row
  <2>2. lock = w
    BY <2>1, <1>2 DEF Idle
  <2> QED BY <2>1, <2>2 DEF Serving, Serves
<1>8. ASSUME NEW w \in Workers, StepChooses(w) PROVE Seller!Next \/ UNCHANGED <<intents, Serving>>
  <2>1. lock = w /\ lock' = w /\ UNCHANGED intents
    BY <1>8, <1>2 DEF StepChooses, Goto, Idle, row
  <2>2. Serving = Nobody
    BY <2>1, <1>8, ServingByHolder DEF StepChooses, Goto, Serves
  <2>3. /\ pc'[w] = "calling" /\ step'[w] = StepFor(intents, blocked)
        /\ snap'[w].intents = intents
    BY <1>8 DEF StepChooses, Goto, TickType
  <2>4. CASE step'[w] \in Key
    <3> DEFINE k == step'[w]
    <3>1. intents[k] # Absent
      BY <2>3, <2>4, StepForIsAsked
    <3>2. Serving' = [key |-> k, asked |-> intents[k]]
      BY <2>1, <2>3, <2>4 DEF Serving, Serves
    <3> QED BY <2>1, <2>2, <2>4, <3>1, <3>2, SameRequests DEF Seller!Next, Seller!Start
  <2>5. CASE step'[w] \notin Key
    BY <2>1, <2>2, <2>5 DEF Serving, Serves, Nobody
  <2> QED BY <2>4, <2>5
<1>9. ASSUME NEW w \in Workers,
             \/ StepHasNothing(w) \/ TickUnlocks(w) \/ WorkerCrashes(w)
             \/ \E d \in RetryDelays : StepRateLimited(w, d)
             \/ \E permanent \in BOOLEAN : StepFails(w, permanent)
      PROVE  Seller!Next \/ UNCHANGED <<intents, Serving>>
  <2>1. UNCHANGED intents /\ ~Idle(w)
    BY <1>9 DEF StepHasNothing, TickUnlocks, WorkerCrashes, StepRateLimited,
         StepFails, Goto, Idle, row
  <2>2. lock' = NoWorker \/ (lock' = w /\ pc'[w] # "calling")
    BY <1>9, <2>1, <1>2 DEF StepHasNothing, TickUnlocks, WorkerCrashes,
         StepRateLimited, StepFails, Goto, Reset, TickType
  <2>3. Serving' = Nobody
    BY <2>2, NamesAssumption DEF Serving, Serves, Nobody
  <2> QED BY <2>1, <2>3, EndsQuietly DEF Seller!Next
<1>10. ASSUME NEW w \in Workers, NEW done \in BOOLEAN, StepSaves(w, done)
       PROVE  Seller!Next
  <2>1. /\ lock = w /\ lock' = w /\ Serves(w)
        /\ pc'[w] = "finally"
    BY <1>10, <1>2 DEF StepSaves, Goto, Idle, Serves, TickType
  <2>2. Serving = [key |-> step[w], asked |-> snap[w].intents[step[w]]]
    BY <2>1, ServingByHolder
  <2>3. Serving # Nobody /\ Serving' = Nobody
    BY <2>1, <2>2 DEF Serving, Serves, Nobody, Key
  <2>4. intents' \in {intents} \cup
          (IF intents[step[w]] = snap[w].intents[step[w]] THEN {Served(intents, step[w])} ELSE {})
    BY <1>10, SavesTheServed
  <2> QED BY <2>2, <2>3, <2>4, SameRequests DEF Seller!Next, Seller!Finish
<1> QED BY <1>3, <1>4, <1>5, <1>6, <1>7, <1>8, <1>9, <1>10 DEF Next, Tick, RunStep

(* The scheduler implements what it promises about a seller's work.           *)
THEOREM Implements == Spec => ImplementsSellerWork
<1>1. IInv /\ [Next]_vars => [Seller!Next]_<<intents, Serving>>
  BY NextRefines
<1> QED BY <1>1, InitRefines, Invariant, PTL DEF Spec, ImplementsSellerWork, Seller!Spec
--------------------------------------------------------------------------------
(* The pause after a step.  As long as it lasts and the step ended under its  *)
(* own token, no token is out, the row is due when the pause is over and not  *)
(* before, and nobody works on it.                                            *)
PaceInv ==
  /\ pace \in Nat /\ own \in BOOLEAN
  /\ own /\ pace > 0 =>
       /\ token = NoToken /\ next >= pace /\ status # "cooldown"
       /\ \A w \in Workers : ~Working(w)

(* A kick always asks for something.                                          *)
LEMMA KicksAsk ==
  ASSUME NEW in \in Intents, NEW patch \in Kicks
  PROVE  Merge(in, patch) \in Intents /\ PendingOps(Merge(in, patch)) # {}
<1>1. patch \in Intents
  BY KicksAssumption, PatchesType
<1>2. \E k \in Key : patch[k] # Absent
  BY KicksAssumption, RangesAssumption DEF Patches, Ask, NoIntents, Key, Absent
<1>3. PICK k \in Key : Merge(in, patch)[k] # Absent
  BY <1>2 DEF Merge
<1>4. OpOf[k] \in PendingOps(Merge(in, patch))
  BY <1>3 DEF PendingOps
<1> QED BY <1>1, <1>4, MergeType

(* A delay is kept.                                                           *)
LEMMA DueKeepsDelay ==
  ASSUME NEW in, NEW b \in Blocks, NEW c \in Time, NEW d \in Nat, DueForState(in, b, c, d) # Null
  PROVE  DueForState(in, b, c, d) >= d
<1> DEFINE due(op) == Max2(d, Wait(op, b, c))
<1>1. \A op \in Op : due(op) \in Nat /\ due(op) >= d
  <2> SUFFICES ASSUME NEW op \in Op PROVE Wait(op, b, c) \in Nat
    BY MaxMinType
  <2>1. b[op] \in Time
    BY DEF Blocks
  <2> QED BY <2>1 DEF Wait, Time, Null
<1>2. "finance" \in Op /\ "funnel" \in Op
  BY DEF Op
<1>3. DueForState(in, b, c, d) \in {due("finance"), due("funnel"), Null}
  BY DEF DueForState, Min2
<1> HIDE DEF due
<1> QED BY <1>1, <1>2, <1>3

(* While no token is out, a row that is not yet due is not claimed.           *)
LEMMA NotYetDue ==
  ASSUME IInv, PaceInv, own, pace > 0
  PROVE  ~Claimable /\ lease = Null /\ next \in Nat /\ next > 0
<1>1. lease = Null /\ next \in Time
  BY DEF PaceInv, IInv, TokenHasLease, TypeOK, RowType
<1>2. next >= pace /\ pace \in Nat
  BY DEF PaceInv
<1>3. next \in Nat /\ next > 0
  BY <1>1, <1>2 DEF Time, Null
<1> QED BY <1>1, <1>3 DEF Claimable, Null

(* Of the steps that do not end a tick and let no time pass, none shortens    *)
(* the pause.                                                                 *)
LEMMA OthersKeepPace ==
  ASSUME IInv, PaceInv, HOther
  PROVE  PaceInv'
<1>0. pace' = pace /\ own' = own
  BY DEF HOther, history
<1> SUFFICES ASSUME own, pace > 0
             PROVE  /\ token' = NoToken /\ next' >= pace /\ status' # "cooldown"
                    /\ \A w \in Workers : ~Working(w)'
  BY <1>0 DEF PaceInv, Working
<1>1. token = NoToken /\ next >= pace /\ status # "cooldown" /\ \A w \in Workers : ~Working(w)
  BY DEF PaceInv
<1>2. ~Claimable /\ next \in Nat
  BY NotYetDue
<1>3. \A w \in Workers : mine[w] # NoToken \/ pc[w] = "idle"
  BY DEF IInv, HolderIsLocked, Idle
<1>4. ASSUME NEW patch \in Kicks, Kick(patch)
      PROVE  UNCHANGED <<token, next, status, pc>>
  <2> DEFINE in == Merge(intents, patch)
             due == DueForState(in, blocked, cooldown, 0)
  <2>1. due # Null
    <3>1. PendingOps(in) # {}
      BY KicksAsk DEF IInv, TypeOK, RowType
    <3>2. blocked \in Blocks /\ cooldown \in Time
      BY DEF IInv, TypeOK, RowType
    <3> HIDE DEF in
    <3> QED BY <3>1, <3>2, DueType
  <2> HIDE DEF due
  <2>2. ~KickReplans(due)
    BY <1>1, <1>2, <2>1 DEF KickReplans, Null
  <2> QED BY <1>4, <2>2 DEF Kick, ticks, due
<1>5. ASSUME ClearFunnelTailIntent
      PROVE  UNCHANGED <<token, next, pc>> /\ status' # "cooldown"
  BY <1>1, <1>5 DEF ClearFunnelTailIntent, ticks
<1>6. ~Dispatch
  BY <1>2 DEF Dispatch, DispatchClaims, DispatchDefers
<1>7. ASSUME Broker
      PROVE  UNCHANGED <<token, next, status, pc>>
  <2>1. \A t \in claimed : t # NoToken
    BY NamesAssumption DEF IInv, TypeOK, BrokerType
  <2>2. ASSUME NEW t \in claimed, NEW reached \in BOOLEAN, PublishFails(t, reached)
        PROVE  UNCHANGED <<token, next, status, pc>>
    BY <1>1, <2>1, <2>2 DEF PublishFails, ReleaseFailedPublish, ticks
  <2>3. ASSUME NEW t \in claimed, Publish(t) \/ DispatcherCrashes(t)
        PROVE  UNCHANGED <<token, next, status, pc>>
    BY <2>3 DEF Publish, DispatcherCrashes, row, ticks
  <2>4. ASSUME NEW m \in queue, LoseMessage(m)
        PROVE  UNCHANGED <<token, next, status, pc>>
    BY <2>4 DEF LoseMessage, row, ticks
  <2> QED BY <1>7, <2>2, <2>3, <2>4 DEF Broker
<1>8. ASSUME NEW w \in Workers, Receive(w)
      PROVE  UNCHANGED <<token, next, status>> /\ \A v \in Workers : ~Working(v)'
  <2>1. UNCHANGED <<token, next, status>>
    BY <1>8 DEF Receive, TickAcquires, TickAlreadyRunning, row
  <2>2. pc' = pc \/ pc' = [pc EXCEPT ![w] = "locked"]
    BY <1>8 DEF Receive, TickAcquires, TickAlreadyRunning, ticks, Goto
  <2> QED BY <1>1, <2>1, <2>2 DEF Working, IInv, TypeOK, TickType
<1>9. ASSUME NEW w \in Workers, Validate(w)
      PROVE  UNCHANGED <<token, next, status>> /\ \A v \in Workers : ~Working(v)'
  <2>1. mine[w] # token
    BY <1>1, <1>3, <1>9 DEF Validate, TickLegacy, TickStale, TickNotDue, TickBegins, Goto
  <2>2. TickLegacy(w) \/ TickStale(w)
    BY <1>9, <2>1 DEF Validate, TickNotDue, TickBegins
  <2>3. UNCHANGED <<token, next, status>>
    BY <1>2, <2>2 DEF TickLegacy, TickStale, row, Null
  <2>4. pc' = [pc EXCEPT ![w] = "unlock"]
    BY <2>2 DEF TickLegacy, TickStale, Goto
  <2> QED BY <1>1, <2>3, <2>4 DEF Working, IInv, TypeOK, TickType
<1>10. ASSUME NEW w \in Workers, TickUnlocks(w) \/ WorkerCrashes(w)
       PROVE  UNCHANGED <<token, next, status>> /\ \A v \in Workers : ~Working(v)'
  <2>1. UNCHANGED <<token, next, status>> /\ pc' = [pc EXCEPT ![w] = "idle"]
    BY <1>10 DEF TickUnlocks, WorkerCrashes, Goto, row
  <2> QED BY <1>1, <2>1 DEF Working, IInv, TypeOK, TickType
<1>11. ASSUME NEW w \in Workers, RunStep(w) PROVE FALSE
  <2>1. pc[w] \in {"began", "calling", "blocked_set"}
    BY <1>11 DEF RunStep, StepHasNoKey, StepChooses, StepHasNothing, StepSaves, StepRateLimited,
                 StepLabelsRateLimited, StepFails, Goto
  <2> QED BY <1>1, <2>1 DEF Working
<1>12. HOther => \/ \E patch \in Kicks : Kick(patch)
                 \/ ClearFunnelTailIntent \/ Dispatch \/ Broker
                 \/ \E w \in Workers : Receive(w) \/ Validate(w) \/ TickUnlocks(w) \/ WorkerCrashes(w) \/ RunStep(w)
  BY DEF HOther, RunStep
<1>13. (\A v \in Workers : ~Working(v)') \/ pc' # pc
  BY <1>1 DEF Working
<1> QED BY <1>1, <1>4, <1>5, <1>6, <1>7, <1>8, <1>9, <1>10, <1>11, <1>12, <1>13

(* A tick that ends begins a pause only with a plan that keeps it.            *)
LEMMA EndsKeepPace ==
  ASSUME IInv, PaceInv, NEW w \in Workers, HEnds(w)
  PROVE  PaceInv'
<1>1. /\ TickEnds(w) /\ own' = (token' = NoToken)
      /\ pace' = IF status' = "scheduled" THEN StepDelay ELSE 0
  BY DEF HEnds
<1>2. pace' \in Nat /\ own' \in BOOLEAN
  BY <1>1, TimeAssumption
<1>3. pc[w] = "finally" /\ pc' = [pc EXCEPT ![w] = "unlock"]
  BY <1>1 DEF TickEnds, Goto
<1>4. \A v \in Workers : ~Working(v)'
  <2>1. \A v \in Workers : v # w => pc[v] = "idle"
    BY <1>3 DEF IInv, HolderIsLocked, Idle
  <2> QED BY <1>3, <2>1 DEF Working, IInv, TypeOK, TickType
<1>5. ASSUME status' = "scheduled" PROVE next' >= StepDelay
  <2>1. ScheduleState(intents, StepDelay)
    BY <1>1, <1>5 DEF TickEnds
  <2>2. PICK due : due = DueForState(intents, blocked, cooldown, StepDelay) /\ next' = due /\ due # Null
    BY <1>5, <2>1 DEF ScheduleState
  <2>3. blocked \in Blocks /\ cooldown \in Time /\ StepDelay \in Nat
    BY TimeAssumption DEF IInv, TypeOK, RowType
  <2> QED BY <2>2, <2>3, DueKeepsDelay
<1>6. ASSUME own', pace' > 0 PROVE token' = NoToken /\ next' >= pace' /\ status' # "cooldown"
  <2>1. token' = NoToken
    BY <1>1, <1>6
  <2>2. status' = "scheduled" /\ pace' = StepDelay
    BY <1>1, <1>6
  <2> QED BY <1>5, <2>1, <2>2
<1> QED BY <1>2, <1>4, <1>6 DEF PaceInv

(* Time shortens the pause and the plan alike.                                *)
LEMMA TimeKeepsPace ==
  ASSUME IInv, PaceInv, HTime
  PROVE  PaceInv'
<1>1. pace' = Down(pace) /\ own' = own /\ next' = Down(next) /\ UNCHANGED <<token, status, pc>>
  BY DEF HTime, TimePasses
<1>2. pace' \in Nat /\ (pace' > 0 => pace > 0)
  BY <1>1 DEF PaceInv, Down
<1>3. ASSUME own, pace' > 0
      PROVE  next' >= pace' /\ token = NoToken /\ status # "cooldown" /\ \A w \in Workers : ~Working(w)
  <2>1. next \in Nat /\ next > 0 /\ next >= pace /\ pace \in Nat /\ pace > 0
    BY <1>2, <1>3, NotYetDue DEF PaceInv
  <2>2. next' >= pace'
    BY <1>1, <2>1 DEF Down
  <2> QED BY <1>2, <1>3, <2>2 DEF PaceInv
<1> QED BY <1>1, <1>2, <1>3 DEF PaceInv, Working

(* The steps with a memory are steps.                                         *)
LEMMA MemoryGuardsNothing == [HNext]_hvars => [Next]_vars
<1>1. ASSUME HTime \/ HOther \/ \E w \in Workers : HEnds(w) PROVE Next
  BY <1>1 DEF HTime, HOther, HEnds, Next, Request, Receive, Tick, RunStep
<1> QED BY <1>1 DEF HNext, hvars

(* The pause is kept whatever comes between: kicks, a closed window, late and *)
(* repeated messages, failed publishes, deaths.                               *)
LEMMA PaceStep ==
  ASSUME IInv, PaceInv, [HNext]_hvars
  PROVE  PaceInv' /\ \A w \in Workers : Begins(w) /\ own => pace = 0
<1>1. PaceInv'
  <2>1. CASE UNCHANGED hvars
    BY <2>1 DEF hvars, vars, row, ticks, history, PaceInv, Working
  <2>2. CASE HTime
    BY <2>2, TimeKeepsPace
  <2>3. CASE HOther
    BY <2>3, OthersKeepPace
  <2>4. CASE \E w \in Workers : HEnds(w)
    BY <2>4, EndsKeepPace
  <2> QED BY <2>1, <2>2, <2>3, <2>4 DEF HNext
<1>2. ASSUME NEW w \in Workers, Begins(w), own, pace > 0 PROVE FALSE
  <2>1. pc[w] = "locked" /\ pc'[w] = "began" /\ pc' # pc
    BY <1>2 DEF Begins
  <2>2. \A v \in Workers : ~Working(v)
    BY <1>2 DEF PaceInv
  <2>3. PaceInv' /\ pace' = pace /\ own' = own
    <3>1. ~HTime
      BY <2>1 DEF HTime, TimePasses
    <3>2. \A v \in Workers : ~HEnds(v)
      BY <2>2 DEF HEnds, TickEnds, Goto, Working
    <3>3. ~UNCHANGED hvars
      BY <2>1 DEF hvars, vars, ticks
    <3> QED BY <1>1, <3>1, <3>2, <3>3 DEF HNext, HOther, history
  <2>4. ~Working(w)'
    BY <1>2, <2>3 DEF PaceInv
  <2> QED BY <2>1, <2>4 DEF Working
<1>3. pace \in Nat
  BY DEF PaceInv
<1> QED BY <1>1, <1>2, <1>3

(* After a step that left ready work the seller rests for ORCH_STEP_DELAY_SEC *)
(* before the next step begins, as long as a step ended before the dispatcher *)
(* replaced its token: for any delays, leases, workers and faults.            *)
THEOREM PacingKept == HSpec => PacingKeptByOwnToken
<1>1. HInit => IInv /\ PaceInv
  BY InitIInv DEF HInit, PaceInv
<1>2. IInv /\ PaceInv /\ [HNext]_hvars => (IInv /\ PaceInv)'
  BY MemoryGuardsNothing, NextIInv, PaceStep
<1>3. IInv /\ PaceInv /\ [HNext]_hvars => [\A w \in Workers : Begins(w) /\ own => pace = 0]_hvars
  BY PaceStep
<1> QED BY <1>1, <1>2, <1>3, PTL DEF HSpec, PacingKeptByOwnToken

--------------------------------------------------------------------------------
(* The archive's cursor, for years and months of any length and any number of *)
(* faults and kicks.  What makes the properties inductive is that the chunk   *)
(* under way ends where the cursor stands: no day before the cursor is passed *)
(* yet, and none behind it is written to by this step.                        *)

Chunks == [year : Years, from : Int, to : Int]
Walking == {"check", "sales", "ads", "recalc", "advance"}

Types ==
  /\ ArchiveTypeOK
  /\ last \in [Years -> Nat]
  /\ {raw, pnl, lost, answered, unshown} \subseteq [Years -> SUBSET Int]
  /\ recalcs \subseteq Chunks

(* A step has a chunk of a year, which ends where the cursor is.              *)
ChunkIsAhead ==
  /\ stage # "idle" => chunk.year \in Years
  /\ stage \in Walking =>
       /\ chunk \in Chunks
       /\ chunk.to = Cursor(chunk.year) /\ 1 <= chunk.from /\ chunk.from <= chunk.to

(* Its last day is served once its sales were asked for or were not needed.   *)
ChunkIsServed ==
  stage \in {"ads", "recalc", "advance"} =>
    chunk.to \in answered[chunk.year] \cup pnl[chunk.year] \cup lost[chunk.year]

(* A day is in the report, on its way to it, or its recalculation has failed. *)
Reaches(y, d) ==
  d \in pnl[y] \cup unshown[y] \/ \E c \in recalcs : c.year = y /\ d \in Days(c)

(* Before the cursor moves, what was loaded of the chunk reaches the report.  *)
ChunkReachesPnl ==
  stage = "advance" => \A d \in Days(chunk) \cap raw[chunk.year] : Reaches(chunk.year, d)

BackfillInv ==
  /\ Types /\ ChunkIsAhead /\ ChunkIsServed /\ ChunkReachesPnl
  /\ PassedDaysWereServed /\ PassedDaysReachPnl

--------------------------------------------------------------------------------
(* A month begins at a day of the year, not after the day it is taken from.   *)
LEMMA MonthStartBounds ==
  ASSUME NEW d \in Nat \ {0}
  PROVE  MonthStart(d) \in 1..d
<1>1. d - 1 \in Nat /\ MonthLen \in Nat \ {0}
  BY YearAssumption
<1>2. \A a \in Nat, n \in Nat \ {0} : a % n \in 0..a
  <2> SUFFICES ASSUME NEW a \in Nat, NEW n \in Nat \ {0} PROVE a % n \in 0..a
    OBVIOUS
  <2>1. CASE a < n
    BY <2>1
  <2>2. CASE a >= n
    <3>1. a % n \in 0..(n - 1)
      OBVIOUS
    <3> QED BY <2>2, <3>1
  <2> QED BY <2>1, <2>2
<1>3. (d - 1) % MonthLen \in 0..(d - 1)
  BY <1>1, <1>2
<1> QED BY <1>3 DEF MonthStart

(* The cursor of a year is no later than its last day.                        *)
LEMMA CursorType ==
  ASSUME Types, NEW y \in Years
  PROVE  Cursor(y) \in Int /\ Cursor(y) <= Through[y] /\ Through[y] \in Nat \ {0}
BY YearAssumption DEF Types, ArchiveTypeOK, Cursor, NoDate

(* Every step keeps the types and the place of the chunk.                     *)
LEMMA TypeStep ==
  ASSUME Types, ChunkIsAhead, [ArchiveNext]_archiveVars
  PROVE  Types' /\ ChunkIsAhead'
<1> USE DEF Years, NoYear
<1>0. MaxArchiveFaults \in Nat /\ MaxKicks \in Nat
  BY YearAssumption
<1>1. ASSUME NEW y \in Years, KickYear(y) PROVE Types' /\ ChunkIsAhead'
  <2>1. kicks' \in 0..MaxKicks
    BY <1>0, <1>1 DEF KickYear, Types, ArchiveTypeOK
  <2>2. Types'
    BY <1>1, <2>1 DEF KickYear, Types, ArchiveTypeOK, Days, state, data, archiveHistory
  <2>3. ChunkIsAhead'
    BY <1>1 DEF KickYear, ChunkIsAhead, Cursor, state
  <2> QED BY <2>2, <2>3
<1>2. CASE ManagerKicks
  BY <1>2 DEF ManagerKicks, Types, ArchiveTypeOK, ChunkIsAhead, Cursor, Days, state, data, archiveHistory
<1>3. CASE StepCompletes
  BY <1>3 DEF StepCompletes, NoChunk, Types, ArchiveTypeOK, ChunkIsAhead, Cursor, Days, Walking, data, archiveHistory
<1>4. CASE StepStarts
  <2>1. asked \in Years /\ Cursor(asked) \in Nat \ {0}
    BY <1>4, CursorType DEF StepStarts, Types, ArchiveTypeOK
  <2>2. MonthStart(Cursor(asked)) \in 1..Cursor(asked)
    BY <2>1, MonthStartBounds
  <2>3. ChunkIsAhead'
    BY <1>4, <2>1, <2>2 DEF StepStarts, MonthChunk, ChunkIsAhead, Cursor, Chunks, Walking
  <2>4. Types'
    BY <1>4, <2>1 DEF StepStarts, Types, ArchiveTypeOK, Days, data, archiveHistory
  <2> QED BY <2>3, <2>4
<1>5. CASE StepChecksCoverage
  BY <1>5 DEF StepChecksCoverage, Types, ArchiveTypeOK, ChunkIsAhead, Cursor, Days, Walking, state, data, archiveHistory
<1>6. ASSUME stage \in Walking PROVE Days(chunk) \subseteq 1..Through[chunk.year]
  BY <1>6, CursorType DEF ChunkIsAhead, Days, Chunks, Walking
<1>7. CASE SalesAnswered
  BY <1>6, <1>7 DEF SalesAnswered, Types, ArchiveTypeOK, ChunkIsAhead, Cursor, Days, Walking, state
<1>8. CASE SalesSwallowed
  BY <1>0, <1>6, <1>8 DEF SalesSwallowed, Fault, Types, ArchiveTypeOK, ChunkIsAhead, Cursor, Days, Walking, state, data
<1>9. ASSUME NEW loaded \in BOOLEAN, AdsDone(loaded) PROVE Types' /\ ChunkIsAhead'
  BY <1>0, <1>6, <1>9 DEF AdsDone, Fault, Types, ArchiveTypeOK, ChunkIsAhead, Cursor, Days, Walking, state, archiveHistory
<1>10. CASE StepEnqueuesRecalc
  BY <1>6, <1>10 DEF StepEnqueuesRecalc, Types, ArchiveTypeOK, ChunkIsAhead, Cursor, Days, Walking, state, archiveHistory
<1>11. CASE StepAdvances
  <2>1. chunk.year \in Years /\ chunk.to \in 1..Through[chunk.year] /\ chunk.to \in Nat
    BY <1>11, CursorType DEF StepAdvances, ChunkIsAhead, Chunks, Walking
  <2> QED BY <1>11, <2>1 DEF StepAdvances, Types, ArchiveTypeOK, ChunkIsAhead, Days, Walking, data, archiveHistory
<1>12. CASE StepSavesYear
  BY <1>12 DEF StepSavesYear, Types, ArchiveTypeOK, ChunkIsAhead, Days, Walking, state, data, archiveHistory
<1>13. CASE StepAborts
  <2>0. halted' \in BOOLEAN
    <3>1. CASE stage \in {"sales", "ads"}
      BY <1>13, <3>1 DEF StepAborts
    <3>2. CASE stage \notin {"sales", "ads"}
      BY <1>13, <3>2 DEF StepAborts
    <3> QED BY <3>1, <3>2
  <2>1. archiveFaults' \in 0..MaxArchiveFaults
    BY <1>0, <1>13 DEF StepAborts, Fault, Types, ArchiveTypeOK
  <2>2. Types'
    BY <1>13, <2>0, <2>1 DEF StepAborts, Types, ArchiveTypeOK, Days, state, data, archiveHistory
  <2>3. ChunkIsAhead'
    BY <1>13 DEF StepAborts, ChunkIsAhead, Walking
  <2> QED BY <2>2, <2>3
<1>14. ASSUME NEW c \in recalcs, Recalculate(c) PROVE Types' /\ ChunkIsAhead'
  BY <1>14 DEF Recalculate, Types, ArchiveTypeOK, ChunkIsAhead, Cursor, Days, Chunks, state, archiveHistory
<1>15. ASSUME NEW c \in recalcs, RecalculateFails(c) PROVE Types' /\ ChunkIsAhead'
  BY <1>0, <1>15 DEF RecalculateFails, Fault, Types, ArchiveTypeOK, ChunkIsAhead, Cursor, Days, Chunks, state
<1>16. CASE UNCHANGED archiveVars
  BY <1>16 DEF archiveVars, Types, ArchiveTypeOK, ChunkIsAhead, Cursor, Days, state, data, archiveHistory
<1> QED BY <1>1, <1>2, <1>3, <1>4, <1>5, <1>7, <1>8, <1>9, <1>10, <1>11, <1>12, <1>13, <1>14, <1>15, <1>16
         DEF ArchiveNext, ArchiveStep

(* Rows of the report come from raw rows, which are never taken away: only    *)
(* the recalculation of a day writes it, and it keeps what it had.            *)
LEMMA ReportGrows ==
  ASSUME Types, [ArchiveNext]_archiveVars, NEW y \in Years
  PROVE  pnl[y] \subseteq pnl'[y]
<1>1. ASSUME NEW c \in recalcs, Recalculate(c) PROVE pnl[y] \subseteq pnl'[y]
  BY <1>1 DEF Recalculate, Types, ArchiveTypeOK
<1>2. (\A c \in recalcs : ~Recalculate(c)) => UNCHANGED pnl
  BY DEF ArchiveNext, ArchiveStep, archiveVars, data, KickYear, ManagerKicks, StepCompletes, StepStarts, StepChecksCoverage,
         SalesAnswered, SalesSwallowed, AdsDone, StepEnqueuesRecalc, StepAdvances, StepSavesYear,
         StepAborts, RecalculateFails
<1> QED BY <1>1, <1>2

(* What was answered, lost or failed to be shown once remains so.             *)
LEMMA HistoryGrows ==
  ASSUME Types, ChunkIsAhead, [ArchiveNext]_archiveVars, NEW y \in Years
  PROVE  /\ answered[y] \subseteq answered'[y] /\ lost[y] \subseteq lost'[y]
         /\ unshown[y] \subseteq unshown'[y]
<1>1. CASE SalesAnswered
  BY <1>1 DEF SalesAnswered, Types, ChunkIsAhead
<1>2. CASE SalesSwallowed
  BY <1>2 DEF SalesSwallowed, Types, ChunkIsAhead
<1>3. ASSUME NEW c \in recalcs, RecalculateFails(c)
      PROVE /\ answered[y] \subseteq answered'[y] /\ lost[y] \subseteq lost'[y]
            /\ unshown[y] \subseteq unshown'[y]
  BY <1>3 DEF RecalculateFails, Types, ArchiveTypeOK
<1>4. (~SalesAnswered /\ ~SalesSwallowed /\ \A c \in recalcs : ~RecalculateFails(c)) => UNCHANGED archiveHistory
  BY DEF ArchiveNext, ArchiveStep, archiveVars, archiveHistory, KickYear, ManagerKicks, StepCompletes, StepStarts, StepChecksCoverage,
         AdsDone, StepEnqueuesRecalc, StepAdvances, StepSavesYear, StepAborts, Recalculate
<1> QED BY <1>1, <1>2, <1>3, <1>4 DEF archiveHistory

(* A day on its way to the report stays there, unless it arrives or fails.    *)
LEMMA ReachesStays ==
  ASSUME Types, ChunkIsAhead, [ArchiveNext]_archiveVars, NEW y \in Years, NEW d \in raw[y], Reaches(y, d)
  PROVE  Reaches(y, d)'
<1>1. CASE d \in pnl[y] \cup unshown[y]
  BY <1>1, ReportGrows, HistoryGrows DEF Reaches
<1>2. ASSUME NEW c \in recalcs, c.year = y, d \in Days(c) PROVE Reaches(y, d)'
  <2>1. CASE c \in recalcs'
    BY <1>2, <2>1 DEF Reaches, Days
  <2>2. CASE c \notin recalcs'
    <3>1. Recalculate(c) \/ RecalculateFails(c)
      BY <2>2 DEF ArchiveNext, ArchiveStep, archiveVars, data, KickYear, ManagerKicks, StepCompletes, StepStarts, StepChecksCoverage,
         SalesAnswered, SalesSwallowed, AdsDone, StepEnqueuesRecalc, StepAdvances, StepSavesYear,
         StepAborts, Recalculate, RecalculateFails
    <3>2. CASE Recalculate(c)
      BY <1>2, <3>2 DEF Recalculate, Reaches, Types
    <3>3. CASE RecalculateFails(c)
      BY <1>2, <3>3 DEF RecalculateFails, Reaches, Types
    <3> QED BY <3>1, <3>2, <3>3
  <2> QED BY <2>1, <2>2
<1> QED BY <1>1, <1>2 DEF Reaches

(* A step writes raw rows of its chunk only, and only before the cursor moves. *)
LEMMA RawIsOfTheChunk ==
  ASSUME Types, ChunkIsAhead, [ArchiveNext]_archiveVars, NEW y \in Years, NEW d \in raw'[y], d \notin raw[y]
  PROVE  stage \in {"sales", "ads"} /\ y = chunk.year /\ d \in Days(chunk)
<1>1. CASE SalesAnswered
  BY <1>1 DEF SalesAnswered, Types, ChunkIsAhead
<1>2. ASSUME NEW loaded \in BOOLEAN, AdsDone(loaded)
      PROVE stage \in {"sales", "ads"} /\ y = chunk.year /\ d \in Days(chunk)
  BY <1>2 DEF AdsDone, Types, ChunkIsAhead
<1>3. SalesAnswered \/ AdsDone(TRUE) \/ AdsDone(FALSE) \/ UNCHANGED raw
  BY DEF ArchiveNext, ArchiveStep, archiveVars, data, KickYear, ManagerKicks, StepCompletes, StepStarts, StepChecksCoverage,
         SalesSwallowed, StepEnqueuesRecalc, StepAdvances, StepSavesYear, StepAborts, Recalculate, RecalculateFails
<1> QED BY <1>1, <1>2, <1>3

(* The cursor moves by the last day of the chunk, and only when it advances.  *)
LEMMA CursorMoves ==
  ASSUME Types, ChunkIsAhead, [ArchiveNext]_archiveVars, NEW y \in Years
  PROVE  \/ last'[y] = last[y]
         \/ stage = "advance" /\ y = chunk.year /\ last'[y] = chunk.to
<1>1. CASE StepAdvances
  BY <1>1 DEF StepAdvances, Types, ChunkIsAhead
<1>2. ~StepAdvances => UNCHANGED last
  BY DEF ArchiveNext, ArchiveStep, archiveVars, state, KickYear, ManagerKicks, StepCompletes, StepStarts, StepChecksCoverage,
         SalesAnswered, SalesSwallowed, AdsDone, StepEnqueuesRecalc, StepSavesYear, StepAborts, Recalculate, RecalculateFails
<1> QED BY <1>1, <1>2

(* What it passes newly is that day.                                          *)
LEMMA NewlyPassed ==
  ASSUME Types, ChunkIsAhead, [ArchiveNext]_archiveVars, NEW y \in Years, NEW d \in Passed(y)'
  PROVE  d \in Passed(y) \/ (stage = "advance" /\ y = chunk.year /\ d = chunk.to)
<1>1. CASE last'[y] = last[y]
  BY <1>1 DEF Passed
<1>2. CASE stage = "advance" /\ y = chunk.year /\ last'[y] = chunk.to
  BY <1>2, CursorType DEF Passed, ChunkIsAhead, Walking, Cursor, Chunks, NoDate, Types
<1> QED BY <1>1, <1>2, CursorMoves

--------------------------------------------------------------------------------
(* A step asks for the day that the cursor will pass before it moves.         *)
LEMMA ServedStep ==
  ASSUME Types, ChunkIsAhead, ChunkIsServed, PassedDaysWereServed, [ArchiveNext]_archiveVars
  PROVE  ChunkIsServed' /\ PassedDaysWereServed'
<1>1. PassedDaysWereServed'
  <2> SUFFICES ASSUME NEW y \in Years, NEW d \in Passed(y)'
               PROVE d \in answered'[y] \cup pnl'[y] \cup lost'[y]
    BY DEF PassedDaysWereServed
  <2>1. d \in answered[y] \cup pnl[y] \cup lost[y]
    BY NewlyPassed DEF PassedDaysWereServed, ChunkIsServed
  <2> QED BY <2>1, ReportGrows, HistoryGrows
<1>2. ChunkIsServed'
  <2>0. SUFFICES ASSUME stage' \in {"ads", "recalc", "advance"}
                 PROVE chunk'.to \in answered'[chunk'.year] \cup pnl'[chunk'.year] \cup lost'[chunk'.year]
    BY DEF ChunkIsServed
  <2>1. CASE StepChecksCoverage
    BY <2>0, <2>1 DEF StepChecksCoverage, data, archiveHistory, ChunkIsAhead, Walking, Days, Chunks
  <2>2. CASE SalesAnswered
    BY <2>2 DEF SalesAnswered, Types, ChunkIsAhead, Walking, Days, Chunks
  <2>3. CASE SalesSwallowed
    BY <2>3 DEF SalesSwallowed, Types, ChunkIsAhead, Walking, Days, Chunks
  <2>4. CASE ~StepChecksCoverage /\ ~SalesAnswered /\ ~SalesSwallowed
    <3>1. stage \in {"ads", "recalc", "advance"} /\ UNCHANGED chunk
      BY <2>0, <2>4 DEF ArchiveNext, ArchiveStep, archiveVars, KickYear, ManagerKicks, StepCompletes, StepStarts,
         AdsDone, StepEnqueuesRecalc, StepAdvances, StepSavesYear, StepAborts, Recalculate, RecalculateFails
    <3>2. chunk.year \in Years
      BY <3>1 DEF ChunkIsAhead
    <3> QED BY <3>1, <3>2, ReportGrows, HistoryGrows DEF ChunkIsServed
  <2> QED BY <2>1, <2>2, <2>3, <2>4
<1> QED BY <1>1, <1>2

(* What a step loaded is shown, or on its way there, before the cursor moves. *)
LEMMA ShownStep ==
  ASSUME Types, ChunkIsAhead, ChunkReachesPnl, PassedDaysReachPnl, [ArchiveNext]_archiveVars
  PROVE  ChunkReachesPnl' /\ PassedDaysReachPnl'
<1>1. PassedDaysReachPnl'
  <2>0. SUFFICES ASSUME NEW y \in Years, NEW d \in Passed(y)' \cap raw'[y]
                 PROVE Reaches(y, d)'
    BY DEF PassedDaysReachPnl, Reaches, Days
  <2>1. d \in raw[y]
    <3>1. SUFFICES ASSUME d \notin raw[y] PROVE FALSE
      OBVIOUS
    <3>2. stage \in {"sales", "ads"} /\ y = chunk.year /\ d \in Days(chunk)
      BY <3>1, RawIsOfTheChunk
    <3>3. d \in Passed(y)
      BY <3>2, NewlyPassed
    <3> QED BY <3>2, <3>3, CursorType DEF Passed, ChunkIsAhead, Walking, Cursor, Chunks, NoDate, Days, Types
  <2>2. CASE d \in Passed(y)
    BY <2>1, <2>2, ReachesStays DEF PassedDaysReachPnl, Reaches
  <2>3. CASE stage = "advance" /\ y = chunk.year /\ d = chunk.to
    <3>1. d \in Days(chunk)
      BY <2>3 DEF ChunkIsAhead, Walking, Chunks, Days
    <3> QED BY <2>1, <2>3, <3>1, ReachesStays DEF ChunkReachesPnl
  <2> QED BY <2>2, <2>3, NewlyPassed
<1>2. ChunkReachesPnl'
  <2>0. SUFFICES ASSUME stage' = "advance", NEW y, y = chunk'.year, NEW d \in Days(chunk)' \cap raw'[y]
                 PROVE Reaches(y, d)'
    BY DEF ChunkReachesPnl, Reaches, Days
  <2>1. CASE StepChecksCoverage
    BY <2>0, <2>1 DEF StepChecksCoverage, data, archiveHistory, Reaches, Days
  <2>2. CASE StepEnqueuesRecalc
    BY <2>0, <2>2 DEF StepEnqueuesRecalc, Reaches, Days
  <2>3. CASE ~StepChecksCoverage /\ ~StepEnqueuesRecalc
    <3>1. stage = "advance" /\ UNCHANGED chunk
      BY <2>0, <2>3 DEF ArchiveNext, ArchiveStep, archiveVars, KickYear, ManagerKicks, StepCompletes, StepStarts, SalesAnswered,
         SalesSwallowed, AdsDone, StepAdvances, StepSavesYear, StepAborts, Recalculate, RecalculateFails
    <3>2. y = chunk.year /\ y \in Years /\ d \in Days(chunk)
      BY <2>0, <3>1 DEF ChunkIsAhead, Walking, Days
    <3>3. d \in raw[y]
      BY <2>0, <3>1, <3>2, RawIsOfTheChunk
    <3>4. Reaches(y, d)
      BY <3>1, <3>2, <3>3 DEF ChunkReachesPnl
    <3> QED BY <3>2, <3>3, <3>4, ReachesStays
  <2> QED BY <2>1, <2>2, <2>3
<1> QED BY <1>1, <1>2

(* The archive begins with nothing passed and nothing under way.              *)
LEMMA BackfillInit == ArchiveInit => BackfillInv
<1> SUFFICES ASSUME ArchiveInit PROVE BackfillInv
  OBVIOUS
<1>1. Types
  <2>1. ArchiveTypeOK
    <3>1. asked \in Years \cup {NoYear} /\ halted \in BOOLEAN /\ stage = "idle"
      BY DEF ArchiveInit
    <3>2. yearStatus \in [Years -> {"idle", "running", "complete"}]
      BY DEF ArchiveInit
    <3>3. \A y \in Years : last[y] = 0 /\ raw[y] = {} /\ pnl[y] = {}
      BY DEF ArchiveInit, NoDate
    <3>4. \A y \in Years : 0 \in 0..Through[y]
      BY YearAssumption
    <3>5. recalcs = {} /\ archiveFaults = 0 /\ kicks = 0
      BY DEF ArchiveInit
    <3>6. 0 \in 0..MaxArchiveFaults /\ 0 \in 0..MaxKicks
      BY YearAssumption
    <3> QED BY <3>1, <3>2, <3>3, <3>4, <3>5, <3>6 DEF ArchiveTypeOK
  <2>2. last \in [Years -> Nat] /\ recalcs \subseteq Chunks
    BY DEF ArchiveInit, NoDate
  <2>3. \A f \in {raw, pnl, lost, answered, unshown} : f = [y \in Years |-> {}]
    BY DEF ArchiveInit
  <2>4. [y \in Years |-> {}] \in [Years -> SUBSET Int]
    OBVIOUS
  <2>5. {raw, pnl, lost, answered, unshown} \subseteq [Years -> SUBSET Int]
    BY <2>3, <2>4
  <2> QED BY <2>1, <2>2, <2>5 DEF Types
<1>2. ChunkIsAhead /\ ChunkIsServed /\ ChunkReachesPnl
  BY DEF ArchiveInit, ChunkIsAhead, ChunkIsServed, ChunkReachesPnl, Walking
<1>3. PassedDaysWereServed /\ PassedDaysReachPnl
  BY DEF ArchiveInit, PassedDaysWereServed, PassedDaysReachPnl, Passed, NoDate
<1> QED BY <1>1, <1>2, <1>3 DEF BackfillInv

(* The archive keeps its invariant, whatever fails and whenever users ask.    *)
THEOREM BackfillHolds == ArchiveSpec => []BackfillInv
<1>1. BackfillInv /\ [ArchiveNext]_archiveVars => BackfillInv'
  BY TypeStep, ServedStep, ShownStep DEF BackfillInv
<1> QED BY BackfillInit, <1>1, PTL DEF ArchiveSpec

(* The types, with every row of the report made of raw rows.                  *)
THEOREM ArchiveTypeCorrect == ArchiveSpec => []ArchiveTypeOK
BY BackfillHolds, PTL DEF BackfillInv, Types

(* No day is passed that WB was not asked for (tasks.py 1264-1271).           *)
THEOREM NoDayIsSkipped == ArchiveSpec => []PassedDaysWereServed
BY BackfillHolds, PTL DEF BackfillInv

(* What was loaded reaches the report, or its recalculation has failed.       *)
THEOREM LoadedDaysAreShown == ArchiveSpec => []PassedDaysReachPnl
BY BackfillHolds, PTL DEF BackfillInv
================================================================================
