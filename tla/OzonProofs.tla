------------------------------- MODULE OzonProofs -------------------------------
(******************************************************************************)
(* The Ozon half: the runs that load an owner's days, for any number of runs, *)
(* workers, days, requests and faults, and the ledger of a day with what is   *)
(* shown of it, for any accruals.                                             *)
(******************************************************************************)
EXTENDS OzonSync, OzonReport, OzonLedgerProofs

--------------------------------------------------------------------------------
(* The runs.  The types come first, then the lock, which needs nothing else,  *)
(* then the runs, which need the lock.                                        *)

(* A task has a run, and a day that is fetched is one of the run's days.      *)
TaskHasRun == \A w \in Workers : pc[w] # "idle" => mine[w] \in Run
FetchesADay == \A w \in Workers : pc[w] \in {"fetching", "saving"} => day[w] \in Day
TypeInv == TypeOK /\ TaskHasRun /\ FetchesADay

(* The calls that are not runs, and what is proposed.                         *)
CallSet == Runs \cup {Nothing, Resume, Save, SetCost}

(* The chunk and the recent days that are proposed are runs.                  *)
LEMMA ProposedType ==
  ASSUME TypeOK
  PROVE  /\ NextChunk \in Runs \cup {Nothing}
         /\ RecentDays \in Runs
<1>1. through \in 1..MaxDay /\ MaxDay \in Nat /\ Chunk \in Nat \ {0} /\ Recent \in Nat \ {0}
  BY OzonAssumption DEF TypeOK, DaysType, Day
<1>2. FirstChunk \in Runs
  BY <1>1 DEF FirstChunk, Request, Runs, Day, Min2
<1>3. RecentDays \in Runs
  BY <1>1 DEF RecentDays, Request, Runs, Day, Max2
<1>4. ASSUME latest # NoRun PROVE request[latest] \in Runs /\ request[latest].to \in 1..MaxDay
  BY <1>4 DEF TypeOK, RunsType, Runs, Day
<1>5. ASSUME NEW d \in 1..MaxDay, d < through PROVE ChunkAfter(d) \in Runs
  BY <1>1, <1>5 DEF ChunkAfter, Request, Runs, Day, Min2
<1>6. NextChunk \in Runs \cup {Nothing}
  <2>1. CASE latest = NoRun
    BY <2>1, <1>2 DEF NextChunk
  <2>2. CASE latest # NoRun
    <3>1. request[latest].to >= through \/ ChunkAfter(request[latest].to) \in Runs
      BY <2>2, <1>1, <1>4, <1>5
    <3> QED BY <2>2, <1>4, <3>1 DEF NextChunk
  <2> QED BY <2>1, <2>2
<1> QED BY <1>3, <1>6

(* What an owner asks for is a run.                                           *)
LEMMA ManualType == Manual \subseteq Runs
BY ManualAssumption

(* What a call falls back on when it cannot be made is a run, or nothing.     *)
LEMMA FallbackType ==
  ASSUME TypeOK, NEW p, NEW asked
  PROVE  Fallback(p, asked) \in Runs \cup {Nothing}
BY ProposedType DEF Fallback

(* A run ends complete, partial or failed.                                    *)
LEMMA OutcomeType ==
  ASSUME NEW w PROVE Outcome(w) \in {"complete", "partial", "failed"}
BY DEF Outcome

(* The days that steps compute from typed ones are days.                      *)
LEMMA DayFacts ==
  ASSUME TypeOK
  PROVE  /\ 1 \in 1..MaxDay + 1 /\ Day \subseteq 1..MaxDay + 1
         /\ \A d \in Day : d + 1 \in 1..MaxDay + 1
         /\ \A n \in 1..MaxDay + 1, d \in Day : n <= d => n \in Day
         /\ \A r \in Run : request[r].from \in Day /\ request[r].to \in Day
         /\ Min2(through + 1, MaxDay) \in Day
         /\ \A d \in Day : Max2(done, d) \in 0..MaxDay
<1>1. /\ MaxDay \in Nat \ {0} /\ through \in Day /\ done \in 0..MaxDay
      /\ request \in [Run -> Runs]
  BY OzonAssumption DEF TypeOK, DaysType, RunsType
<1>2. \A r \in Run : request[r].from \in Day /\ request[r].to \in Day
  BY <1>1 DEF Runs
<1> QED BY <1>1, <1>2 DEF Day, Min2, Max2

(* Counting a request or a fault below its bound keeps its type.              *)
LEMMA CountType ==
  ASSUME TypeOK
  PROVE  /\ Fault => faults' \in 0..MaxFaults
         /\ requests < MaxRequests => requests + 1 \in 0..MaxRequests
BY OzonAssumption DEF Fault, TypeOK, DaysType

(* Every step keeps the types of the calls and the lock.                      *)
LEMMA CallStep ==
  ASSUME TypeOK, [Next]_vars
  PROVE  CallType'
<1> USE DEF TypeOK, CallType, Process, calendar, runs, broker, task, days, bounds
<1>1. ASSUME Owner PROVE CallType'
  BY <1>1, ManualType DEF Owner, Ask
<1>2. ASSUME DailyRefresh PROVE CallType'
  BY <1>2 DEF DailyRefresh
<1>3. ASSUME TwoHoursPass PROVE CallType'
  BY <1>3 DEF TwoHoursPass, Fault
<1>4. ASSUME NextDay PROVE CallType'
  BY <1>4 DEF NextDay, Fault
<1>5. ASSUME NEW p \in Process, Propose(p) PROVE CallType'
  BY <1>5, ProposedType, FallbackType DEF Propose
<1>6. ASSUME NEW p \in Process, GetLock(p) PROVE CallType'
  BY <1>6 DEF GetLock, NeedsLock
<1>7. ASSUME NEW p \in Process, Refuse(p) PROVE CallType'
  BY <1>7, FallbackType DEF Refuse, NeedsLock, Returns
<1>8. ASSUME NEW p \in Process, RetireStale(p) PROVE CallType'
  BY <1>8 DEF RetireStale, NeedsLock
<1>9. ASSUME NEW p \in Process, ConnectionSaved(p) PROVE CallType'
  BY <1>9 DEF ConnectionSaved, Returns
<1>10. ASSUME NEW p \in Process, CostSaved(p) PROVE CallType'
  BY <1>10 DEF CostSaved, Returns
<1>11. ASSUME NEW p \in Process, NEW r \in Run, Enqueue(p, r) PROVE CallType'
  BY <1>11 DEF Enqueue, Insert, Fresh, Returns, NeedsLock
<1>12. ASSUME NEW p \in Process, CallerCrashes(p) PROVE CallType'
  BY <1>12 DEF CallerCrashes, Returns, Fault
<1>13. ASSUME NEW r \in Run, Publish(r) PROVE CallType'
  BY <1>13 DEF Publish
<1>14. ASSUME NEW r \in Run, PublishReaches(r) PROVE CallType'
  BY <1>14 DEF PublishReaches, Fault
<1>15. ASSUME NEW r \in Run, PublishFails(r) PROVE CallType'
  BY <1>15 DEF PublishFails, Fault
<1>16. ASSUME NEW r \in Run, DispatcherDies(r) PROVE CallType'
  BY <1>16 DEF DispatcherDies, Fault
<1>17. ASSUME NEW r \in Run, LoseMessage(r) PROVE CallType'
  BY <1>17 DEF LoseMessage, Fault
<1>18. ASSUME NEW w \in Workers, TryLock(w) PROVE CallType'
  BY <1>18 DEF TryLock, Goto
<1>19. ASSUME NEW w \in Workers, Begin(w) PROVE CallType'
  BY <1>19 DEF Begin, Goto
<1>20. ASSUME NEW w \in Workers, DayBegins(w) PROVE CallType'
  BY <1>20 DEF DayBegins, Goto
<1>21. ASSUME NEW w \in Workers, CostsRead(w) PROVE CallType'
  BY <1>21 DEF CostsRead, Goto
<1>22. ASSUME NEW w \in Workers, DayLoads(w) PROVE CallType'
  BY <1>22 DEF DayLoads, DayEnds
<1>23. ASSUME NEW w \in Workers, FinishRun(w) PROVE CallType'
  BY <1>23 DEF FinishRun, Goto, Leave
<1>24. ASSUME NEW w \in Workers, Chain(w) PROVE CallType'
  BY <1>24 DEF Chain, Goto
<1>25. ASSUME NEW w \in Workers, DayFails(w) PROVE CallType'
  BY <1>25 DEF DayFails, DayEnds, Fault
<1>26. ASSUME NEW w \in Workers, RunBreaks(w) PROVE CallType'
  BY <1>26 DEF RunBreaks, Leave, Fault, InRun
<1>27. ASSUME NEW w \in Workers, WorkerCrashes(w) PROVE CallType'
  BY <1>27 DEF WorkerCrashes, Leave, Fault
<1>28. ASSUME NEW w \in Workers, NEW r \in Run, NEW again \in BOOLEAN, Receive(w, r, again)
      PROVE  CallType'
  BY <1>28 DEF Receive, Goto, Fault
<1>29. ASSUME UNCHANGED vars PROVE CallType'
  BY <1>29 DEF vars
<1> QED
  BY <1>1, <1>2, <1>3, <1>4, <1>5, <1>6, <1>7, <1>8, <1>9, <1>10, <1>11,
       <1>12, <1>13, <1>14, <1>15, <1>16, <1>17, <1>18, <1>19, <1>20,
       <1>21, <1>22, <1>23, <1>24, <1>25, <1>26, <1>27, <1>28, <1>29
  DEF Next, Calls, Works, Breaks, Broker

(* Every step keeps the types of the runs and their messages.                 *)
LEMMA RunsStep ==
  ASSUME TypeInv, [Next]_vars
  PROVE  RunsType'
<1> USE DEF TypeInv, TypeOK, RunsType, TaskType, TaskHasRun, ActiveRuns, Active,
     Finished, calendar, runs, broker, task, days, bounds
<1>1. ASSUME Owner PROVE RunsType'
  BY <1>1 DEF Owner, Ask
<1>2. ASSUME DailyRefresh PROVE RunsType'
  BY <1>2 DEF DailyRefresh
<1>3. ASSUME TwoHoursPass PROVE RunsType'
  BY <1>3 DEF TwoHoursPass, Fault
<1>4. ASSUME NextDay PROVE RunsType'
  BY <1>4 DEF NextDay, Fault
<1>5. ASSUME NEW p \in Process, Propose(p) PROVE RunsType'
  BY <1>5 DEF Propose
<1>6. ASSUME NEW p \in Process, GetLock(p) PROVE RunsType'
  BY <1>6 DEF GetLock, NeedsLock
<1>7. ASSUME NEW p \in Process, Refuse(p) PROVE RunsType'
  BY <1>7 DEF Refuse, NeedsLock, Returns
<1>8. ASSUME NEW p \in Process, RetireStale(p) PROVE RunsType'
  BY <1>8 DEF RetireStale, NeedsLock
<1>9. ASSUME NEW p \in Process, ConnectionSaved(p) PROVE RunsType'
  BY <1>9 DEF ConnectionSaved, Returns
<1>10. ASSUME NEW p \in Process, CostSaved(p) PROVE RunsType'
  BY <1>10 DEF CostSaved, Returns
<1>11. ASSUME NEW p \in Process, NEW r \in Run, Enqueue(p, r) PROVE RunsType'
  BY <1>11 DEF Enqueue, Insert, Fresh, Returns, NeedsLock
<1>12. ASSUME NEW p \in Process, CallerCrashes(p) PROVE RunsType'
  BY <1>12 DEF CallerCrashes, Returns, Fault
<1>13. ASSUME NEW r \in Run, Publish(r) PROVE RunsType'
  BY <1>13 DEF Publish
<1>14. ASSUME NEW r \in Run, PublishReaches(r) PROVE RunsType'
  BY <1>14 DEF PublishReaches, Fault
<1>15. ASSUME NEW r \in Run, PublishFails(r) PROVE RunsType'
  BY <1>15 DEF PublishFails, Fault
<1>16. ASSUME NEW r \in Run, DispatcherDies(r) PROVE RunsType'
  BY <1>16 DEF DispatcherDies, Fault
<1>17. ASSUME NEW r \in Run, LoseMessage(r) PROVE RunsType'
  BY <1>17 DEF LoseMessage, Fault
<1>18. ASSUME NEW w \in Workers, TryLock(w) PROVE RunsType'
  BY <1>18 DEF TryLock, Goto
<1>19. ASSUME NEW w \in Workers, Begin(w) PROVE RunsType'
  BY <1>19 DEF Begin, Goto
<1>20. ASSUME NEW w \in Workers, DayBegins(w) PROVE RunsType'
  BY <1>20 DEF DayBegins, Goto
<1>21. ASSUME NEW w \in Workers, CostsRead(w) PROVE RunsType'
  BY <1>21 DEF CostsRead, Goto
<1>22. ASSUME NEW w \in Workers, DayLoads(w) PROVE RunsType'
  BY <1>22 DEF DayLoads, DayEnds
<1>23. ASSUME NEW w \in Workers, FinishRun(w) PROVE RunsType'
  BY <1>23, OutcomeType DEF FinishRun, Goto, Leave
<1>24. ASSUME NEW w \in Workers, Chain(w) PROVE RunsType'
  BY <1>24 DEF Chain, Goto
<1>25. ASSUME NEW w \in Workers, DayFails(w) PROVE RunsType'
  BY <1>25 DEF DayFails, DayEnds, Fault
<1>26. ASSUME NEW w \in Workers, RunBreaks(w) PROVE RunsType'
  BY <1>26 DEF RunBreaks, Leave, Fault, InRun
<1>27. ASSUME NEW w \in Workers, WorkerCrashes(w) PROVE RunsType'
  BY <1>27 DEF WorkerCrashes, Leave, Fault
<1>28. ASSUME NEW w \in Workers, NEW r \in Run, NEW again \in BOOLEAN, Receive(w, r, again)
      PROVE  RunsType'
  BY <1>28 DEF Receive, Goto, Fault
<1>29. ASSUME UNCHANGED vars PROVE RunsType'
  BY <1>29 DEF vars
<1> QED
  BY <1>1, <1>2, <1>3, <1>4, <1>5, <1>6, <1>7, <1>8, <1>9, <1>10, <1>11,
       <1>12, <1>13, <1>14, <1>15, <1>16, <1>17, <1>18, <1>19, <1>20,
       <1>21, <1>22, <1>23, <1>24, <1>25, <1>26, <1>27, <1>28, <1>29
  DEF Next, Calls, Works, Breaks, Broker

(* Every step keeps the types of the tasks.                                   *)
LEMMA TaskStep ==
  ASSUME TypeInv, [Next]_vars
  PROVE  (TaskType /\ TaskHasRun /\ FetchesADay)'
<1> USE DEF TypeInv, TypeOK, TaskType, TaskHasRun, FetchesADay, calendar, runs, broker,
     task, days, bounds
<1>1. ASSUME Owner PROVE (TaskType /\ TaskHasRun /\ FetchesADay)'
  BY <1>1 DEF Owner, Ask
<1>2. ASSUME DailyRefresh PROVE (TaskType /\ TaskHasRun /\ FetchesADay)'
  BY <1>2 DEF DailyRefresh
<1>3. ASSUME TwoHoursPass PROVE (TaskType /\ TaskHasRun /\ FetchesADay)'
  BY <1>3 DEF TwoHoursPass, Fault
<1>4. ASSUME NextDay PROVE (TaskType /\ TaskHasRun /\ FetchesADay)'
  BY <1>4 DEF NextDay, Fault
<1>5. ASSUME NEW p \in Process, Propose(p)
      PROVE  (TaskType /\ TaskHasRun /\ FetchesADay)'
  BY <1>5 DEF Propose
<1>6. ASSUME NEW p \in Process, GetLock(p)
      PROVE  (TaskType /\ TaskHasRun /\ FetchesADay)'
  BY <1>6 DEF GetLock, NeedsLock
<1>7. ASSUME NEW p \in Process, Refuse(p)
      PROVE  (TaskType /\ TaskHasRun /\ FetchesADay)'
  BY <1>7 DEF Refuse, NeedsLock, Returns
<1>8. ASSUME NEW p \in Process, RetireStale(p)
      PROVE  (TaskType /\ TaskHasRun /\ FetchesADay)'
  BY <1>8 DEF RetireStale, NeedsLock
<1>9. ASSUME NEW p \in Process, ConnectionSaved(p)
      PROVE  (TaskType /\ TaskHasRun /\ FetchesADay)'
  BY <1>9 DEF ConnectionSaved, Returns
<1>10. ASSUME NEW p \in Process, CostSaved(p)
      PROVE  (TaskType /\ TaskHasRun /\ FetchesADay)'
  BY <1>10 DEF CostSaved, Returns
<1>11. ASSUME NEW p \in Process, NEW r \in Run, Enqueue(p, r)
      PROVE  (TaskType /\ TaskHasRun /\ FetchesADay)'
  BY <1>11 DEF Enqueue, Insert, Fresh, Returns, NeedsLock
<1>12. ASSUME NEW p \in Process, CallerCrashes(p)
      PROVE  (TaskType /\ TaskHasRun /\ FetchesADay)'
  BY <1>12 DEF CallerCrashes, Returns, Fault
<1>13. ASSUME NEW r \in Run, Publish(r)
      PROVE  (TaskType /\ TaskHasRun /\ FetchesADay)'
  BY <1>13 DEF Publish
<1>14. ASSUME NEW r \in Run, PublishReaches(r)
      PROVE  (TaskType /\ TaskHasRun /\ FetchesADay)'
  BY <1>14 DEF PublishReaches, Fault
<1>15. ASSUME NEW r \in Run, PublishFails(r)
      PROVE  (TaskType /\ TaskHasRun /\ FetchesADay)'
  BY <1>15 DEF PublishFails, Fault
<1>16. ASSUME NEW r \in Run, DispatcherDies(r)
      PROVE  (TaskType /\ TaskHasRun /\ FetchesADay)'
  BY <1>16 DEF DispatcherDies, Fault
<1>17. ASSUME NEW r \in Run, LoseMessage(r)
      PROVE  (TaskType /\ TaskHasRun /\ FetchesADay)'
  BY <1>17 DEF LoseMessage, Fault
<1>18. ASSUME NEW w \in Workers, TryLock(w)
      PROVE  (TaskType /\ TaskHasRun /\ FetchesADay)'
  BY <1>18 DEF TryLock, Goto
<1>19. ASSUME NEW w \in Workers, Begin(w)
      PROVE  (TaskType /\ TaskHasRun /\ FetchesADay)'
  BY <1>19, DayFacts DEF Begin, Goto
<1>20. ASSUME NEW w \in Workers, DayBegins(w)
      PROVE  (TaskType /\ TaskHasRun /\ FetchesADay)'
  BY <1>20, DayFacts DEF DayBegins, Goto
<1>21. ASSUME NEW w \in Workers, CostsRead(w)
      PROVE  (TaskType /\ TaskHasRun /\ FetchesADay)'
  BY <1>21 DEF CostsRead, Goto, DaysType
<1>22. ASSUME NEW w \in Workers, DayLoads(w)
      PROVE  (TaskType /\ TaskHasRun /\ FetchesADay)'
  BY <1>22, DayFacts DEF DayLoads, DayEnds
<1>23. ASSUME NEW w \in Workers, FinishRun(w)
      PROVE  (TaskType /\ TaskHasRun /\ FetchesADay)'
  BY <1>23, DayFacts DEF FinishRun, Goto, Leave
<1>24. ASSUME NEW w \in Workers, Chain(w)
      PROVE  (TaskType /\ TaskHasRun /\ FetchesADay)'
  BY <1>24 DEF Chain, Goto
<1>25. ASSUME NEW w \in Workers, DayFails(w)
      PROVE  (TaskType /\ TaskHasRun /\ FetchesADay)'
  BY <1>25, DayFacts DEF DayFails, DayEnds, Fault
<1>26. ASSUME NEW w \in Workers, RunBreaks(w)
      PROVE  (TaskType /\ TaskHasRun /\ FetchesADay)'
  BY <1>26, DayFacts DEF RunBreaks, Leave, Fault, InRun
<1>27. ASSUME NEW w \in Workers, WorkerCrashes(w)
      PROVE  (TaskType /\ TaskHasRun /\ FetchesADay)'
  BY <1>27, DayFacts DEF WorkerCrashes, Leave, Fault
<1>28. ASSUME NEW w \in Workers, NEW r \in Run, NEW again \in BOOLEAN, Receive(w, r, again)
      PROVE  (TaskType /\ TaskHasRun /\ FetchesADay)'
  BY <1>28 DEF Receive, Goto, Fault
<1>29. ASSUME UNCHANGED vars PROVE (TaskType /\ TaskHasRun /\ FetchesADay)'
  BY <1>29 DEF vars
<1> QED
  BY <1>1, <1>2, <1>3, <1>4, <1>5, <1>6, <1>7, <1>8, <1>9, <1>10, <1>11,
       <1>12, <1>13, <1>14, <1>15, <1>16, <1>17, <1>18, <1>19, <1>20,
       <1>21, <1>22, <1>23, <1>24, <1>25, <1>26, <1>27, <1>28, <1>29
  DEF Next, Calls, Works, Breaks, Broker

(* Every step keeps the types of the days and the bounds.                     *)
LEMMA DaysStep ==
  ASSUME TypeInv, [Next]_vars
  PROVE  DaysType'
<1> USE DEF TypeInv, TypeOK, DaysType, TaskType, TaskHasRun, FetchesADay, calendar,
     runs, broker, task, days, bounds
<1>1. ASSUME Owner PROVE DaysType'
  BY <1>1, CountType DEF Owner, Ask
<1>2. ASSUME DailyRefresh PROVE DaysType'
  BY <1>2 DEF DailyRefresh
<1>3. ASSUME TwoHoursPass PROVE DaysType'
  BY <1>3, CountType DEF TwoHoursPass, Fault
<1>4. ASSUME NextDay PROVE DaysType'
  BY <1>4, CountType, DayFacts DEF NextDay, Fault
<1>5. ASSUME NEW p \in Process, Propose(p) PROVE DaysType'
  BY <1>5 DEF Propose
<1>6. ASSUME NEW p \in Process, GetLock(p) PROVE DaysType'
  BY <1>6 DEF GetLock, NeedsLock
<1>7. ASSUME NEW p \in Process, Refuse(p) PROVE DaysType'
  BY <1>7 DEF Refuse, NeedsLock, Returns
<1>8. ASSUME NEW p \in Process, RetireStale(p) PROVE DaysType'
  BY <1>8 DEF RetireStale, NeedsLock
<1>9. ASSUME NEW p \in Process, ConnectionSaved(p) PROVE DaysType'
  BY <1>9 DEF ConnectionSaved, Returns
<1>10. ASSUME NEW p \in Process, CostSaved(p) PROVE DaysType'
  BY <1>10 DEF CostSaved, Returns
<1>11. ASSUME NEW p \in Process, NEW r \in Run, Enqueue(p, r) PROVE DaysType'
  BY <1>11 DEF Enqueue, Insert, Fresh, Returns, NeedsLock
<1>12. ASSUME NEW p \in Process, CallerCrashes(p) PROVE DaysType'
  BY <1>12, CountType DEF CallerCrashes, Returns, Fault
<1>13. ASSUME NEW r \in Run, Publish(r) PROVE DaysType'
  BY <1>13 DEF Publish
<1>14. ASSUME NEW r \in Run, PublishReaches(r) PROVE DaysType'
  BY <1>14, CountType DEF PublishReaches, Fault
<1>15. ASSUME NEW r \in Run, PublishFails(r) PROVE DaysType'
  BY <1>15, CountType DEF PublishFails, Fault
<1>16. ASSUME NEW r \in Run, DispatcherDies(r) PROVE DaysType'
  BY <1>16, CountType DEF DispatcherDies, Fault
<1>17. ASSUME NEW r \in Run, LoseMessage(r) PROVE DaysType'
  BY <1>17, CountType DEF LoseMessage, Fault
<1>18. ASSUME NEW w \in Workers, TryLock(w) PROVE DaysType'
  BY <1>18 DEF TryLock, Goto
<1>19. ASSUME NEW w \in Workers, Begin(w) PROVE DaysType'
  BY <1>19 DEF Begin, Goto
<1>20. ASSUME NEW w \in Workers, DayBegins(w) PROVE DaysType'
  BY <1>20 DEF DayBegins, Goto
<1>21. ASSUME NEW w \in Workers, CostsRead(w) PROVE DaysType'
  BY <1>21 DEF CostsRead, Goto
<1>22. ASSUME NEW w \in Workers, DayLoads(w) PROVE DaysType'
  BY <1>22 DEF DayLoads, DayEnds
<1>23. ASSUME NEW w \in Workers, FinishRun(w) PROVE DaysType'
  BY <1>23, DayFacts, OutcomeType DEF FinishRun, Goto, Leave
<1>24. ASSUME NEW w \in Workers, Chain(w) PROVE DaysType'
  BY <1>24 DEF Chain, Goto
<1>25. ASSUME NEW w \in Workers, DayFails(w) PROVE DaysType'
  BY <1>25, CountType DEF DayFails, DayEnds, Fault
<1>26. ASSUME NEW w \in Workers, RunBreaks(w) PROVE DaysType'
  BY <1>26, CountType DEF RunBreaks, Leave, Fault, InRun
<1>27. ASSUME NEW w \in Workers, WorkerCrashes(w) PROVE DaysType'
  BY <1>27, CountType DEF WorkerCrashes, Leave, Fault
<1>28. ASSUME NEW w \in Workers, NEW r \in Run, NEW again \in BOOLEAN, Receive(w, r, again)
      PROVE  DaysType'
  BY <1>28, CountType DEF Receive, Goto, Fault
<1>29. ASSUME UNCHANGED vars PROVE DaysType'
  BY <1>29 DEF vars
<1> QED
  BY <1>1, <1>2, <1>3, <1>4, <1>5, <1>6, <1>7, <1>8, <1>9, <1>10, <1>11,
       <1>12, <1>13, <1>14, <1>15, <1>16, <1>17, <1>18, <1>19, <1>20,
       <1>21, <1>22, <1>23, <1>24, <1>25, <1>26, <1>27, <1>28, <1>29
  DEF Next, Calls, Works, Breaks, Broker

(* The first state is typed.                                                  *)
LEMMA TypeInit == Init => TypeInv
<1> SUFFICES ASSUME Init PROVE TypeInv
  OBVIOUS
<1> USE OzonAssumption
<1>1. CallType
  BY DEF Init, CallType, Process
<1>2. RunsType
  BY DEF Init, RunsType, Runs, Unused, Request, Day, ActiveRuns, Active
<1>3. TaskType /\ TaskHasRun /\ FetchesADay
  BY DEF Init, TaskType, TaskHasRun, FetchesADay
<1>4. DaysType
  <2>1. 1 \in Day /\ 0 \in 0..MaxDay /\ 0 \in 0..MaxRequests /\ 0 \in 0..MaxFaults /\ 0 \in 0..1
    BY DEF Day
  <2> QED BY <2>1 DEF Init, DaysType
<1> QED BY <1>1, <1>2, <1>3, <1>4 DEF TypeInv, TypeOK

(* Every step keeps the types.                                                *)
LEMMA TypeStep == TypeInv /\ [Next]_vars => TypeInv'
<1> SUFFICES ASSUME TypeInv, [Next]_vars PROVE TypeInv'
  OBVIOUS
<1> QED BY CallStep, RunsStep, TaskStep, DaysStep DEF TypeInv, TypeOK

--------------------------------------------------------------------------------
(* A worker inside a run holds the owner's lock, and a worker that makes a    *)
(* call of its own, which may take and give back the lock, has no task.       *)
RunNeedsLock == \A w \in Workers : InRun(w) => lock = w
CallerHasNoTask == \A w \in Workers : want[w] # Nothing => pc[w] = "idle"
LockInv == RunNeedsLock /\ CallerHasNoTask

(* The calls that are not runs differ from no call.                           *)
LEMMA CallIsCall == Nothing # Resume /\ Nothing # Save /\ Nothing # SetCost
BY DEF Nothing, Resume, Save, SetCost, Request

(* Every step keeps RunNeedsLock and CallerHasNoTask.                         *)
LEMMA LockStep ==
  ASSUME TypeInv, LockInv, [Next]_vars
  PROVE  LockInv'
<1> USE DEF TypeInv, TypeOK, CallType, TaskType, LockInv, RunNeedsLock, CallerHasNoTask,
     InRun, Process, calendar, runs, broker, task, days, bounds
<1>1. ASSUME Owner PROVE LockInv'
  BY <1>1, OzonAssumption DEF Owner, Ask
<1>2. ASSUME DailyRefresh PROVE LockInv'
  BY <1>2, OzonAssumption DEF DailyRefresh
<1>3. ASSUME TwoHoursPass PROVE LockInv'
  BY <1>3 DEF TwoHoursPass, Fault
<1>4. ASSUME NextDay PROVE LockInv'
  BY <1>4 DEF NextDay, Fault
<1>5. ASSUME NEW p \in Process, Propose(p) PROVE LockInv'
  BY <1>5, CallIsCall DEF Propose
<1>6. ASSUME NEW p \in Process, GetLock(p) PROVE LockInv'
  BY <1>6, OzonAssumption DEF GetLock, NeedsLock
<1>7. ASSUME NEW p \in Process, Refuse(p) PROVE LockInv'
  BY <1>7 DEF Refuse, NeedsLock, Returns
<1>8. ASSUME NEW p \in Process, RetireStale(p) PROVE LockInv'
  BY <1>8 DEF RetireStale, NeedsLock
<1>9. ASSUME NEW p \in Process, ConnectionSaved(p) PROVE LockInv'
  BY <1>9, CallIsCall DEF ConnectionSaved, Returns
<1>10. ASSUME NEW p \in Process, CostSaved(p) PROVE LockInv'
  BY <1>10, CallIsCall DEF CostSaved, Returns
<1>11. ASSUME NEW p \in Process, NEW r \in Run, Enqueue(p, r) PROVE LockInv'
  BY <1>11 DEF Enqueue, Insert, Fresh, Returns, NeedsLock
<1>12. ASSUME NEW p \in Process, CallerCrashes(p) PROVE LockInv'
  BY <1>12, OzonAssumption DEF CallerCrashes, Returns, Fault
<1>13. ASSUME NEW r \in Run, Publish(r) PROVE LockInv'
  BY <1>13 DEF Publish
<1>14. ASSUME NEW r \in Run, PublishReaches(r) PROVE LockInv'
  BY <1>14 DEF PublishReaches, Fault
<1>15. ASSUME NEW r \in Run, PublishFails(r) PROVE LockInv'
  BY <1>15 DEF PublishFails, Fault
<1>16. ASSUME NEW r \in Run, DispatcherDies(r) PROVE LockInv'
  BY <1>16 DEF DispatcherDies, Fault
<1>17. ASSUME NEW r \in Run, LoseMessage(r) PROVE LockInv'
  BY <1>17 DEF LoseMessage, Fault
<1>18. ASSUME NEW w \in Workers, TryLock(w) PROVE LockInv'
  BY <1>18, OzonAssumption DEF TryLock, Goto
<1>19. ASSUME NEW w \in Workers, Begin(w) PROVE LockInv'
  BY <1>19 DEF Begin, Goto
<1>20. ASSUME NEW w \in Workers, DayBegins(w) PROVE LockInv'
  BY <1>20 DEF DayBegins, Goto
<1>21. ASSUME NEW w \in Workers, CostsRead(w) PROVE LockInv'
  BY <1>21 DEF CostsRead, Goto
<1>22. ASSUME NEW w \in Workers, DayLoads(w) PROVE LockInv'
  BY <1>22 DEF DayLoads, DayEnds
<1>23. ASSUME NEW w \in Workers, FinishRun(w) PROVE LockInv'
  BY <1>23 DEF FinishRun, Goto, Leave
<1>24. ASSUME NEW w \in Workers, Chain(w) PROVE LockInv'
  BY <1>24 DEF Chain, Goto
<1>25. ASSUME NEW w \in Workers, DayFails(w) PROVE LockInv'
  BY <1>25 DEF DayFails, DayEnds, Fault
<1>26. ASSUME NEW w \in Workers, RunBreaks(w) PROVE LockInv'
  BY <1>26 DEF RunBreaks, Leave, Fault, InRun
<1>27. ASSUME NEW w \in Workers, WorkerCrashes(w) PROVE LockInv'
  BY <1>27 DEF WorkerCrashes, Leave, Fault
<1>28. ASSUME NEW w \in Workers, NEW r \in Run, NEW again \in BOOLEAN, Receive(w, r, again)
      PROVE  LockInv'
  BY <1>28 DEF Receive, Goto, Fault
<1>29. ASSUME UNCHANGED vars PROVE LockInv'
  BY <1>29 DEF vars
<1> QED
  BY <1>1, <1>2, <1>3, <1>4, <1>5, <1>6, <1>7, <1>8, <1>9, <1>10, <1>11,
       <1>12, <1>13, <1>14, <1>15, <1>16, <1>17, <1>18, <1>19, <1>20,
       <1>21, <1>22, <1>23, <1>24, <1>25, <1>26, <1>27, <1>28, <1>29
  DEF Next, Calls, Works, Breaks, Broker

--------------------------------------------------------------------------------
(* What a worker takes up under the lock was not carried out before.          *)
BegunIsNotFinished ==
  \A w \in Workers : pc[w] = "begin" => status[mine[w]] \notin Finished
RunInv == OneActiveRun /\ BegunIsNotFinished

(* Every step keeps OneActiveRun and BegunIsNotFinished.                      *)
LEMMA RunStep ==
  ASSUME TypeInv, LockInv, RunInv, [Next]_vars
  PROVE  RunInv'
<1> USE DEF TypeInv, TypeOK, RunsType, TaskType, TaskHasRun, RunInv, OneActiveRun,
     BegunIsNotFinished, InRun, ActiveRuns, Active, Finished, calendar, runs, broker,
     task, days, bounds
<1>1. ASSUME Owner PROVE RunInv'
  BY <1>1 DEF Owner, Ask
<1>2. ASSUME DailyRefresh PROVE RunInv'
  BY <1>2 DEF DailyRefresh
<1>3. ASSUME TwoHoursPass PROVE RunInv'
  BY <1>3 DEF TwoHoursPass, Fault
<1>4. ASSUME NextDay PROVE RunInv'
  BY <1>4 DEF NextDay, Fault
<1>5. ASSUME NEW p \in Process, Propose(p) PROVE RunInv'
  BY <1>5 DEF Propose
<1>6. ASSUME NEW p \in Process, GetLock(p) PROVE RunInv'
  BY <1>6 DEF GetLock, NeedsLock
<1>7. ASSUME NEW p \in Process, Refuse(p) PROVE RunInv'
  BY <1>7 DEF Refuse, NeedsLock, Returns
<1>8. ASSUME NEW p \in Process, RetireStale(p) PROVE RunInv'
  BY <1>8 DEF RetireStale, NeedsLock
<1>9. ASSUME NEW p \in Process, ConnectionSaved(p) PROVE RunInv'
  BY <1>9 DEF ConnectionSaved, Returns
<1>10. ASSUME NEW p \in Process, CostSaved(p) PROVE RunInv'
  BY <1>10 DEF CostSaved, Returns
<1>11. ASSUME NEW p \in Process, NEW r \in Run, Enqueue(p, r) PROVE RunInv'
  <2>1. \A w \in Workers : ~InRun(w)
    BY <1>11, OzonAssumption
    DEF Enqueue, Insert, NeedsLock, LockInv, RunNeedsLock, CallerHasNoTask, CallType, Process
  <2> QED BY <1>11, <2>1 DEF Enqueue, Insert, Fresh
<1>12. ASSUME NEW p \in Process, CallerCrashes(p) PROVE RunInv'
  BY <1>12 DEF CallerCrashes, Returns, Fault
<1>13. ASSUME NEW r \in Run, Publish(r) PROVE RunInv'
  BY <1>13 DEF Publish
<1>14. ASSUME NEW r \in Run, PublishReaches(r) PROVE RunInv'
  BY <1>14 DEF PublishReaches, Fault
<1>15. ASSUME NEW r \in Run, PublishFails(r) PROVE RunInv'
  BY <1>15 DEF PublishFails, Fault
<1>16. ASSUME NEW r \in Run, DispatcherDies(r) PROVE RunInv'
  BY <1>16 DEF DispatcherDies, Fault
<1>17. ASSUME NEW r \in Run, LoseMessage(r) PROVE RunInv'
  BY <1>17 DEF LoseMessage, Fault
<1>18. ASSUME NEW w \in Workers, TryLock(w) PROVE RunInv'
  <2>1. CASE lock = Nobody /\ status[mine[w]] \in Active
    <3>1. \A v \in Workers : InRun(v)' => v = w
      BY <1>18, <2>1, OzonAssumption DEF TryLock, Goto, LockInv, RunNeedsLock
    <3> QED BY <1>18, <2>1, <3>1 DEF TryLock, Goto
  <2>2. CASE ~(lock = Nobody /\ status[mine[w]] \in Active)
    BY <1>18, <2>2 DEF TryLock, Goto
  <2> QED BY <2>1, <2>2
<1>19. ASSUME NEW w \in Workers, Begin(w) PROVE RunInv'
  <2>1. \A v \in Workers : InRun(v) => v = w
    BY <1>19 DEF Begin, Goto, LockInv, RunNeedsLock
  <2>2. mine[w] \in Run /\ ActiveRuns \subseteq {mine[w]}
    BY <1>19 DEF Begin, Goto
  <2>3. ActiveRuns' \subseteq {mine[w]}
    BY <1>19, <2>2 DEF Begin
  <2>4. \A v \in Workers : InRun(v)' => v = w /\ pc'[v] = "day"
    BY <1>19, <2>1 DEF Begin, Goto
  <2> QED BY <1>19, <2>3, <2>4 DEF Begin
<1>20. ASSUME NEW w \in Workers, DayBegins(w) PROVE RunInv'
  BY <1>20 DEF DayBegins, Goto
<1>21. ASSUME NEW w \in Workers, CostsRead(w) PROVE RunInv'
  BY <1>21 DEF CostsRead, Goto
<1>22. ASSUME NEW w \in Workers, DayLoads(w) PROVE RunInv'
  BY <1>22 DEF DayLoads, DayEnds
<1>23. ASSUME NEW w \in Workers, FinishRun(w) PROVE RunInv'
  <2>1. Outcome(w) \notin Active
    BY OutcomeType
  <2>2. \A v \in Workers : InRun(v) => v = w
    BY <1>23 DEF FinishRun, Goto, LockInv, RunNeedsLock
  <2> QED BY <1>23, <2>1, <2>2 DEF FinishRun, Goto
<1>24. ASSUME NEW w \in Workers, Chain(w) PROVE RunInv'
  BY <1>24 DEF Chain, Goto
<1>25. ASSUME NEW w \in Workers, DayFails(w) PROVE RunInv'
  BY <1>25 DEF DayFails, DayEnds, Fault
<1>26. ASSUME NEW w \in Workers, RunBreaks(w) PROVE RunInv'
  BY <1>26 DEF RunBreaks, Leave, Fault, InRun
<1>27. ASSUME NEW w \in Workers, WorkerCrashes(w) PROVE RunInv'
  BY <1>27 DEF WorkerCrashes, Leave, Fault
<1>28. ASSUME NEW w \in Workers, NEW r \in Run, NEW again \in BOOLEAN, Receive(w, r, again)
      PROVE  RunInv'
  BY <1>28 DEF Receive, Goto, Fault
<1>29. ASSUME UNCHANGED vars PROVE RunInv'
  BY <1>29 DEF vars
<1> QED
  BY <1>1, <1>2, <1>3, <1>4, <1>5, <1>6, <1>7, <1>8, <1>9, <1>10, <1>11,
       <1>12, <1>13, <1>14, <1>15, <1>16, <1>17, <1>18, <1>19, <1>20,
       <1>21, <1>22, <1>23, <1>24, <1>25, <1>26, <1>27, <1>28, <1>29
  DEF Next, Calls, Works, Breaks, Broker

--------------------------------------------------------------------------------
(* The costs a worker has read stay the owner's until it has saved its day:   *)
(* who changes them holds the lock.                                           *)
ReadCostsAreCurrent == \A w \in Workers : pc[w] = "saving" => seen[w] = cost
CostInv == SavedDaysUseCurrentCosts /\ ReadCostsAreCurrent

(* Every step keeps SavedDaysUseCurrentCosts and ReadCostsAreCurrent.         *)
LEMMA CostStep ==
  ASSUME TypeInv, LockInv, CostInv, [Next]_vars
  PROVE  CostInv'
<1> USE DEF TypeInv, TypeOK, TaskType, DaysType, FetchesADay, CostInv,
     SavedDaysUseCurrentCosts, ReadCostsAreCurrent, calendar, runs, broker, task, days,
     bounds
<1>1. ASSUME Owner PROVE CostInv'
  BY <1>1 DEF Owner, Ask
<1>2. ASSUME DailyRefresh PROVE CostInv'
  BY <1>2 DEF DailyRefresh
<1>3. ASSUME TwoHoursPass PROVE CostInv'
  BY <1>3 DEF TwoHoursPass, Fault
<1>4. ASSUME NextDay PROVE CostInv'
  BY <1>4 DEF NextDay, Fault
<1>5. ASSUME NEW p \in Process, Propose(p) PROVE CostInv'
  BY <1>5 DEF Propose
<1>6. ASSUME NEW p \in Process, GetLock(p) PROVE CostInv'
  BY <1>6 DEF GetLock, NeedsLock
<1>7. ASSUME NEW p \in Process, Refuse(p) PROVE CostInv'
  BY <1>7 DEF Refuse, NeedsLock, Returns
<1>8. ASSUME NEW p \in Process, RetireStale(p) PROVE CostInv'
  BY <1>8 DEF RetireStale, NeedsLock
<1>9. ASSUME NEW p \in Process, ConnectionSaved(p) PROVE CostInv'
  BY <1>9 DEF ConnectionSaved, Returns
<1>10. ASSUME NEW p \in Process, CostSaved(p) PROVE CostInv'
  <2>1. lock = p /\ want[p] = SetCost
    BY <1>10 DEF CostSaved
  <2>2. \A w \in Workers : pc[w] # "saving"
    BY <2>1, CallIsCall DEF LockInv, RunNeedsLock, CallerHasNoTask, InRun
  <2> QED BY <1>10, <2>2 DEF CostSaved
<1>11. ASSUME NEW p \in Process, NEW r \in Run, Enqueue(p, r) PROVE CostInv'
  BY <1>11 DEF Enqueue, Insert, Fresh, Returns, NeedsLock
<1>12. ASSUME NEW p \in Process, CallerCrashes(p) PROVE CostInv'
  BY <1>12 DEF CallerCrashes, Returns, Fault
<1>13. ASSUME NEW r \in Run, Publish(r) PROVE CostInv'
  BY <1>13 DEF Publish
<1>14. ASSUME NEW r \in Run, PublishReaches(r) PROVE CostInv'
  BY <1>14 DEF PublishReaches, Fault
<1>15. ASSUME NEW r \in Run, PublishFails(r) PROVE CostInv'
  BY <1>15 DEF PublishFails, Fault
<1>16. ASSUME NEW r \in Run, DispatcherDies(r) PROVE CostInv'
  BY <1>16 DEF DispatcherDies, Fault
<1>17. ASSUME NEW r \in Run, LoseMessage(r) PROVE CostInv'
  BY <1>17 DEF LoseMessage, Fault
<1>18. ASSUME NEW w \in Workers, TryLock(w) PROVE CostInv'
  BY <1>18 DEF TryLock, Goto
<1>19. ASSUME NEW w \in Workers, Begin(w) PROVE CostInv'
  BY <1>19 DEF Begin, Goto
<1>20. ASSUME NEW w \in Workers, DayBegins(w) PROVE CostInv'
  BY <1>20 DEF DayBegins, Goto
<1>21. ASSUME NEW w \in Workers, CostsRead(w) PROVE CostInv'
  BY <1>21 DEF CostsRead, Goto
<1>22. ASSUME NEW w \in Workers, DayLoads(w) PROVE CostInv'
  BY <1>22 DEF DayLoads, DayEnds
<1>23. ASSUME NEW w \in Workers, FinishRun(w) PROVE CostInv'
  BY <1>23 DEF FinishRun, Goto, Leave
<1>24. ASSUME NEW w \in Workers, Chain(w) PROVE CostInv'
  BY <1>24 DEF Chain, Goto
<1>25. ASSUME NEW w \in Workers, DayFails(w) PROVE CostInv'
  BY <1>25 DEF DayFails, DayEnds, Fault
<1>26. ASSUME NEW w \in Workers, RunBreaks(w) PROVE CostInv'
  BY <1>26 DEF RunBreaks, Leave, Fault, InRun
<1>27. ASSUME NEW w \in Workers, WorkerCrashes(w) PROVE CostInv'
  BY <1>27 DEF WorkerCrashes, Leave, Fault
<1>28. ASSUME NEW w \in Workers, NEW r \in Run, NEW again \in BOOLEAN, Receive(w, r, again)
      PROVE  CostInv'
  BY <1>28 DEF Receive, Goto, Fault
<1>29. ASSUME UNCHANGED vars PROVE CostInv'
  BY <1>29 DEF vars
<1> QED
  BY <1>1, <1>2, <1>3, <1>4, <1>5, <1>6, <1>7, <1>8, <1>9, <1>10, <1>11,
       <1>12, <1>13, <1>14, <1>15, <1>16, <1>17, <1>18, <1>19, <1>20,
       <1>21, <1>22, <1>23, <1>24, <1>25, <1>26, <1>27, <1>28, <1>29
  DEF Next, Calls, Works, Breaks, Broker

--------------------------------------------------------------------------------
(* The inductive invariant.                                                   *)
IInv == TypeInv /\ LockInv /\ RunInv /\ CostInv

(* The first state satisfies the invariant.                                   *)
LEMMA InitIInv == Init => IInv
<1> SUFFICES ASSUME Init PROVE IInv
  OBVIOUS
<1>1. TypeInv
  BY TypeInit
<1>2. LockInv
  BY DEF Init, LockInv, RunNeedsLock, CallerHasNoTask, InRun
<1>3. RunInv
  BY DEF Init, RunInv, OneActiveRun, BegunIsNotFinished, InRun, ActiveRuns, Active
<1>4. CostInv
  BY DEF Init, CostInv, SavedDaysUseCurrentCosts, ReadCostsAreCurrent
<1> QED BY <1>1, <1>2, <1>3, <1>4 DEF IInv

(* Every step preserves the invariant.                                        *)
LEMMA NextIInv == IInv /\ [Next]_vars => IInv'
BY TypeStep, LockStep, RunStep, CostStep DEF IInv

(* The invariant always holds.                                                *)
THEOREM Invariant == Spec => []IInv
BY InitIInv, NextIInv, PTL DEF Spec

(* Rows, messages, calls and tasks keep their types.                          *)
THEOREM TypeCorrect == Spec => []TypeOK
<1>1. IInv => TypeOK
  BY DEF IInv, TypeInv
<1> QED BY <1>1, Invariant, PTL

(* An owner has one active run, and nobody works beside it.                   *)
THEOREM OneRun == Spec => []OneActiveRun
BY Invariant, PTL DEF IInv, RunInv

(* Every saved day has the costs that are saved now.                          *)
THEOREM CurrentCosts == Spec => []SavedDaysUseCurrentCosts
BY Invariant, PTL DEF IInv, CostInv

(* A run that was carried out is not carried out again: only Begin makes a    *)
(* run "running", and BegunIsNotFinished.                                     *)
NotAgain ==
  \A r \in Run : status[r] \in Finished /\ status'[r] \in Active =>
                   status'[r] = "queued" /\ r \in unsent'

(* No step carries out a run again.                                           *)
LEMMA NotAgainStep ==
  ASSUME IInv, [Next]_vars
  PROVE  NotAgain
<1> USE DEF IInv, TypeInv, TypeOK, RunsType, TaskType, TaskHasRun, RunInv,
     BegunIsNotFinished, NotAgain, Active, Finished, ActiveRuns, calendar, runs, broker,
     task, days, bounds
<1>1. ASSUME Owner PROVE NotAgain
  BY <1>1 DEF Owner, Ask
<1>2. ASSUME DailyRefresh PROVE NotAgain
  BY <1>2 DEF DailyRefresh
<1>3. ASSUME TwoHoursPass PROVE NotAgain
  BY <1>3 DEF TwoHoursPass, Fault
<1>4. ASSUME NextDay PROVE NotAgain
  BY <1>4 DEF NextDay, Fault
<1>5. ASSUME NEW p \in Process, Propose(p) PROVE NotAgain
  BY <1>5 DEF Propose
<1>6. ASSUME NEW p \in Process, GetLock(p) PROVE NotAgain
  BY <1>6 DEF GetLock, NeedsLock
<1>7. ASSUME NEW p \in Process, Refuse(p) PROVE NotAgain
  BY <1>7 DEF Refuse, NeedsLock, Returns
<1>8. ASSUME NEW p \in Process, RetireStale(p) PROVE NotAgain
  BY <1>8 DEF RetireStale, NeedsLock
<1>9. ASSUME NEW p \in Process, ConnectionSaved(p) PROVE NotAgain
  BY <1>9 DEF ConnectionSaved, Returns
<1>10. ASSUME NEW p \in Process, CostSaved(p) PROVE NotAgain
  BY <1>10 DEF CostSaved, Returns
<1>11. ASSUME NEW p \in Process, NEW r \in Run, Enqueue(p, r) PROVE NotAgain
  BY <1>11 DEF Enqueue, Insert, Fresh, Returns, NeedsLock
<1>12. ASSUME NEW p \in Process, CallerCrashes(p) PROVE NotAgain
  BY <1>12 DEF CallerCrashes, Returns, Fault
<1>13. ASSUME NEW r \in Run, Publish(r) PROVE NotAgain
  BY <1>13 DEF Publish
<1>14. ASSUME NEW r \in Run, PublishReaches(r) PROVE NotAgain
  BY <1>14 DEF PublishReaches, Fault
<1>15. ASSUME NEW r \in Run, PublishFails(r) PROVE NotAgain
  BY <1>15 DEF PublishFails, Fault
<1>16. ASSUME NEW r \in Run, DispatcherDies(r) PROVE NotAgain
  BY <1>16 DEF DispatcherDies, Fault
<1>17. ASSUME NEW r \in Run, LoseMessage(r) PROVE NotAgain
  BY <1>17 DEF LoseMessage, Fault
<1>18. ASSUME NEW w \in Workers, TryLock(w) PROVE NotAgain
  BY <1>18 DEF TryLock, Goto
<1>19. ASSUME NEW w \in Workers, Begin(w) PROVE NotAgain
  BY <1>19 DEF Begin, Goto
<1>20. ASSUME NEW w \in Workers, DayBegins(w) PROVE NotAgain
  BY <1>20 DEF DayBegins, Goto
<1>21. ASSUME NEW w \in Workers, CostsRead(w) PROVE NotAgain
  BY <1>21 DEF CostsRead, Goto
<1>22. ASSUME NEW w \in Workers, DayLoads(w) PROVE NotAgain
  BY <1>22 DEF DayLoads, DayEnds
<1>23. ASSUME NEW w \in Workers, FinishRun(w) PROVE NotAgain
  BY <1>23, OutcomeType DEF FinishRun, Goto, Leave
<1>24. ASSUME NEW w \in Workers, Chain(w) PROVE NotAgain
  BY <1>24 DEF Chain, Goto
<1>25. ASSUME NEW w \in Workers, DayFails(w) PROVE NotAgain
  BY <1>25 DEF DayFails, DayEnds, Fault
<1>26. ASSUME NEW w \in Workers, RunBreaks(w) PROVE NotAgain
  BY <1>26 DEF RunBreaks, Leave, Fault, InRun
<1>27. ASSUME NEW w \in Workers, WorkerCrashes(w) PROVE NotAgain
  BY <1>27 DEF WorkerCrashes, Leave, Fault
<1>28. ASSUME NEW w \in Workers, NEW r \in Run, NEW again \in BOOLEAN, Receive(w, r, again)
      PROVE  NotAgain
  BY <1>28 DEF Receive, Goto, Fault
<1>29. ASSUME UNCHANGED vars PROVE NotAgain
  BY <1>29 DEF vars
<1> QED
  BY <1>1, <1>2, <1>3, <1>4, <1>5, <1>6, <1>7, <1>8, <1>9, <1>10, <1>11,
       <1>12, <1>13, <1>14, <1>15, <1>16, <1>17, <1>18, <1>19, <1>20,
       <1>21, <1>22, <1>23, <1>24, <1>25, <1>26, <1>27, <1>28, <1>29
  DEF Next, Calls, Works, Breaks, Broker

(* A run that was carried out never becomes active but as a new one.          *)
THEOREM DoneOnce == Spec => FinishedRunsStayFinished
<1>1. IInv /\ [Next]_vars => [NotAgain]_vars
  BY NotAgainStep
<1> QED BY <1>1, Invariant, PTL DEF Spec, FinishedRunsStayFinished, NotAgain

--------------------------------------------------------------------------------
(* The backfill leaves no day behind.  A chunk that is asked for adjoins what *)
(* is done, and the days a worker has behind it in its run were answered.     *)
Answered(d) == saved[d] # NotSaved \/ attempt[d] \in {"running", "failed"}
Adjoins(call) == call.trigger = "backfill" => call.from <= done + 1
ChunksAdjoin ==
  /\ \A p \in Process : Adjoins(want[p])
  /\ \A r \in Run : Adjoins(request[r])
FinishedIsDone ==
  \A r \in Run : status[r] \in Finished /\ request[r].trigger = "backfill" => request[r].to <= done
LatestIsBackfill ==
  latest # NoRun => request[latest].trigger = "backfill" /\ status[latest] # "none"
DaysBehindAnswered ==
  \A w \in Workers : pc[w] \in {"day", "fetching", "saving"} =>
    \A d \in request[mine[w]].from .. (day[w] - 1) : Answered(d)
GapInv == /\ ChunksAdjoin /\ FinishedIsDone /\ LatestIsBackfill
          /\ DaysBehindAnswered /\ BackfillLeavesNoGap

(* Only the end of a run moves done, and not back.                            *)
LEMMA DoneGrows ==
  ASSUME TypeInv, [Next]_vars
  PROVE  done \in Nat /\ done' \in Nat /\ done <= done'
<1>1. done \in Nat /\ \A d \in Day : d \in Nat
  BY OzonAssumption DEF TypeInv, TypeOK, DaysType, Day
<1>2. ASSUME NEW w \in Workers, FinishRun(w) PROVE done' \in Nat /\ done <= done'
  <2>1. request[mine[w]].to \in Nat
    BY <1>1, <1>2, DayFacts DEF FinishRun, Goto, TypeInv, TaskHasRun
  <2> QED BY <1>1, <1>2, <2>1 DEF FinishRun, Max2
<1>3. (\A w \in Workers : ~FinishRun(w)) => UNCHANGED done
  BY DEF Next, Calls, Works, Breaks, Broker, vars, Owner, DailyRefresh, TwoHoursPass, NextDay, Propose,
     GetLock, Refuse, RetireStale, ConnectionSaved, CostSaved, Enqueue, Insert, CallerCrashes, Publish,
     PublishReaches, PublishFails, DispatcherDies, LoseMessage, TryLock, Chain, RunBreaks, WorkerCrashes,
     Receive, Begin, DayBegins, CostsRead, DayLoads, DayFails, DayEnds
<1> QED BY <1>1, <1>2, <1>3

(* A day that was saved stays saved, and a failure gives way only to a saved  *)
(* day or to a new attempt.                                                   *)
LEMMA AnsweredStays ==
  ASSUME TypeInv, [Next]_vars, NEW d \in Day, Answered(d)
  PROVE  Answered(d)'
<1> USE DEF TypeInv, TypeOK, DaysType, TaskType, Answered, NotSaved, days
<1>1. ASSUME NEW p \in Process, CostSaved(p) PROVE Answered(d)'
  BY <1>1 DEF CostSaved
<1>2. ASSUME NEW w \in Workers, DayBegins(w) PROVE Answered(d)'
  BY <1>2 DEF DayBegins
<1>3. ASSUME NEW w \in Workers, DayLoads(w) PROVE Answered(d)'
  BY <1>3 DEF DayLoads
<1>4. ASSUME NEW w \in Workers, DayFails(w) PROVE Answered(d)'
  BY <1>4 DEF DayFails
<1>5. \/ \E p \in Process : CostSaved(p)
      \/ \E w \in Workers : DayBegins(w) \/ DayLoads(w) \/ DayFails(w)
      \/ UNCHANGED <<saved, attempt>>
  BY DEF Next, Calls, Works, Breaks, Broker, vars, Owner, DailyRefresh, TwoHoursPass, NextDay, Propose,
     GetLock, Refuse, RetireStale, ConnectionSaved, Enqueue, Insert, CallerCrashes, Publish,
     PublishReaches, PublishFails, DispatcherDies, LoseMessage, TryLock, Chain, RunBreaks, WorkerCrashes,
     Receive, Begin, CostsRead, FinishRun
<1> QED BY <1>1, <1>2, <1>3, <1>4, <1>5

(* What is proposed adjoins what is done.                                     *)
LEMMA ProposedAdjoins ==
  ASSUME TypeInv, GapInv
  PROVE  Adjoins(NextChunk) /\ Adjoins(RecentDays) /\ Adjoins(Nothing)
<1>1. done \in Nat
  BY OzonAssumption DEF TypeInv, TypeOK, DaysType
<1>2. Adjoins(FirstChunk) /\ Adjoins(RecentDays) /\ Adjoins(Nothing)
  BY <1>1 DEF Adjoins, FirstChunk, RecentDays, Nothing, Request
<1>3. ASSUME latest # NoRun, status[latest] \notin Active, status[latest] # "failed"
      PROVE Adjoins(ChunkAfter(request[latest].to))
  <2>1. latest \in Run /\ status[latest] \in Finished
    BY <1>3 DEF TypeInv, TypeOK, RunsType, GapInv, LatestIsBackfill
  <2>2. request[latest].to <= done /\ request[latest].to \in Nat
    BY <1>3, <2>1, DayFacts, OzonAssumption DEF GapInv, LatestIsBackfill, FinishedIsDone, TypeInv, Day
  <2> QED BY <1>1, <2>2 DEF Adjoins, ChunkAfter, Request
<1>4. ASSUME latest # NoRun PROVE Adjoins(request[latest])
  BY <1>4 DEF GapInv, ChunksAdjoin, TypeInv, TypeOK, RunsType
<1> QED BY <1>2, <1>3, <1>4 DEF NextChunk

(* Later chunks adjoin what is done later.                                    *)
LEMMA AdjoinsStays ==
  ASSUME TypeInv, [Next]_vars, NEW call \in CallSet, Adjoins(call)
  PROVE  call.trigger = "backfill" => call.from <= done' + 1
<1>1. call.from \in Nat
  BY OzonAssumption DEF CallSet, Runs, Day, Nothing, Resume, Save, SetCost, Request
<1> QED BY <1>1, DoneGrows DEF Adjoins

(* What is called begins no later than the day after `done`.                  *)
LEMMA CallsAdjoin ==
  ASSUME TypeInv, GapInv, [Next]_vars
  PROVE  (\A p \in Process : Adjoins(want[p]))'
<1>0. \A p \in Process : want[p] \in CallSet
  BY DEF TypeInv, TypeOK, CallType, CallSet
<1>1. want \in [Process -> CallSet]
  BY DEF TypeInv, TypeOK, CallType, CallSet
<1>2. Adjoins(Nothing)' /\ Adjoins(Resume)' /\ Adjoins(Save)' /\ Adjoins(SetCost)'
      /\ (\A r \in Manual : Adjoins(r)') /\ Adjoins(RecentDays) /\ Adjoins(Nothing) /\ Adjoins(NextChunk)
  BY ProposedAdjoins, ManualAssumption DEF Adjoins, Nothing, Resume, Save, SetCost, Request
<1>3. \A p \in Process : \A q : Adjoins(Fallback(p, q))
  BY <1>2 DEF Fallback
<1>4. \A p \in Process : \/ want'[p] = want[p]
                         \/ want'[p] \in {Nothing, Resume, Save, SetCost} \cup Manual
                         \/ want'[p] = NextChunk \/ \E q : want'[p] = Fallback(p, q)
  <2> SUFFICES ASSUME NEW p \in Process, want'[p] # want[p],
                      want'[p] \notin {Nothing, Resume, Save, SetCost} \cup Manual
               PROVE  want'[p] = NextChunk \/ \E q : want'[p] = Fallback(p, q)
    OBVIOUS
  <2>1. (\A g \in Process : ~Propose(g) /\ ~Refuse(g)) => FALSE
    BY <1>1 DEF Next, Calls, Works, Breaks, Broker, vars, Owner, Ask, DailyRefresh, TwoHoursPass, NextDay,
     GetLock, RetireStale, ConnectionSaved, CostSaved, Enqueue, Insert, Returns, CallerCrashes, Publish,
     PublishReaches, PublishFails, DispatcherDies, LoseMessage, TryLock, Chain, RunBreaks, WorkerCrashes,
     Receive, Begin, DayBegins, CostsRead, DayLoads, DayFails, DayEnds, FinishRun, Process
  <2>2. ASSUME NEW g \in Process, Propose(g) PROVE want'[p] = NextChunk \/ \E q : want'[p] = Fallback(p, q)
    BY <1>1, <2>2 DEF Propose
  <2>3. ASSUME NEW g \in Process, Refuse(g) PROVE want'[p] = NextChunk \/ \E q : want'[p] = Fallback(p, q)
    BY <1>1, <2>3 DEF Refuse, Returns
  <2> QED BY <2>1, <2>2, <2>3
<1>5. NextChunk \in CallSet /\ \A p \in Process : \A q : Fallback(p, q) \in CallSet
  BY ProposedType, FallbackType DEF CallSet, TypeInv
<1>6. SUFFICES ASSUME NEW p \in Process PROVE want'[p].trigger = "backfill" => want'[p].from <= done' + 1
  BY DEF Adjoins
<1>7. CASE want'[p] = want[p]
  BY <1>0, <1>7, AdjoinsStays DEF GapInv, ChunksAdjoin
<1>8. CASE want'[p] \in {Nothing, Resume, Save, SetCost} \cup Manual
  BY <1>8, ManualAssumption DEF Nothing, Resume, Save, SetCost, Request
<1>9. CASE want'[p] = NextChunk
  BY <1>2, <1>5, <1>9, AdjoinsStays
<1>10. ASSUME NEW q, want'[p] = Fallback(p, q) PROVE want'[p].trigger = "backfill" => want'[p].from <= done' + 1
  BY <1>3, <1>5, <1>10, AdjoinsStays
<1> QED BY <1>4, <1>7, <1>8, <1>9, <1>10

(* A run's dates are written once, from the call that inserts it; until then  *)
(* its id is in nobody's hands.                                               *)
LEMMA RequestsOfNewRuns ==
  ASSUME TypeInv, [Next]_vars, NEW r \in Run, request'[r] # request[r]
  PROVE  \E p \in Process : /\ request'[r] = want[p] /\ status'[r] = "queued" /\ Fresh(r)
                            /\ want[p] \in Runs
                            /\ latest' = r => want[p].trigger = "backfill"
<1>1. PICK p \in Process, s \in Run : Enqueue(p, s)
  BY DEF Next, Calls, Works, Breaks, Broker, vars, Owner, DailyRefresh, TwoHoursPass, NextDay, Propose, runs,
     GetLock, Refuse, RetireStale, ConnectionSaved, CostSaved, CallerCrashes, Publish,
     PublishReaches, PublishFails, DispatcherDies, LoseMessage, TryLock, Chain, RunBreaks, WorkerCrashes,
     Receive, Begin, DayBegins, CostsRead, DayLoads, DayFails, DayEnds, FinishRun
<1>2. s = r
  BY <1>1 DEF Enqueue, Insert, TypeInv, TypeOK, RunsType
<1> QED BY <1>1, <1>2 DEF Enqueue, Insert, Fresh, TypeInv, TypeOK, RunsType

(* So does every chunk that is a run: it was a call before.                   *)
LEMMA RunsAdjoin ==
  ASSUME TypeInv, GapInv, [Next]_vars
  PROVE  (\A r \in Run : Adjoins(request[r]))'
<1>1. SUFFICES ASSUME NEW r \in Run PROVE request'[r].trigger = "backfill" => request'[r].from <= done' + 1
  BY DEF Adjoins
<1>2. CASE request'[r] = request[r]
  BY <1>2, AdjoinsStays DEF GapInv, ChunksAdjoin, TypeInv, TypeOK, RunsType, CallSet
<1>3. CASE request'[r] # request[r]
  BY <1>3, RequestsOfNewRuns, AdjoinsStays DEF GapInv, ChunksAdjoin, CallSet
<1> QED BY <1>2, <1>3

(* A run becomes complete or partial as it moves done to its last day.        *)
LEMMA FinishedStep ==
  ASSUME TypeInv, GapInv, [Next]_vars
  PROVE  FinishedIsDone'
<1>1. SUFFICES ASSUME NEW r \in Run, status'[r] \in Finished, request'[r].trigger = "backfill"
               PROVE  request'[r].to <= done'
  BY DEF FinishedIsDone
<1>2. request'[r] = request[r]
  BY <1>1, RequestsOfNewRuns DEF Finished
<1>3. request[r].to \in Nat
  BY DayFacts, OzonAssumption DEF TypeInv, Day
<1>4. CASE status[r] \in Finished
  BY <1>1, <1>2, <1>3, <1>4, DoneGrows DEF GapInv, FinishedIsDone
<1>5. CASE status[r] \notin Finished
  <2>1. PICK w \in Workers : FinishRun(w)
    BY <1>1, <1>5 DEF Next, Calls, Works, Breaks, Broker, vars, Owner, DailyRefresh, TwoHoursPass, NextDay,
       Propose, runs, GetLock, Refuse, RetireStale, ConnectionSaved, CostSaved, Enqueue, Insert, CallerCrashes,
       Publish, PublishReaches, PublishFails, DispatcherDies, LoseMessage, TryLock, Chain, RunBreaks,
       WorkerCrashes, Receive, Begin, DayBegins, CostsRead, DayLoads, DayFails, DayEnds, TypeInv, TypeOK,
       RunsType, Finished
  <2>2. r = mine[w] /\ Outcome(w) # "failed"
    BY <1>1, <1>5, <2>1 DEF FinishRun, TypeInv, TypeOK, RunsType, Finished
  <2> QED BY <1>1, <1>2, <1>3, <2>1, <2>2, DoneGrows DEF FinishRun, Max2
<1> QED BY <1>4, <1>5

(* The latest chunk is a run of the backfill that was inserted.               *)
LEMMA LatestStep ==
  ASSUME TypeInv, GapInv, [Next]_vars
  PROVE  LatestIsBackfill'
<1>1. CASE latest' = latest
  <2>1. SUFFICES ASSUME latest # NoRun
                 PROVE request'[latest].trigger = "backfill" /\ status'[latest] # "none"
    BY <1>1 DEF LatestIsBackfill
  <2>2. latest \in Run /\ request'[latest] = request[latest]
    BY <2>1, RequestsOfNewRuns DEF Fresh, TypeInv, TypeOK, RunsType
  <2>3. status'[latest] # "none"
    BY <2>1, <2>2, OutcomeType DEF GapInv, LatestIsBackfill, Next, Calls, Works, Breaks, Broker, vars, Owner,
       DailyRefresh, TwoHoursPass, NextDay,
       Propose, runs, GetLock, Refuse, RetireStale, ConnectionSaved, CostSaved, Enqueue, Insert, CallerCrashes,
       Publish, PublishReaches, PublishFails, DispatcherDies, LoseMessage, TryLock, Chain, RunBreaks,
       WorkerCrashes, Receive, Begin, DayBegins, CostsRead, DayLoads, DayFails, DayEnds, FinishRun, TypeInv, TypeOK,
       RunsType
  <2> QED BY <2>1, <2>2, <2>3 DEF GapInv, LatestIsBackfill
<1>2. CASE latest' # latest
  <2>1. PICK p \in Process, r \in Run : Enqueue(p, r)
    BY <1>2 DEF Next, Calls, Works, Breaks, Broker, vars, Owner, DailyRefresh, TwoHoursPass, NextDay, Propose,
       runs, GetLock, Refuse, RetireStale, ConnectionSaved, CostSaved, CallerCrashes, Publish,
       PublishReaches, PublishFails, DispatcherDies, LoseMessage, TryLock, Chain, RunBreaks, WorkerCrashes,
       Receive, Begin, DayBegins, CostsRead, DayLoads, DayFails, DayEnds, FinishRun
  <2> QED BY <1>2, <2>1 DEF Enqueue, Insert, LatestIsBackfill, TypeInv, TypeOK, RunsType
<1> QED BY <1>1, <1>2

(* The day a worker goes past is saved or has failed.                         *)
LEMMA DaysBehindStep ==
  ASSUME TypeInv, GapInv, [Next]_vars
  PROVE  DaysBehindAnswered'
<1> USE DEF TypeInv, TypeOK, TaskType, TaskHasRun
<1>0. SUFFICES ASSUME NEW w \in Workers, pc'[w] \in {"day", "fetching", "saving"},
                      NEW d \in request'[mine'[w]].from .. (day'[w] - 1)
               PROVE  Answered(d)'
  BY DEF DaysBehindAnswered, Answered
<1>1. /\ \A r \in Run : request[r].from \in Nat /\ request[r].from \in Day
      /\ \A g \in Workers : day[g] \in Nat
      /\ \A n \in Nat : n \in Day <=> n \in 1..MaxDay
  BY DayFacts, OzonAssumption DEF Day
<1>2. CASE pc[w] \in {"day", "fetching", "saving"} /\ mine'[w] = mine[w] /\ day'[w] = day[w]
  <2>1. mine[w] \in Run /\ request'[mine[w]] = request[mine[w]]
    BY <1>2, RequestsOfNewRuns DEF Fresh
  <2>2. Answered(d) /\ d \in Day
    BY <1>0, <1>1, <1>2, <2>1, OzonAssumption DEF GapInv, DaysBehindAnswered, Day
  <2> QED BY <2>2, AnsweredStays
<1>3. CASE Begin(w)
  <2>1. day'[w] = request[mine[w]].from /\ mine'[w] = mine[w] /\ mine[w] \in Run /\ request' = request
    BY <1>3 DEF Begin, Goto
  <2> QED BY <1>0, <1>1, <2>1
<1>4. CASE DayLoads(w) \/ DayFails(w)
  <2>1. /\ mine'[w] = mine[w] /\ mine[w] \in Run /\ request' = request /\ day'[w] = day[w] + 1
        /\ pc[w] \in {"fetching", "saving"} /\ day[w] \in Day
    BY <1>4 DEF DayLoads, DayFails, DayEnds, FetchesADay
  <2>2. CASE d = day[w]
    <3>1. CASE DayLoads(w)
      BY <2>1, <2>2, <3>1 DEF DayLoads, Answered, NotSaved, DaysType
    <3>2. CASE DayFails(w)
      BY <2>1, <2>2, <3>2 DEF DayFails, Answered, DaysType
    <3> QED BY <1>4, <3>1, <3>2
  <2>3. CASE d # day[w]
    <3>1. d \in request[mine[w]].from .. (day[w] - 1) /\ d \in Day
      BY <1>0, <1>1, <2>1, <2>3, OzonAssumption DEF Day
    <3> QED BY <2>1, <3>1, AnsweredStays DEF GapInv, DaysBehindAnswered
  <2> QED BY <2>2, <2>3
<1>5. \/ pc[w] \in {"day", "fetching", "saving"} /\ mine'[w] = mine[w] /\ day'[w] = day[w]
      \/ Begin(w) \/ DayLoads(w) \/ DayFails(w)
  BY <1>0 DEF Next, Calls, Works, Breaks, Broker, vars, Owner, DailyRefresh, TwoHoursPass, NextDay, Propose,
     task, Goto, Leave, GetLock, Refuse, RetireStale, ConnectionSaved, CostSaved, Enqueue, Insert, CallerCrashes,
     Publish, PublishReaches, PublishFails, DispatcherDies, LoseMessage, TryLock, Chain, RunBreaks,
     WorkerCrashes, Receive, Begin, DayBegins, CostsRead, DayLoads, DayFails, DayEnds, FinishRun
<1> QED BY <1>2, <1>3, <1>4, <1>5

(* A run that finishes moves `done` over days that were answered.             *)
LEMMA NoGapStep ==
  ASSUME TypeInv, GapInv, [Next]_vars
  PROVE  BackfillLeavesNoGap'
<1>0. SUFFICES ASSUME NEW d \in 1..done' PROVE Answered(d)'
  BY DEF BackfillLeavesNoGap, Answered
<1>1. done \in Nat /\ done' \in Nat /\ done \in 0..MaxDay /\ MaxDay \in Nat
  BY DoneGrows, OzonAssumption DEF TypeInv, TypeOK, DaysType
<1>2. CASE d <= done
  <2>1. Answered(d) /\ d \in Day
    BY <1>0, <1>1, <1>2 DEF GapInv, BackfillLeavesNoGap, Answered, Day
  <2> QED BY <2>1, AnsweredStays
<1>3. CASE d > done
  <2>1. PICK w \in Workers : FinishRun(w) /\ done' # done
    BY <1>0, <1>1, <1>3 DEF Next, Calls, Works, Breaks, Broker, vars, Owner, DailyRefresh, TwoHoursPass, NextDay,
     Propose, GetLock, Refuse, RetireStale, ConnectionSaved, CostSaved, Enqueue, Insert, CallerCrashes, Publish,
     PublishReaches, PublishFails, DispatcherDies, LoseMessage, TryLock, Chain, RunBreaks, WorkerCrashes,
     Receive, Begin, DayBegins, CostsRead, DayLoads, DayFails, DayEnds
  <2>2. mine[w] \in Run /\ pc[w] = "day" /\ day[w] \in Nat /\ day[w] > request[mine[w]].to
    BY <2>1, OzonAssumption DEF FinishRun, Goto, TypeInv, TypeOK, TaskType, TaskHasRun
  <2>3. request[mine[w]].to \in Day /\ request[mine[w]].from \in Day
    BY <2>2, DayFacts DEF TypeInv
  <2>4. request[mine[w]].trigger = "backfill" /\ done' = request[mine[w]].to
    BY <2>1 DEF FinishRun, Max2
  <2>5. request[mine[w]].from <= done + 1
    BY <2>2, <2>4 DEF GapInv, ChunksAdjoin, Adjoins
  <2>6. d \in request[mine[w]].from .. (day[w] - 1) /\ d \in Day
    BY <1>0, <1>1, <1>3, <2>2, <2>3, <2>4, <2>5 DEF Day
  <2> QED BY <2>2, <2>6, AnsweredStays DEF GapInv, DaysBehindAnswered
<1> QED BY <1>0, <1>1, <1>2, <1>3

(* The backfill asks for every day up to the one it says it has done.         *)
THEOREM NoGap == Spec => []BackfillLeavesNoGap
<1>1. Init => TypeInv /\ GapInv
  <2> SUFFICES ASSUME Init PROVE GapInv
    BY TypeInit
  <2>1. ChunksAdjoin
    BY DEF Init, ChunksAdjoin, Adjoins, Nothing, Unused, Request
  <2> QED BY <2>1 DEF Init, GapInv, FinishedIsDone, LatestIsBackfill, DaysBehindAnswered, BackfillLeavesNoGap, Finished
<1>2. TypeInv /\ GapInv /\ [Next]_vars => (TypeInv /\ GapInv)'
  BY TypeStep, CallsAdjoin, RunsAdjoin, FinishedStep, LatestStep, DaysBehindStep, NoGapStep
     DEF GapInv, ChunksAdjoin
<1>3. TypeInv /\ GapInv => BackfillLeavesNoGap
  BY DEF GapInv
<1> QED BY <1>1, <1>2, <1>3, PTL DEF Spec

--------------------------------------------------------------------------------
(* The lines of an accrual, as its lines themselves tell it.                  *)

\* What a line of a posting is worth, and its units.
SaleAmount(line) == IF line.sells THEN Both(line.sale, line.commission) ELSE {0}
SaleUnit(line) == IF line.sells THEN LineUnit(line) ELSE {0}

(* A line of a posting is made of amounts.                                    *)
LEMMA LineIsTyped ==
  ASSUME NEW line \in PostingLine
  PROVE  /\ line.sale \in Amount /\ line.commission \in Amount /\ line.quantity \in Amount
         /\ line.sku \in Skus \cup {NoSku} /\ LineUnit(line) \in Amount /\ (line.sale = {} => LineUnit(line) = {})
         /\ SaleAmount(line) \in Amount /\ SaleUnit(line) \in Amount
<1>1. line.sale \in Amount /\ line.commission \in Amount /\ line.quantity \in Amount /\ line.sku \in Skus \cup {NoSku}
  BY DEF PostingLine
<1>2. LineUnit(line) \in Amount
  <2>1. CASE line.sale = {} \/ line.quantity = {}
    <3>1. LineUnit(line) = {}
      BY <2>1 DEF LineUnit
    <3> QED BY <3>1, SmallAmounts
  <2>2. CASE line.sale # {} /\ line.quantity # {}
    <3>1. PICK x \in Int : line.sale = {x}
      BY <1>1, <2>2, AmountIs
    <3>2. PICK q \in Int : line.quantity = {q}
      BY <1>1, <2>2, AmountIs
    <3>3. LineUnit(line) = {(IF x > 0 THEN 1 ELSE -1) * q}
      BY <3>1, <3>2 DEF LineUnit
    <3>4. CASE x > 0
      <4>1. (IF x > 0 THEN 1 ELSE -1) * q = q
        BY <3>1, <3>2, <3>4
      <4> QED BY <3>2, <3>3, <4>1, AmountIs
    <3>5. CASE ~(x > 0)
      <4>1. (IF x > 0 THEN 1 ELSE -1) * q = -q /\ -q \in Int
        BY <3>1, <3>2, <3>5
      <4> QED BY <3>3, <4>1, AmountIs
    <3> QED BY <3>4, <3>5
  <2> QED BY <2>1, <2>2
<1>3. line.sale = {} => LineUnit(line) = {}
  BY DEF LineUnit
<1>4. SaleAmount(line) \in Amount /\ SaleUnit(line) \in Amount
  BY <1>1, <1>2, BothLaws, SmallAmounts DEF SaleAmount, SaleUnit
<1> QED BY <1>1, <1>2, <1>3, <1>4

(* Marks that only grow.                                                      *)
LEMMA UnknownKeeps ==
  ASSUME NEW n \in LedgerType, NEW fs \in SUBSET (Fields \cup {"cogs"}), NEW t \in Skus \cup {NoSku}, NEW id \in Ids
  PROVE  MarkUnknown(n, fs, t, id).unknownSku <=> n.unknownSku
<1>1. DoesToDay(n, MarkUnknown(n, fs, t, id), DayUnknown(n.day, fs, t), Of(t))
  BY MarkUnknownDoes DEF Does
<1>2. ~Of(t).unknownSku
  BY OfIs
<1> QED BY <1>1, <1>2 DEF DoesToDay

(* The sale of a line.                                                        *)
LEMMA ThenSale ==
  ASSUME NEW n, NEW line \in PostingLine, NEW t, t = line.sku, NEW id \in Ids, NEW k, k <=> t = NoSku,
         NEW o \in Amount, NEW w \in Amount, NEW u \in Amount, Piece(n, t, k, o, w, u),
         t = NoSku => n.unknownSku, Exact(line.sale)
  PROVE  Piece(Sale(n, line, id), t, k, Both(o, SaleAmount(line)), Both(w, SaleAmount(line)), Both(u, SaleUnit(line)))
<1>1. /\ line.sale \in Amount /\ line.commission \in Amount /\ t \in Skus \cup {NoSku} /\ LineUnit(line) \in Amount
      /\ (line.sale = {} => LineUnit(line) = {})
  BY LineIsTyped
<1>2. CASE ~line.sells
  <2>1. Sale(n, line, id) = n /\ SaleAmount(line) = {0} /\ SaleUnit(line) = {0}
    BY <1>2 DEF Sale, SaleAmount, SaleUnit
  <2>2. Both(o, {0}) = o /\ Both(w, {0}) = w /\ Both(u, {0}) = u
    BY SmallAmounts
  <2> QED BY <2>1, <2>2
<1>3. CASE line.sells
  <2> DEFINE c == line.commission
             S == line.sale
             U == LineUnit(line)
             m == Component(n, "revenue", S, t, id)
             g == MarkUnknown(m, {"cogs"}, t, id)
             h == IF S # {} THEN Units(m, line, id) ELSE MarkUnitsUnknown(g, t, id)
             y == Component(h, "commission", c, t, id)
  <2>1. "revenue" \in Fields /\ "commission" \in Fields /\ "commission" # "revenue" /\ {"cogs"} \in SUBSET (Fields \cup {"cogs"})
    BY DEF Fields, Charges
  <2>2. Sale(n, line, id) = y
    BY <1>3 DEF Sale, Unknown
  <2>3. Piece(m, t, k, Both(o, S), Both(w, S), u)
    BY <1>1, <2>1, ThenComponent
  <2>4. t = NoSku => m.unknownSku
    <3>1. n \in LedgerType
      BY DEF Piece, Part
    <3> QED BY <3>1, ComponentKeeps
  <2>5. m \in LedgerType
    BY <2>3 DEF Piece, Part
  <2>6. S \in Amount /\ U \in Amount /\ c \in Amount /\ Both(o, S) \in Amount /\ Both(w, S) \in Amount /\ Both(u, U) \in Amount
    BY <1>1, BothLaws
  <2>7. SaleAmount(line) = Both(S, c) /\ SaleUnit(line) = U
    BY <1>3 DEF SaleAmount, SaleUnit
  <2>8. S = line.sale /\ U = LineUnit(line) /\ (S = {} => U = {}) /\ Exact(S) /\ c = line.commission
    BY <1>1
  <2>9. (S # {} => h = Units(m, line, id)) /\ (S = {} => h = MarkUnitsUnknown(g, t, id)) /\ g = MarkUnknown(m, {"cogs"}, t, id)
    OBVIOUS
  <2>10. y = Component(h, "commission", c, t, id)
    OBVIOUS
  <2> HIDE DEF c, S, U, m, g, h, y
  <2>11. Piece(h, t, k, Both(o, S), Both(w, S), Both(u, U))
    <3>1. CASE S # {}
      <4> DEFINE a == Both(o, S)
                 b == Both(w, S)
      <4>1. /\ a \in Amount /\ b \in Amount /\ Piece(m, t, k, a, b, u) /\ line.sku = t /\ line.sale # {}
            /\ h = Units(m, line, id) /\ LineUnit(line) \in Amount
        BY <1>1, <2>3, <2>6, <2>8, <2>9, <3>1
      <4> HIDE DEF a, b
      <4>2. Piece(Units(m, line, id), t, k, a, b, Both(u, LineUnit(line)))
        BY <1>1, <2>4, <4>1, ThenUnits
      <4> QED BY <2>8, <4>1, <4>2 DEF a, b
    <3>2. CASE S = {}
      <4> DEFINE v == {}
      <4>1. v \in Amount /\ Both(o, S) = v /\ Both(w, S) = v /\ Both(u, U) = v
        BY <2>8, <3>2, SmallAmounts
      <4>2. Piece(m, t, k, {}, v, u)
        BY <2>3, <4>1
      <4> HIDE DEF v
      <4>3. Piece(g, t, k, {}, {}, u)
        BY <1>1, <2>1, <2>9, <4>1, <4>2, ThenUnknown
      <4>4. t = NoSku => g.unknownSku
        BY <1>1, <2>1, <2>4, <2>5, <2>9, UnknownKeeps
      <4>5. Piece(g, t, k, v, v, u)
        BY <4>3 DEF v
      <4>6. Piece(h, t, k, v, v, {})
        BY <1>1, <2>9, <3>2, <4>1, <4>4, <4>5, ThenNoUnits
      <4> QED BY <4>1, <4>6 DEF v
    <3> QED BY <3>1, <3>2
  <2>12. Piece(y, t, k, Both(Both(o, S), c), Both(Both(w, S), c), Both(u, U))
    BY <1>1, <2>1, <2>6, <2>10, <2>11, ThenComponent
  <2>13. Both(Both(o, S), c) = Both(o, Both(S, c)) /\ Both(Both(w, S), c) = Both(w, Both(S, c))
    BY <2>6, BothTwice
  <2> QED BY <2>2, <2>7, <2>12, <2>13
<1> QED BY <1>2, <1>3

(* Amounts one by one.                                                        *)
LEMMA SomeOf ==
  ASSUME NEW q \in Seq(Amount), NEW k \in 1..Len(q)
  PROVE  /\ Total([i \in 1..k |-> q[i]]) \in Amount /\ Total([i \in 1..k - 1 |-> q[i]]) \in Amount
         /\ Total([i \in 1..k |-> q[i]]) = Both(Total([i \in 1..k - 1 |-> q[i]]), q[k])
<1> DEFINE f == [i \in 1..k - 1 |-> q[i]]
           h == [i \in 1..k |-> q[i]]
<1>0. Len(q) \in Nat /\ \A i \in 1..Len(q) : q[i] \in Amount
  OBVIOUS
<1>1. IsFiniteSet(1..k - 1) /\ IsFiniteSet(1..k)
  BY FS_Interval
<1>2. f \in [1..k - 1 -> Amount] /\ h \in [1..k -> Amount]
  BY <1>0
<1>3. k \notin 1..k - 1 /\ (1..k - 1) \cup {k} = 1..k
  BY <1>0
<1>4. \A i \in 1..k - 1 : h[i] = f[i]
  BY <1>3
<1>5. h[k] = q[k]
  BY <1>0
<1> DEFINE I == 1..k - 1
<1>6. h \in [I \cup {k} -> Amount] /\ f \in [I -> Amount] /\ IsFiniteSet(I) /\ k \notin I /\ \A i \in I : h[i] = f[i]
  BY <1>1, <1>2, <1>3, <1>4
<1> HIDE DEF f, h, I
<1>7. Total(h) = Both(Total(f), h[k])
  BY <1>6, TotalWith
<1>8. Total(h) \in Amount /\ Total(f) \in Amount
  BY <1>1, <1>2, TotalIs
<1> QED BY <1>5, <1>7, <1>8 DEF f, h

(* The services of a line.                                                    *)
LEMMA ThenServices ==
  ASSUME NEW n, NEW line \in PostingLine, NEW t, t = line.sku, NEW id \in Ids, NEW k,
         NEW o \in Amount, NEW w \in Amount, NEW u \in Amount, Piece(n, t, k, o, w, u)
  PROVE  /\ Total(line.amounts) \in Amount
         /\ Piece(Services(n, line, id), t, k, Both(o, Total(line.amounts)), Both(w, Total(line.amounts)), u)
<1> DEFINE q == line.amounts
           N == Len(q)
           S(i) == Total([j \in 1..i |-> q[j]])
<1>1. t \in Skus \cup {NoSku} /\ q \in Seq(Amount) /\ N \in Nat /\ "logistics" \in Fields /\ n \in LedgerType /\ "logistics" # "revenue"
  BY LineIsTyped DEF PostingLine, Fields, Charges, Piece, Part
<1>2. \A i \in 1..N : q[i] \in Amount
  BY <1>1
<1>3. PICK f : /\ f[0] = n /\ f[N] = Services(n, line, id)
               /\ \A i \in 1..N : f[i] = Component(f[i - 1], "logistics", q[i], t, id)
  BY <1>1, ServicesAre
<1>4. \A i \in 1..N : S(i) \in Amount /\ S(i - 1) \in Amount /\ S(i) = Both(S(i - 1), q[i])
  BY <1>1, SomeOf
<1>5. S(0) = {0}
  <2>1. 1..0 = {}
    OBVIOUS
  <2>2. [j \in 1..0 |-> q[j]] \in [{} -> Amount]
    BY <2>1
  <2> QED BY <2>2, TotalOfNone
<1>6. S(N) = Total(q)
  <2>1. q = [j \in 1..N |-> q[j]]
    BY <1>1
  <2> QED BY <2>1
<1> HIDE DEF q, N
<1> DEFINE T == {i \in 0..N : Piece(f[i], t, k, Both(o, S(i)), Both(w, S(i)), u)}
<1>7. 0 \in T
  <2>1. Both(o, S(0)) = o /\ Both(w, S(0)) = w
    BY <1>5, SmallAmounts
  <2> HIDE DEF S
  <2> QED BY <1>1, <1>3, <2>1
<1>8. ASSUME NEW i \in 1..N, i - 1 \in T PROVE i \in T
  <2>1. Piece(f[i - 1], t, k, Both(o, S(i - 1)), Both(w, S(i - 1)), u)
    BY <1>8
  <2>2. S(i) \in Amount /\ S(i - 1) \in Amount /\ S(i) = Both(S(i - 1), q[i]) /\ q[i] \in Amount
    BY <1>2, <1>4 DEF q
  <2> DEFINE a == S(i)
             b == S(i - 1)
             c == q[i]
  <2>3. a \in Amount /\ b \in Amount /\ a = Both(b, c) /\ c \in Amount /\ Piece(f[i - 1], t, k, Both(o, b), Both(w, b), u)
    BY <2>1, <2>2
  <2>4. f[i] = Component(f[i - 1], "logistics", c, t, id)
    BY <1>3
  <2>5. i \in 0..N
    BY <1>1
  <2> HIDE DEF a, b, c, S
  <2>6. Both(o, b) \in Amount /\ Both(w, b) \in Amount
    BY <2>3, BothLaws
  <2>7. Piece(f[i], t, k, Both(Both(o, b), c), Both(Both(w, b), c), u)
    BY <1>1, <2>3, <2>4, <2>6, ThenComponent
  <2>8. Both(Both(o, b), c) = Both(o, a) /\ Both(Both(w, b), c) = Both(w, a)
    BY <2>3, BothTwice
  <2> QED BY <2>5, <2>7, <2>8 DEF a
<1> HIDE DEF T
<1>9. N \in T
  <2>1. \A i \in 0..N : i \in T
    BY <1>1, <1>7, <1>8, InductionTo
  <2> QED BY <1>1, <2>1
<1>10. S(N) \in Amount
  <2>1. CASE N = 0
    BY <1>5, <2>1, SmallAmounts
  <2>2. CASE N # 0
    <3>1. N \in 1..N
      BY <1>1, <2>2
    <3> HIDE DEF S
    <3> QED BY <1>4, <3>1 DEF q, N
  <2> QED BY <2>1, <2>2
<1> QED BY <1>3, <1>6, <1>9, <1>10 DEF T, q

\* What a delivery is worth.
Delivered(line) ==
  CASE line.delivery = "null" -> {0} [] line.delivery = "amounts" -> Total(line.amounts) [] OTHER -> {}

(* The delivery of a line.                                                    *)
LEMMA ThenDelivery ==
  ASSUME NEW n, NEW line \in PostingLine, NEW t, t = line.sku, NEW id \in Ids, NEW k,
         NEW o \in Amount, NEW w \in Amount, NEW u \in Amount, Piece(n, t, k, o, w, u)
  PROVE  /\ Delivered(line) \in Amount
         /\ Piece(Delivery(n, line, id), t, k, Both(o, Delivered(line)), Both(w, Delivered(line)), u)
<1> DEFINE D == Delivered(line)
           y == Delivery(n, line, id)
           m == IF line.returns THEN MarkReturn(n, t, id) ELSE n
           v == {}
           x == MarkUnknown(Incomplete(n), {"logistics"}, t, id)
           z == MarkUnknown(Incomplete(m), {"logistics"}, t, id)
           G == Piece(y, t, k, Both(o, D), Both(w, D), u)
<1>1. t \in Skus \cup {NoSku} /\ "logistics" \in Fields /\ "logistics" # "revenue" /\ {"logistics"} \in SUBSET (Fields \cup {"cogs"})
  BY LineIsTyped DEF Fields, Charges
<1>2. line.delivery \in {"null", "broken", "nothing", "spoiled", "amounts"}
  BY DEF PostingLine
<1>3. /\ (line.delivery = "null" => D = {0} /\ y = n)
      /\ (line.delivery = "broken" => D = v /\ y = Component(n, "logistics", v, t, id))
      /\ (line.delivery = "nothing" => D = v /\ y = x)
      /\ (line.delivery = "spoiled" => D = v /\ y = Services(z, line, id))
      /\ (line.delivery = "amounts" => D = Total(line.amounts) /\ y = Services(m, line, id))
  BY DEF Delivered, Delivery, Component, Unknown
<1>4. v \in Amount /\ v = {}
  BY SmallAmounts
<1>5. \A a \in Amount : Both(a, v) = v /\ Both(v, a) = v
  BY SmallAmounts
<1>6. Piece(m, t, k, o, w, u)
  <2>1. CASE line.returns
    BY <1>1, <2>1, ThenReturn
  <2>2. CASE ~line.returns
    BY <2>2
  <2> QED BY <2>1, <2>2
<1>7. ASSUME NEW b, Piece(b, t, k, o, w, u)
      PROVE  Piece(MarkUnknown(Incomplete(b), {"logistics"}, t, id), t, k, v, v, u)
  <2>1. Piece(Incomplete(b), t, k, {}, w, u)
    BY <1>1, <1>7, ThenIncomplete
  <2>2. "cogs" \notin {"logistics"}
    OBVIOUS
  <2> DEFINE fs == {"logistics"}
             c == Incomplete(b)
  <2>3. fs \in SUBSET (Fields \cup {"cogs"}) /\ "cogs" \notin fs /\ Piece(c, t, k, {}, w, u)
    BY <1>1, <2>1, <2>2
  <2> HIDE DEF fs, c
  <2>4. Piece(MarkUnknown(c, fs, t, id), t, k, {}, {}, u)
    BY <1>1, <2>3, ThenUnknown
  <2> QED BY <2>4 DEF fs, c
<1>8. Piece(x, t, k, v, v, u) /\ Piece(z, t, k, v, v, u)
  BY <1>6, <1>7
<1> HIDE DEF v, m, x, z, D, y
<1>9. ASSUME line.delivery = "null" PROVE D \in Amount /\ G
  <2>1. Both(o, {0}) = o /\ Both(w, {0}) = w /\ {0} \in Amount
    BY SmallAmounts
  <2> QED BY <1>3, <1>9, <2>1
<1>10. ASSUME line.delivery = "broken" PROVE D \in Amount /\ G
  <2>1. Piece(Component(n, "logistics", v, t, id), t, k, Both(o, v), Both(w, v), u)
    BY <1>1, <1>4, ThenComponent
  <2> QED BY <1>3, <1>4, <1>10, <2>1
<1>11. ASSUME line.delivery = "nothing" PROVE D \in Amount /\ G
  <2>1. Both(o, D) = v /\ Both(w, D) = v /\ D \in Amount /\ y = x
    BY <1>3, <1>4, <1>5, <1>11
  <2> QED BY <1>8, <2>1
<1>12. ASSUME line.delivery = "spoiled" PROVE D \in Amount /\ G
  <2>1. Both(o, D) = v /\ Both(w, D) = v /\ D \in Amount /\ y = Services(z, line, id)
    BY <1>3, <1>4, <1>5, <1>12
  <2>2. Total(line.amounts) \in Amount
        /\ Piece(Services(z, line, id), t, k, Both(v, Total(line.amounts)), Both(v, Total(line.amounts)), u)
    BY <1>4, <1>8, ThenServices
  <2>3. Both(v, Total(line.amounts)) = v
    BY <1>5, <2>2
  <2> QED BY <2>1, <2>2, <2>3
<1>13. ASSUME line.delivery = "amounts" PROVE D \in Amount /\ G
  <2>1. D = Total(line.amounts) /\ y = Services(m, line, id)
    BY <1>3, <1>13
  <2>2. Total(line.amounts) \in Amount
        /\ Piece(Services(m, line, id), t, k, Both(o, Total(line.amounts)), Both(w, Total(line.amounts)), u)
    BY <1>6, ThenServices
  <2> QED BY <2>1, <2>2
<1> QED BY <1>2, <1>9, <1>10, <1>11, <1>12, <1>13 DEF D, y

\* Ledger n is a part of an accrual that is worth o: own of it to SKUs, who sold un.
Reads(n, o, own, un) ==
  /\ n \in LedgerType /\ n.net = 0 /\ n.mismatch = {0} /\ n.reconciled = {}
  /\ Tells(n, FALSE, o, own, un) /\ RawOf(n) = o

(* A piece, once it is marked that it has no SKU.                             *)
LEMMA PieceReads ==
  ASSUME NEW n, NEW t, NEW k, NEW o, NEW w, NEW u, Piece(n, t, k, o, w, u), k => n.unknownSku
  PROVE  Reads(n, o, At(w, t), At(u, t))
<1>1. Firm(n, FALSE)
  BY DEF Piece, Part, Tells, Firm
<1>2. AddsUp(n, FALSE, o)
  BY DEF Piece, Part, Tells, AddsUp
<1> QED BY <1>1, <1>2 DEF Piece, Part, Tells, Reads

(* A line of a posting that can be read.                                      *)
LEMMA ProductLineReads ==
  ASSUME NEW line \in PostingLine, NEW id \in Ids, ~line.damaged, Exact(line.sale)
  PROVE  Reads(ProductLine(EmptyLedger, line, id), Both(SaleAmount(line), Delivered(line)),
               At(Both(SaleAmount(line), Delivered(line)), line.sku), At(SaleUnit(line), line.sku))
<1> DEFINE t == line.sku
           k == (t = NoSku)
           n == LineStart(t)
           m == Sale(n, line, id)
           y == Delivery(m, line, id)
           S == SaleAmount(line)
           U == SaleUnit(line)
           z == {0}
<1>1. t = line.sku /\ t \in Skus \cup {NoSku} /\ S \in Amount /\ U \in Amount /\ S = SaleAmount(line) /\ U = SaleUnit(line) /\ z \in Amount /\ (k <=> t = NoSku)
  BY LineIsTyped, SmallAmounts
<1>2. ProductLine(EmptyLedger, line, id) = y
  BY DEF ProductLine, LineStart
<1>3. Piece(n, t, k, z, z, z)
  <2> HIDE DEF k
  <2>1. Piece(EmptyLedger, t, k, z, z, z) /\ Piece([EmptyLedger EXCEPT !.unknownSku = TRUE], t, k, z, z, z)
    BY <1>1, NothingIsPiece
  <2> QED BY <2>1 DEF LineStart
<1>4. n \in LedgerType /\ (n.unknownSku <=> t = NoSku)
  BY <1>1, LineStartIs
<1>5. m = Sale(n, line, id) /\ y = Delivery(m, line, id)
  OBVIOUS
<1> HIDE DEF t, k, n, m, y, S, U, z
<1>6. Piece(m, t, k, Both(z, S), Both(z, S), Both(z, U))
  BY <1>1, <1>3, <1>4, <1>5, ThenSale
<1>7. Both(z, S) = S /\ Both(z, U) = U
  BY <1>1, SmallAmounts DEF z
<1>8. Piece(m, t, k, S, S, U)
  BY <1>6, <1>7
<1>9. Piece(y, t, k, Both(S, Delivered(line)), Both(S, Delivered(line)), U)
  BY <1>1, <1>5, <1>8, ThenDelivery
<1>10. k => y.unknownSku
  <2>1. ASSUME t = NoSku PROVE y.unknownSku
    <3>1. Merges(n, n, n)
      BY <1>1, <1>4, WithLineStart DEF n
    <3>2. Merges(n, m, m)
      BY <1>1, <1>4, <1>5, <2>1, <3>1, SaleOfLineMerges
    <3>3. Merges(n, y, y)
      BY <1>5, <3>2, DeliveryMerges
    <3>4. y.unknownSku <=> n.unknownSku \/ y.unknownSku
      BY <3>3 DEF Merges, Joins, MarksAdd
    <3> QED BY <1>4, <2>1, <3>4
  <2> QED BY <1>1, <2>1
<1>11. Reads(y, Both(S, Delivered(line)), At(Both(S, Delivered(line)), t), At(U, t))
  BY <1>9, <1>10, PieceReads
<1> QED BY <1>1, <1>2, <1>11

(* A posting whose lines are lost.                                            *)
LEMMA NoPostingReads ==
  ASSUME NEW id \in Ids, NEW own, NEW un
  PROVE  Reads(NoPosting(EmptyLedger, id), {}, own, un)
<1> DEFINE n == Incomplete(EmptyLedger)
           m == MarkUnknown(n, PostingFields, NoSku, id)
           y == MarkUnitsUnknown(m, NoSku, id)
           B == Unclassified(Blank(EmptyRow, PostingFields))
           D == [B EXCEPT !.uncertain = @ \cup PostingFields]
<1>1. PostingFields \in SUBSET (Fields \cup {"cogs"}) /\ "cogs" \in PostingFields /\ "revenue" \in PostingFields /\ "revenue" \in Fields
      /\ NoSku \notin Skus
  BY AccrualAssumption DEF PostingFields, Fields, Charges
<1>2. /\ EmptyRow \in RowType /\ \A f \in Fields : EmptyRow.money[f] = {0}
      /\ EmptyRow.unallocated = 0 /\ EmptyRow.gaps = {} /\ EmptyRow.uncertain = {}
      /\ EmptyRow.sold = {0} /\ EmptyRow.returned = {0} /\ EmptyRow.from = {}
  BY EmptyRowIs
<1>3. /\ n \in LedgerType /\ n.day = EmptyRow /\ \A s \in Skus : n.sku[s] = EmptyRow
      /\ n.net = 0 /\ n.mismatch = {0} /\ n.reconciled = {} /\ ~n.complete /\ ~n.sale
  <2>1. n \in LedgerType /\ n.day = EmptyLedger.day /\ n.sku = EmptyLedger.sku
        /\ DoesToDay(EmptyLedger, n, EmptyLedger.day, [Still EXCEPT !.complete = FALSE])
    BY CountedIs, EmptyLedgerIs
  <2>2. ([Still EXCEPT !.complete = FALSE].complete = FALSE) /\ ([Still EXCEPT !.complete = FALSE].sale = FALSE)
    BY DEF Still
  <2> DEFINE W == [Still EXCEPT !.complete = FALSE]
  <2>3. DoesToDay(EmptyLedger, n, EmptyLedger.day, W) /\ ~W.complete /\ ~W.sale
    BY <2>1, <2>2
  <2> HIDE DEF W, n
  <2> QED BY <2>1, <2>3, EmptyLedgerIs DEF DoesToDay
<1>4. D = DayUnknown(EmptyRow, PostingFields, NoSku)
  BY DEF DayUnknown
<1>5. \A x \in LedgerType : Does(x, MarkUnknown(x, PostingFields, NoSku, id), NoSku, DayUnknown(x.day, PostingFields, NoSku),
                                 SkuUnknown(x.sku[NoSku], PostingFields, id), Of(NoSku))
  BY <1>1, MarkUnknownDoes
<1>6. ~Of(NoSku).allocated /\ ~Of(NoSku).unknownSku /\ ~Of(NoSku).sale
  BY OfIs
<1>7. D = Doubted(EmptyRow, PostingFields)
  BY DEF Doubted
<1>8. m = MarkUnknown(n, PostingFields, NoSku, id) /\ y = MarkUnitsUnknown(m, NoSku, id)
  OBVIOUS
<1>9. NoPosting(EmptyLedger, id) = y
  BY DEF NoPosting
<1> HIDE DEF n, m, y, B, D
<1>10. /\ m \in LedgerType /\ m.day = D /\ ~m.allocated /\ m.net = 0 /\ m.mismatch = {0} /\ m.reconciled = {}
       /\ ~m.complete /\ ~m.sale
  <2>1. DoesToDay(n, m, D, Of(NoSku))
    BY <1>3, <1>4, <1>5, <1>8 DEF Does
  <2> QED BY <1>3, <1>6, <2>1 DEF DoesToDay
<1>11. \A s \in Skus : m.sku[s] = EmptyRow
  <2>1. \A s \in Skus : m.sku[s] = IF s = NoSku THEN SkuUnknown(n.sku[NoSku], PostingFields, id) ELSE n.sku[s]
    BY <1>3, <1>5, <1>8 DEF Does
  <2> QED BY <1>1, <1>3, <2>1
<1>12. /\ D \in RowType /\ D.uncertain = EmptyRow.uncertain \cup PostingFields
       /\ \A f \in Fields : D.money[f] = IF f \in PostingFields THEN {} ELSE EmptyRow.money[f]
  <2> DEFINE fs == PostingFields
  <2>1. fs \in SUBSET (Fields \cup {"cogs"}) /\ D = Doubted(EmptyRow, fs)
    BY <1>1, <1>7
  <2> HIDE DEF fs
  <2>2. /\ D \in RowType /\ D.uncertain = EmptyRow.uncertain \cup fs
        /\ \A f \in Fields : D.money[f] = IF f \in fs THEN {} ELSE EmptyRow.money[f]
    <3>1. EmptyRow \in RowType
      BY <1>2
    <3> HIDE <1>2
    <3> QED BY <2>1, <3>1, DoubtedRow
  <2> QED BY <2>2 DEF fs
<1>13. "cogs" \in D.uncertain /\ D.money["revenue"] = {}
  BY <1>1, <1>12
<1> DEFINE Z == WithoutUnits(D)
<1>14. DoesToDay(m, y, Z, NoUnits)
  BY <1>8, <1>10, MarkUnitsUnknownDoes
<1>15. \A s \in Skus : y.sku[s] = EmptyRow
  BY <1>2, <1>8, <1>10, <1>11, UnitsOfNobody
<1>16. Z.money = D.money /\ Z.uncertain = D.uncertain /\ ~Z.unitsKnown
  BY <1>12, WithoutUnitsIs
<1>17. ~NoUnits.skuUnitsKnown
  BY NoUnitsIs
<1> HIDE DEF Z
<1>18. /\ y \in LedgerType /\ y.day = Z /\ ~y.allocated /\ y.net = 0 /\ y.mismatch = {0} /\ y.reconciled = {}
       /\ ~y.complete /\ ~y.skuUnitsKnown
  BY <1>10, <1>14, <1>17 DEF DoesToDay
<1>19. Exact({0}) /\ Exact({})
  <2>1. Exact(EmptyRow.money["revenue"])
    BY CleanIs
  <2> QED BY <1>1, <1>2, <2>1 DEF Exact
<1>20. "cogs" \in y.day.uncertain /\ y.day.money["revenue"] = {} /\ ~y.day.unitsKnown
  BY <1>13, <1>16, <1>18
<1>21. Firm(y, FALSE)
  BY <1>1, <1>2, <1>15, <1>18, <1>19, <1>20 DEF Firm
<1>22. AddsUp(y, FALSE, {})
  BY DEF AddsUp
<1>23. Says(y, own, un)
  BY <1>18, <1>20 DEF Says
<1> QED BY <1>9, <1>18, <1>21, <1>22, <1>23 DEF Reads, Tells, RawOf

(* Fields that become unknown, of whatever SKUs own.                          *)
LEMMA ThenUnknownOf ==
  ASSUME NEW n, NEW t \in Skus \cup {NoSku}, NEW id \in Ids, NEW k,
         NEW w \in Amount, NEW u \in Amount, Piece(n, t, k, {}, w, u), NEW x \in Amount,
         NEW fs \in SUBSET (Fields \cup {"cogs"}), "cogs" \notin fs
  PROVE  Piece(MarkUnknown(n, fs, t, id), t, k, {}, Both(w, x), u)
<1>1. Merges(n, EmptyLedger, n)
  BY MergesNothing DEF Piece, Part
<1> DEFINE e == MarkUnknown(EmptyLedger, fs, t, id)
           m == MarkUnknown(n, fs, t, id)
           z == {0}
           v == {}
<1>2. v \in {{}, {0}} /\ v # {0}
  OBVIOUS
<1>3. Part(e, t, k, v, x, z)
  <2> HIDE DEF v
  <2> QED BY <1>2, UnknownIsPart
<1>4. Merges(n, e, m)
  BY <1>1, MarkUnknownMerges
<1>5. z \in Amount /\ v \in Amount /\ Both(v, v) = v /\ Both(u, z) = u /\ Piece(n, t, k, v, w, u)
  BY SmallAmounts
<1>6. v = {}
  OBVIOUS
<1> HIDE DEF e, m, z, v
<1>7. Piece(m, t, k, Both(v, v), Both(w, x), Both(u, z))
  BY <1>3, <1>4, <1>5, <1>6, PieceThen
<1> QED BY <1>5, <1>6, <1>7 DEF m

\* A ledger whose day is not classified, and that is told of an amount of nobody.
UnclearOf(c, x) ==
  /\ c \in LedgerType /\ c.day = Unclassified(EmptyRow) /\ \A s \in Skus : c.sku[s] = EmptyRow
  /\ c.net = 0 /\ c.mismatch = {0} /\ c.reconciled = {} /\ c.raw = x /\ c.complete
  /\ c.allocated /\ c.skuUnitsKnown /\ ~c.unknownSku /\ ~c.sale

(* A day that is not classified.                                              *)
LEMMA UnclearIs ==
  ASSUME NEW x \in Int, NEW u, u = [EmptyLedger EXCEPT !.day = Unclassified(@)],
         NEW c, c = [Counted(EmptyLedger, x) EXCEPT !.day = Unclassified(@)]
  PROVE  UnclearOf(u, 0) /\ UnclearOf(c, x) /\ c = Counted(u, x)
<1> DEFINE E == EmptyLedger
           b == Counted(E, x)
           D == Unclassified(EmptyRow)
           W == [Still EXCEPT !.raw = x]
<1>1. /\ E \in LedgerType /\ E.day = EmptyRow /\ \A s \in Skus : E.sku[s] = EmptyRow
      /\ E.net = 0 /\ E.mismatch = {0} /\ E.reconciled = {}
      /\ E.allocated /\ E.skuUnitsKnown /\ ~E.unknownSku /\ ~E.sale /\ E.raw = 0 /\ E.complete
  BY EmptyLedgerIs
<1>2. b \in LedgerType /\ b.day = E.day /\ b.sku = E.sku /\ DoesToDay(E, b, E.day, W)
  <2> HIDE DEF E
  <2> QED BY <1>1, CountedIs
<1>3. D \in RowType
  BY EmptyRowIs, UnclassifiedIs
<1>4. c = [b EXCEPT !.day = D] /\ u = [E EXCEPT !.day = D]
  BY <1>1, <1>2
<1>5. (W.raw = x) /\ (W.allocated = TRUE) /\ (W.skuUnitsKnown = TRUE) /\ (W.unknownSku = FALSE) /\ (W.sale = FALSE) /\ (W.complete = TRUE)
  BY DEF Still
<1>6. b = [E EXCEPT !.raw = 0 + x]
  BY <1>1 DEF Counted
<1>7. Counted(u, x) = [u EXCEPT !.raw = u.raw + x]
  BY DEF Counted
<1> HIDE DEF E, b, D, W
<1>8. UnclearOf(u, 0)
  <2>1. u \in LedgerType
    BY <1>1, <1>3, <1>4 DEF LedgerType
  <2>2. /\ u.day = D /\ u.sku = E.sku /\ u.net = E.net /\ u.mismatch = E.mismatch /\ u.reconciled = E.reconciled
        /\ u.raw = E.raw /\ (u.complete = E.complete) /\ (u.allocated = E.allocated)
        /\ (u.skuUnitsKnown = E.skuUnitsKnown) /\ (u.unknownSku = E.unknownSku) /\ (u.sale = E.sale)
    BY <1>1, <1>4 DEF LedgerType
  <2> QED BY <1>1, <2>1, <2>2 DEF UnclearOf, D
<1>9. UnclearOf(c, x)
  <2>1. c \in LedgerType
    BY <1>2, <1>3, <1>4 DEF LedgerType
  <2>2. /\ c.day = D /\ c.sku = b.sku /\ c.net = b.net /\ c.mismatch = b.mismatch /\ c.reconciled = b.reconciled
        /\ c.raw = b.raw /\ (c.complete = b.complete) /\ (c.allocated = b.allocated)
        /\ (c.skuUnitsKnown = b.skuUnitsKnown) /\ (c.unknownSku = b.unknownSku) /\ (c.sale = b.sale)
    BY <1>2, <1>4 DEF LedgerType
  <2>3. b.net = 0 /\ b.mismatch = {0} /\ b.reconciled = {} /\ b.raw = x /\ b.complete /\ b.allocated /\ b.skuUnitsKnown
        /\ ~b.unknownSku /\ ~b.sale
    BY <1>1, <1>2, <1>5 DEF DoesToDay
  <2>4. b.sku = E.sku
    BY <1>2
  <2> QED BY <1>1, <2>1, <2>2, <2>3, <2>4 DEF UnclearOf, D
<1>10. c = Counted(u, x)
  <2>1. u.raw = 0
    BY <1>8 DEF UnclearOf
  <2>2. c = [[E EXCEPT !.raw = x] EXCEPT !.day = D]
    <3>1. 0 + x = x
      OBVIOUS
    <3> QED BY <1>4, <1>6, <3>1
  <2>3. Counted(u, x) = [[E EXCEPT !.day = D] EXCEPT !.raw = x]
    <3>1. u.raw + x = x
      BY <2>1
    <3> QED BY <1>4, <1>7, <3>1
  <2>4. [[E EXCEPT !.raw = x] EXCEPT !.day = D] = [[E EXCEPT !.day = D] EXCEPT !.raw = x]
    BY <1>1 DEF LedgerType
  <2> QED BY <2>2, <2>3, <2>4
<1> QED BY <1>8, <1>9, <1>10

(* A fee of no known type.                                                    *)
LEMMA UnlistedIsPiece ==
  ASSUME NEW t \in Skus \cup {NoSku}, NEW id \in Ids, NEW x \in Int,
         NEW c, c = [Counted(EmptyLedger, x) EXCEPT !.day = Unclassified(@)],
         NEW y, y = MarkUnknown(AddComponent(c, "other_expenses", x, t, id), _POSSIBLE_FEE_FIELDS, t, id)
  PROVE  Piece(y, t, FALSE, {x}, {x}, {0})
<1> DEFINE u == [EmptyLedger EXCEPT !.day = Unclassified(@)]
           z == {0}
           a == {x}
           fs == _POSSIBLE_FEE_FIELDS
           D == Unclassified(EmptyRow)
<1>1. UnclearOf(u, 0) /\ c = Counted(u, x)
  BY UnclearIs
<1>2. z \in Amount /\ a \in Amount /\ a # {} /\ The(a) = x /\ Both(z, a) = a /\ Both(a, z) = a
  <2>1. a \in Amount
    BY AmountIs
  <2> QED BY <2>1, SmallAmounts, TheIs
<1>3. "other_expenses" \in Fields /\ "other_expenses" # "revenue" /\ fs \in SUBSET (Fields \cup {"cogs"}) /\ "cogs" \notin fs /\ "revenue" \notin fs
  BY DEF _POSSIBLE_FEE_FIELDS, Fields, Charges
<1>4. Clean(EmptyRow) /\ NoMoney(EmptyRow) /\ StillUnits(EmptyRow) /\ Exact(EmptyRow.money["revenue"]) /\ "revenue" \in Fields
  BY CleanIs DEF Fields
<1>5. /\ D \in RowType /\ D.money = EmptyRow.money /\ D.unallocated = EmptyRow.unallocated
      /\ D.gaps = EmptyRow.gaps /\ D.uncertain = EmptyRow.uncertain /\ D.sold = EmptyRow.sold /\ D.returned = EmptyRow.returned
      /\ (D.unitsKnown <=> EmptyRow.unitsKnown) /\ ~D.classified
  BY <1>4, UnclassifiedIs DEF Clean
<1>6. Both(z, z) = z
  BY SmallAmounts
<1>7. Piece(u, t, FALSE, z, z, z)
  <2> HIDE DEF u, D
  <2>1. RowsSay(u, EmptyRow, t, FALSE, z, z, z)
    BY <1>1, <1>4, <1>5, <1>6 DEF UnclearOf, RowsSay, Clean, NoMoney, StillUnits, D
  <2>2. \A s \in Skus : u.sku[s] = IF s = t THEN EmptyRow ELSE EmptyRow
    BY <1>1 DEF UnclearOf
  <2>3. Part(u, t, FALSE, z, z, z)
    BY <1>1, <1>4, <2>1, <2>2, PartIs DEF UnclearOf, Clean
  <2> QED BY <1>1, <2>3 DEF UnclearOf, RawOf, Piece
<1>8. Component(u, "other_expenses", a, t, id) = AddComponent(c, "other_expenses", x, t, id)
  BY <1>1, <1>2 DEF Component, Unknown
<1> HIDE DEF u, z, a, fs
<1> DEFINE m == Component(u, "other_expenses", a, t, id)
           e == MarkUnknown(EmptyLedger, fs, t, id)
<1>9. Piece(m, t, FALSE, Both(z, a), Both(z, a), z)
  <2> HIDE DEF m
  <2>1. Piece(Component(u, "other_expenses", a, t, id), t, FALSE, Both(z, a), Both(z, a), z)
    BY <1>2, <1>3, <1>7, ThenComponent
  <2> QED BY <2>1 DEF m
<1>10. Piece(m, t, FALSE, a, a, z)
  BY <1>2, <1>9
<1>11. y = MarkUnknown(m, fs, t, id)
  BY <1>8 DEF fs
<1>12. Merges(m, e, y)
  <2>1. m \in LedgerType
    BY <1>10 DEF Piece, Part
  <2> HIDE DEF m
  <2>2. Merges(m, EmptyLedger, m)
    BY <2>1, MergesNothing
  <2> QED BY <1>3, <1>11, <2>2, MarkUnknownMerges
<1>13. Part(e, t, FALSE, z, z, z) /\ RawOf(e) = z
  BY <1>3, UnknownIsPart DEF z
<1> HIDE DEF m, e
<1>14. Piece(y, t, FALSE, Both(a, z), Both(a, z), Both(z, z))
  BY <1>2, <1>10, <1>12, <1>13, PieceThen
<1> QED BY <1>2, <1>6, <1>14 DEF a, z

(* A fee of an ambiguous type is nobody's.                                    *)
LEMMA AmbiguousIsPiece ==
  ASSUME NEW t \in Skus \cup {NoSku}, NEW id \in Ids, NEW x \in Int,
         NEW c, c = [Counted(EmptyLedger, x) EXCEPT !.day = Unclassified(@)],
         NEW y, t = NoSku => y = [c EXCEPT !.day = Aside(@, x), !.allocated = FALSE],
         t # NoSku => y = [Touch(c, t, id) EXCEPT !.day = Aside(@, x), !.sku[t] = Aside(@, x)]
  PROVE  Piece(y, t, FALSE, {x}, {0}, {0})
<1> DEFINE B == Unclassified(EmptyRow)
           D == Aside(B, x)
           a == {x}
           z == {0}
<1>0. NoSku \notin Skus /\ "revenue" \in Fields
  BY AccrualAssumption DEF Fields
<1>1. UnclearOf(c, x)
  BY UnclearIs
<1>2. z \in Amount /\ a \in Amount /\ Both(z, a) = a /\ Both(a, z) = a /\ Both(z, z) = z /\ 0 + x = x
  <2>1. a \in Amount
    BY AmountIs
  <2>2. z = {0} /\ 0 + x = x
    OBVIOUS
  <2> HIDE DEF a, z
  <2> QED BY <2>1, <2>2, SmallAmounts
<1>3. Clean(EmptyRow) /\ NoMoney(EmptyRow) /\ StillUnits(EmptyRow) /\ Exact(EmptyRow.money["revenue"])
  BY CleanIs
<1>4. EmptyRow \in RowType
  BY EmptyRowIs
<1>5. /\ B \in RowType /\ B.money = EmptyRow.money /\ B.unallocated = EmptyRow.unallocated
      /\ B.gaps = EmptyRow.gaps /\ B.uncertain = EmptyRow.uncertain /\ B.sold = EmptyRow.sold /\ B.returned = EmptyRow.returned
      /\ (B.unitsKnown <=> EmptyRow.unitsKnown) /\ ~B.classified
  BY <1>4, UnclassifiedIs
<1>6. D = Aside(B, x) /\ c.day = B
  BY <1>1 DEF UnclearOf
<1> HIDE DEF B, D, z, a
<1>7. /\ D \in RowType /\ D.money = B.money /\ D.unallocated = B.unallocated + x
      /\ D.gaps = B.gaps /\ D.uncertain = B.uncertain /\ D.sold = B.sold /\ D.returned = B.returned
      /\ (D.unitsKnown <=> B.unitsKnown) /\ (D.classified <=> B.classified)
  BY <1>5, <1>6, AsideIs
<1>8. D.unallocated = x
  BY <1>2, <1>3, <1>5, <1>7 DEF Clean
<1>9. /\ D.uncertain = {} /\ D.gaps = {} /\ ~D.classified /\ D.money["revenue"] = z /\ Exact(z) /\ EmptyRow.money["revenue"] = z
      /\ D.sold = z /\ D.returned = z
  <2>1. EmptyRow.money["revenue"] = {0}
    BY <1>0, <1>3 DEF Clean
  <2>2. EmptyRow.uncertain = {} /\ EmptyRow.gaps = {} /\ EmptyRow.sold = {0} /\ EmptyRow.returned = {0}
    BY <1>3 DEF Clean
  <2> QED BY <1>3, <1>5, <1>7, <2>1, <2>2 DEF z
<1>10. ASSUME t = NoSku PROVE Piece(y, t, FALSE, a, z, z)
  <2>1. y = [c EXCEPT !.day = D, !.allocated = FALSE]
    BY <1>6, <1>10
  <2>2. c \in LedgerType
    BY <1>1 DEF UnclearOf
  <2>3. Does(c, y, t, D, EmptyRow, Of(t))
    BY <1>7, <1>10, <2>1, <2>2, DoesDay
  <2>4. /\ ~Of(t).unknownSku /\ ~Of(t).sale /\ Of(t).raw = 0 /\ Of(t).complete /\ Of(t).skuUnitsKnown
    BY OfIs
  <2>5. DoesToDay(c, y, D, Of(t)) /\ \A s \in Skus : y.sku[s] = IF s = t THEN EmptyRow ELSE c.sku[s]
    BY <2>3 DEF Does
  <2>6. /\ y \in LedgerType /\ y.day = D /\ y.net = 0 /\ y.mismatch = {0} /\ y.reconciled = {} /\ y.raw = x /\ y.complete
        /\ ~y.unknownSku /\ ~y.sale /\ y.skuUnitsKnown
    BY <1>1, <2>4, <2>5 DEF DoesToDay, UnclearOf
  <2>7. \A s \in Skus : y.sku[s] = IF s = t THEN EmptyRow ELSE EmptyRow
    BY <1>1, <2>5 DEF UnclearOf
  <2>8. t \notin Skus
    BY <1>0, <1>10
  <2>9. RowsSay(y, EmptyRow, t, FALSE, a, z, z)
    <3>1. Balance(EmptyRow.money) = z /\ EmptyRow.sold = z /\ EmptyRow.returned = z /\ EmptyRow.gaps = {} /\ EmptyRow.sold # {} /\ EmptyRow.returned # {}
          /\ \A f \in Fields : EmptyRow.money[f] = {0}
      BY <1>3 DEF NoMoney, Clean, z
    <3>2. Both(Balance(EmptyRow.money), {y.day.unallocated}) = a
      BY <1>2, <1>8, <2>6, <3>1 DEF a
    <3> QED BY <1>9, <2>6, <2>8, <3>1, <3>2 DEF RowsSay, z
  <2> QED BY <1>4, <1>10, <2>6, <2>7, <2>9, PartIs DEF Piece, RawOf, a
<1>11. ASSUME t # NoSku PROVE Piece(y, t, FALSE, a, z, z)
  <2> DEFINE F == [EmptyRow EXCEPT !.from = @ \cup {id}]
             R == Aside(F, x)
             d == Touch(c, t, id)
  <2>0. t \in Skus /\ c.sku[t] = EmptyRow
    BY <1>1, <1>11 DEF UnclearOf
  <2>1. Clean(F) /\ id \in F.from
    BY CleanIs
  <2>2. NoMoney(F) /\ StillUnits(F) /\ F \in RowType
    BY <2>1, CleanIs DEF Clean
  <2>3. c \in LedgerType
    BY <1>1 DEF UnclearOf
  <2>4. [c.sku[t] EXCEPT !.from = @ \cup {id}] = F
    BY <2>0
  <2>5. SkuSet(c, d, t, [c.sku[t] EXCEPT !.from = @ \cup {id}])
    BY <2>3, TouchIs
  <2>6. d = Touch(c, t, id) /\ R = Aside(F, x)
    OBVIOUS
  <2> HIDE DEF F, R, d
  <2>7. SkuSet(c, d, t, F)
    BY <2>4, <2>5
  <2>8. d.sku[t] = F /\ d.day = B /\ d \in LedgerType
    BY <1>6, <2>0, <2>7 DEF SkuSet, SameMarks
  <2>9. y = [d EXCEPT !.day = D, !.sku[t] = R]
    BY <1>6, <1>11, <2>6, <2>8
  <2>10. /\ R \in RowType /\ R.money = F.money
         /\ R.gaps = F.gaps /\ R.uncertain = F.uncertain /\ R.sold = F.sold /\ R.returned = F.returned
         /\ (R.unitsKnown <=> F.unitsKnown) /\ R.from = F.from
    BY <2>2, <2>6, AsideIs
  <2>11. Does(d, y, t, D, R, Of(t))
    BY <1>7, <2>0, <2>8, <2>9, <2>10, DoesSku
  <2>12. /\ ~Of(t).unknownSku /\ ~Of(t).sale /\ Of(t).raw = 0 /\ Of(t).complete /\ Of(t).skuUnitsKnown
    BY OfIs
  <2>13. DoesToDay(d, y, D, Of(t)) /\ \A s \in Skus : y.sku[s] = IF s = t THEN R ELSE d.sku[s]
    BY <2>11 DEF Does
  <2>14. /\ d.net = 0 /\ d.mismatch = {0} /\ d.reconciled = {} /\ RawOf(d) = a
         /\ ~d.unknownSku /\ ~d.sale /\ d.skuUnitsKnown
    BY <1>1, <2>7 DEF SkuSet, SameMarks, UnclearOf, RawOf, a
  <2>15. d.complete /\ d.raw = x
    BY <2>14 DEF RawOf, a
  <2>16. /\ y \in LedgerType /\ y.day = D /\ y.net = 0 /\ y.mismatch = {0} /\ y.reconciled = {} /\ y.raw = x /\ y.complete
         /\ ~y.unknownSku /\ ~y.sale /\ y.skuUnitsKnown
    BY <2>12, <2>13, <2>14, <2>15 DEF DoesToDay
  <2>17. \A s \in Skus : y.sku[s] = IF s = t THEN R ELSE EmptyRow
    <3>1. \A s \in Skus : s # t => d.sku[s] = EmptyRow
      BY <1>1, <2>7 DEF SkuSet, UnclearOf
    <3> QED BY <2>13, <3>1
  <2>18. RowsSay(y, R, t, FALSE, a, z, z)
    <3>1. /\ Balance(R.money) = z /\ R.sold = z /\ R.returned = z /\ R.gaps = {} /\ R.uncertain = {} /\ R.from # {}
          /\ R.money["revenue"] = z
      BY <1>0, <2>1, <2>2, <2>10 DEF NoMoney, StillUnits, Clean, z
    <3>2. Both(Balance(R.money), {y.day.unallocated}) = a
      BY <1>2, <1>8, <2>16, <3>1 DEF a
    <3>3. NetUnits(R) = z
      BY <2>2, <2>10 DEF StillUnits, NetUnits, z
    <3> QED BY <1>9, <2>16, <3>1, <3>2, <3>3 DEF RowsSay, z
  <2> QED BY <1>11, <2>10, <2>16, <2>17, <2>18, PartIs DEF Piece, RawOf, a
<1> QED BY <1>10, <1>11 DEF a, z

\* What a fee is worth to its SKU.
FeeOwn(line) == IF line.type = "ambiguous" THEN {0} ELSE line.amount

(* parse_fee, of a fee that is no return.                                     *)
LEMMA FeeIsPiece ==
  ASSUME NEW line \in FeeLine, NEW id \in Ids, NEW t, t = line.sku, ~line.returns
  PROVE  Piece(Fee(EmptyLedger, line, id), t, FALSE, line.amount, FeeOwn(line), {0})
<1> DEFINE y == Fee(EmptyLedger, line, id)
           x == The(line.amount)
           c == [Counted(EmptyLedger, x) EXCEPT !.day = Unclassified(@)]
           d == Touch(c, t, id)
           w == FeeOwn(line)
           z == {0}
<1>1. /\ t \in Skus \cup {NoSku} /\ line.amount \in Amount
      /\ line.type \in (Fields \ {"revenue"}) \cup {"ambiguous", "unlisted"}
  BY DEF FeeLine
<1>2. "ambiguous" \notin Fields /\ "unlisted" \notin Fields
  BY DEF Fields, Charges
<1>3. z \in Amount /\ w \in Amount /\ Both(z, w) = w
  <2>1. w \in Amount
    BY <1>1, SmallAmounts DEF FeeOwn
  <2> QED BY <2>1, SmallAmounts
<1>4. y = IF line.amount = {} THEN MarkUnknown(Incomplete(EmptyLedger), AnyFee, t, id)
          ELSE IF line.type \in Fields THEN AddComponent(Counted(EmptyLedger, x), line.type, x, t, id)
          ELSE IF line.type = "unlisted" THEN MarkUnknown(AddComponent(c, "other_expenses", x, t, id), _POSSIBLE_FEE_FIELDS, t, id)
          ELSE IF t = NoSku THEN [c EXCEPT !.day = Aside(@, x), !.allocated = FALSE]
          ELSE [Touch(c, t, id) EXCEPT !.day = Aside(@, x), !.sku[t] = Aside(@, x)]
  BY DEF Fee, Unknown
<1>5. /\ (line.amount = {} => y = MarkUnknown(Incomplete(EmptyLedger), AnyFee, t, id))
      /\ (line.amount # {} /\ line.type \in Fields => y = AddComponent(Counted(EmptyLedger, x), line.type, x, t, id))
      /\ (line.amount # {} /\ line.type = "unlisted" => y = MarkUnknown(AddComponent(c, "other_expenses", x, t, id), _POSSIBLE_FEE_FIELDS, t, id))
  BY <1>2, <1>4
<1>6. line.amount # {} /\ line.type = "ambiguous" =>
         /\ (t = NoSku => y = [c EXCEPT !.day = Aside(@, x), !.allocated = FALSE])
         /\ (t # NoSku => y = [Touch(c, t, id) EXCEPT !.day = Aside(@, x), !.sku[t] = Aside(@, x)])
  BY <1>2, <1>4
<1>7. c = [Counted(EmptyLedger, x) EXCEPT !.day = Unclassified(@)]
  OBVIOUS
<1>8. line.amount # {} => x \in Int /\ line.amount = {x}
  BY <1>1, TheInt DEF Unknown
<1>9. w = FeeOwn(line) /\ z = {0}
  OBVIOUS
<1> HIDE DEF y, x, c, d, w, z
<1>10. ASSUME line.amount = {} PROVE Piece(y, t, FALSE, line.amount, w, z)
  <2> DEFINE n == Incomplete(EmptyLedger)
             fs == AnyFee
  <2>1. fs \in SUBSET (Fields \cup {"cogs"}) /\ "cogs" \notin fs
    BY DEF AnyFee, _POSSIBLE_FEE_FIELDS, Fields, Charges
  <2>2. Piece(n, t, FALSE, {}, z, z)
    BY <1>1, <1>9, NothingIsPiece
  <2>3. y = MarkUnknown(n, fs, t, id)
    BY <1>5, <1>10
  <2> HIDE DEF n, fs
  <2>4. Piece(y, t, FALSE, {}, Both(z, w), z)
    BY <1>1, <1>3, <2>1, <2>2, <2>3, ThenUnknownOf
  <2> QED BY <1>3, <1>10, <2>4
<1>11. ASSUME line.amount # {}, line.type \in Fields PROVE Piece(y, t, FALSE, line.amount, w, z)
  <2>1. line.type # "revenue" /\ w = line.amount
    BY <1>1, <1>2, <1>9, <1>11 DEF FeeOwn
  <2>2. "revenue" # line.type => Piece(AddComponent(Counted(EmptyLedger, x), line.type, x, t, id), t, FALSE, {x}, {x}, {0})
    BY <1>1, <1>8, <1>11, KnownComponentIsPiece
  <2> QED BY <1>5, <1>8, <1>9, <1>11, <2>1, <2>2
<1>12. ASSUME line.amount # {}, line.type = "unlisted" PROVE Piece(y, t, FALSE, line.amount, w, z)
  <2>1. y = MarkUnknown(AddComponent(c, "other_expenses", x, t, id), _POSSIBLE_FEE_FIELDS, t, id) /\ x \in Int
    BY <1>5, <1>8, <1>12
  <2>2. Piece(y, t, FALSE, {x}, {x}, {0})
    BY <1>1, <1>7, <2>1, UnlistedIsPiece
  <2>3. w = line.amount
    BY <1>9, <1>12 DEF FeeOwn
  <2> QED BY <1>8, <1>9, <1>12, <2>2, <2>3
<1>13. ASSUME line.amount # {}, line.type = "ambiguous" PROVE Piece(y, t, FALSE, line.amount, w, z)
  <2>1. x \in Int /\ w = {0}
    BY <1>8, <1>9, <1>13 DEF FeeOwn
  <2>2. Piece(y, t, FALSE, {x}, {0}, {0})
    BY <1>1, <1>6, <1>7, <1>13, <2>1, AmbiguousIsPiece
  <2> QED BY <1>8, <1>9, <1>13, <2>1, <2>2
<1> QED BY <1>1, <1>10, <1>11, <1>12, <1>13 DEF w, y, z

(* parse_fee.                                                                 *)
LEMMA FeeReads ==
  ASSUME NEW line \in FeeLine, NEW id \in Ids
  PROVE  Reads(Fee(EmptyLedger, line, id), line.amount, At(FeeOwn(line), line.sku), At({0}, line.sku))
<1> DEFINE t == line.sku
           a == line.amount
           w == FeeOwn(line)
           z == {0}
           still == [line EXCEPT !.returns = FALSE]
           n == MarkReturn(EmptyLedger, t, id)
           e == Fee(EmptyLedger, still, id)
           y == Fee(EmptyLedger, line, id)
<1>1. t \in Skus \cup {NoSku} /\ a \in Amount /\ w \in Amount /\ z \in Amount /\ t = line.sku
  BY SmallAmounts DEF FeeLine, FeeOwn
<1>2. Both(z, a) = a /\ Both(z, w) = w /\ Both(z, z) = z
  BY <1>1, SmallAmounts
<1>3. still \in FeeLine /\ still.sku = t /\ still.amount = a /\ still.type = line.type /\ ~still.returns
  BY DEF FeeLine
<1>4. CASE ~line.returns
  <2>1. Piece(y, t, FALSE, a, w, z)
    BY <1>1, <1>4, FeeIsPiece
  <2> QED BY <2>1, PieceReads
<1>5. CASE line.returns
  <2>1. y = Fee(n, still, id)
    BY <1>3, <1>5 DEF Fee
  <2>2. Piece(n, t, FALSE, z, z, z)
    BY <1>1, ReturnIsPiece
  <2>3. w = FeeOwn(still)
    BY <1>3 DEF FeeOwn
  <2> HIDE DEF still, n
  <2>4. Piece(e, t, FALSE, a, w, z)
    <3>1. Piece(Fee(EmptyLedger, still, id), t, FALSE, still.amount, FeeOwn(still), {0})
      BY <1>3, FeeIsPiece
    <3> QED BY <1>3, <2>3, <3>1
  <2>5. n \in LedgerType
    BY <2>2 DEF Piece, Part
  <2>6. Merges(n, EmptyLedger, n)
    BY <2>5, MergesNothing
  <2>7. Merges(n, e, y)
    BY <1>3, <2>1, <2>6, FeeMerges
  <2>8. Part(e, t, FALSE, a, w, z) /\ RawOf(e) = a
    BY <2>4 DEF Piece
  <2> HIDE DEF a, w, z, e, y, t
  <2>9. Piece(y, t, FALSE, Both(z, a), Both(z, w), Both(z, z))
    BY <1>1, <2>2, <2>7, <2>8, PieceThen
  <2>10. Piece(y, t, FALSE, a, w, z)
    BY <1>2, <2>9
  <2>11. Reads(y, a, At(w, t), At(z, t))
    BY <2>10, PieceReads
  <2> QED BY <2>11 DEF a, w, z, t, y
<1> QED BY <1>4, <1>5

(* What is said of SKUs alike.                                                *)
LEMMA ReadsAlike ==
  ASSUME NEW n, NEW o, NEW p, NEW v, NEW w, NEW own, NEW un, Reads(n, o, v, w), p = o,
         \A s \in Skus : own[s] = v[s] /\ un[s] = w[s]
  PROVE  Reads(n, p, own, un)
<1>1. Says(n, own, un)
  BY DEF Reads, Tells, Says
<1> QED BY <1>1 DEF Reads, Tells

(* Parts of an accrual, one after the other.                                  *)
LEMMA ReadsTogether ==
  ASSUME NEW n, NEW e, NEW m, Merges(n, e, m), NEW o \in Amount, NEW p \in Amount,
         NEW v, NEW w, NEW x, NEW y, Reads(n, o, v, w), Reads(e, p, x, y), NEW own, NEW un,
         \A s \in Skus : own[s] = Both(v[s], x[s]) /\ un[s] = Both(w[s], y[s])
  PROVE  Reads(m, Both(o, p), own, un)
<1> DEFINE q == Both(o, p)
<1>1. Joins(n, e, m)
  BY DEF Merges
<1>2. RawOf(m) = q
  BY RawTogether DEF Reads
<1>3. q \in Amount /\ q = Both(o, p)
  BY BothLaws
<1> HIDE DEF q
<1>4. Tells(n, FALSE, o, v, w) /\ Tells(e, FALSE, p, x, y)
  BY DEF Reads
<1>5. Tells(m, FALSE, q, own, un)
  <2> DEFINE k == FALSE
  <2>1. Tells(n, k, o, v, w) /\ Tells(e, k, p, x, y)
    BY <1>4
  <2>2. q # {} => q = Both(o, p)
    BY <1>3
  <2>3. k \in BOOLEAN /\ ~k
    OBVIOUS
  <2> HIDE DEF k
  <2>4. Tells(m, k, q, own, un)
    BY <1>1, <1>3, <2>1, <2>2, TellsTogether
  <2> QED BY <2>4 DEF k
<1>6. m \in LedgerType /\ m.net = 0 /\ m.mismatch = {0} /\ m.reconciled = {}
  <2>1. /\ m \in LedgerType /\ m.net = n.net + e.net /\ m.mismatch = Both(n.mismatch, e.mismatch)
        /\ m.reconciled = n.reconciled \cup e.reconciled
    BY <1>1 DEF Joins
  <2>2. /\ n.net = 0 /\ n.mismatch = {0} /\ n.reconciled = {}
        /\ e.net = 0 /\ e.mismatch = {0} /\ e.reconciled = {}
    BY DEF Reads
  <2>3. Both({0}, {0}) = {0}
    BY DEF Both
  <2> QED BY <2>1, <2>2, <2>3
<1> QED BY <1>2, <1>5, <1>6 DEF Reads, q

--------------------------------------------------------------------------------
(* An accrual, line by line.                                                  *)

\* What a line is worth to each SKU, and the units it tells of.
LineOwn(a, i) == [s \in Skus |-> IF i \in OwnLines(a, s) THEN LineAmount(a, i) ELSE {0}]
LineUn(a, i) ==
  [s \in Skus |-> IF i \in OwnLines(a, s) /\ a.category = "POSTING" /\ a.lines[i].sells THEN LineUnit(a.lines[i]) ELSE {0}]

(* Accruals and their lines.                                                  *)
LEMMA AccrualIs ==
  ASSUME NEW a \in Accruals
  PROVE  /\ a.total \in Int /\ a.id \in Ids
         /\ HasLines(a) <=> a.category \in FeeCategories \/ a.category = "POSTING"
         /\ ~(a.category \in FeeCategories /\ a.category = "POSTING")
         /\ a.category = "POSTING" => a.lines \in Seq(PostingLine)
         /\ a.category \in FeeCategories => a.lines \in Seq(FeeLine)
<1>1. "POSTING" \notin FeeCategories
  BY DEF FeeCategories
<1> QED BY <1>1, AccrualAssumption DEF Ids, HasLines

(* The tax of a sale.                                                         *)
LEMMA SalesAreExact ==
  ASSUME NEW a \in Accruals, a.category = "POSTING", NEW i \in 1..Len(a.lines)
  PROVE  a.lines[i] \in PostingLine /\ Exact(a.lines[i].sale)
<1>1. a.lines \in Seq(PostingLine)
  BY AccrualIs
<1>2. \A j \in DOMAIN a.lines : \A x \in a.lines[j].sale : (x * OzonTaxRate) % 100 = 0
  BY AccrualAssumption
<1>3. i \in DOMAIN a.lines
  BY <1>1
<1>4. a.lines[i] \in PostingLine
  BY <1>1
<1> QED BY <1>2, <1>3, <1>4 DEF Exact

(* A line of an accrual.                                                      *)
LEMMA LineReads ==
  ASSUME NEW a \in Accruals, HasLines(a), a.listed, NEW i \in 1..Len(a.lines)
  PROVE  /\ LineAmount(a, i) \in Amount
         /\ \A s \in Skus : LineOwn(a, i)[s] \in Amount /\ LineUn(a, i)[s] \in Amount
         /\ Reads(AccrualLine(EmptyLedger, a, i), LineAmount(a, i), LineOwn(a, i), LineUn(a, i))
<1> DEFINE line == a.lines[i]
           e == AccrualLine(EmptyLedger, a, i)
           o == LineAmount(a, i)
<1>0. a.id \in Ids /\ {0} \in Amount /\ {} \in Amount
  BY AccrualIs, SmallAmounts
<1>1. ASSUME a.category = "POSTING"
      PROVE  o \in Amount /\ (\A s \in Skus : LineUn(a, i)[s] \in Amount) /\ Reads(e, o, LineOwn(a, i), LineUn(a, i))
  <2>1. line \in PostingLine /\ Exact(line.sale)
    BY <1>1, SalesAreExact
  <2>2. i \in DOMAIN a.lines
    <3>1. a.lines \in Seq(PostingLine)
      BY <1>1, AccrualIs
    <3> QED BY <3>1
  <2>3. e = ProductLine(EmptyLedger, line, a.id)
    BY <1>1 DEF AccrualLine
  <2>4. o = IF line.damaged THEN {} ELSE Both(SaleAmount(line), Delivered(line))
    BY <1>1 DEF LineAmount, SaleAmount, Delivered, Unknown
  <2>5. \A s \in Skus : i \in OwnLines(a, s) <=> line.sku = s
    BY <1>1, <2>2 DEF OwnLines, LinesOf
  <2>6. SaleAmount(line) \in Amount /\ SaleUnit(line) \in Amount /\ LineUnit(line) \in Amount /\ Delivered(line) \in Amount
    <3>1. Piece(EmptyLedger, line.sku, FALSE, {0}, {0}, {0})
      BY <2>1, LineIsTyped, NothingIsPiece
    <3>2. Delivered(line) \in Amount
      <4> DEFINE z == {0}
                 t == line.sku
      <4>1. z \in Amount /\ Piece(EmptyLedger, t, FALSE, z, z, z) /\ t = line.sku
        BY <1>0, <3>1
      <4> HIDE DEF z, t, line
      <4> QED BY <1>0, <2>1, <4>1, ThenDelivery
    <3> QED BY <2>1, <3>2, LineIsTyped
  <2>7. o \in Amount
    BY <1>0, <2>4, <2>6, BothLaws
  <2>8. \A s \in Skus : LineUn(a, i)[s] = IF line.sku = s THEN SaleUnit(line) ELSE {0}
    BY <1>1, <2>5 DEF LineUn, SaleUnit
  <2>9. \A s \in Skus : LineOwn(a, i)[s] = IF line.sku = s THEN o ELSE {0}
    BY <2>5 DEF LineOwn
  <2>10. \A s \in Skus : LineUn(a, i)[s] \in Amount
    BY <1>0, <2>6, <2>8
  <2> HIDE DEF line, e, o
  <2>11. CASE line.damaged
    <3>1. e = NoPosting(EmptyLedger, a.id)
      BY <2>3, <2>11 DEF ProductLine
    <3>2. Reads(e, {}, LineOwn(a, i), LineUn(a, i))
      BY <1>0, <3>1, NoPostingReads
    <3>3. o = {}
      BY <2>4, <2>11
    <3> QED BY <2>7, <2>10, <3>2, <3>3
  <2>12. CASE ~line.damaged
    <3> DEFINE p == Both(SaleAmount(line), Delivered(line))
               v == At(p, line.sku)
               w == At(SaleUnit(line), line.sku)
    <3>1. Reads(e, p, v, w)
      BY <1>0, <2>1, <2>3, <2>12, ProductLineReads
    <3>2. o = p
      BY <2>4, <2>12
    <3>3. \A s \in Skus : v[s] = IF line.sku = s THEN p ELSE {0}
      BY DEF At
    <3>4. \A s \in Skus : w[s] = IF line.sku = s THEN SaleUnit(line) ELSE {0}
      BY DEF At
    <3> HIDE DEF p, v, w
    <3>5. \A s \in Skus : LineOwn(a, i)[s] = v[s] /\ LineUn(a, i)[s] = w[s]
      BY <2>8, <2>9, <3>2, <3>3, <3>4
    <3>6. Reads(e, o, LineOwn(a, i), LineUn(a, i))
      BY <3>1, <3>2, <3>5, ReadsAlike
    <3> QED BY <2>7, <2>10, <3>6
  <2> QED BY <2>11, <2>12
<1>2. ASSUME a.category # "POSTING"
      PROVE  o \in Amount /\ (\A s \in Skus : LineUn(a, i)[s] \in Amount) /\ Reads(e, o, LineOwn(a, i), LineUn(a, i))
  <2>1. a.lines \in Seq(FeeLine)
    BY <1>2, AccrualIs
  <2>2. line \in FeeLine /\ i \in DOMAIN a.lines
    BY <2>1
  <2>3. e = Fee(EmptyLedger, line, a.id) /\ o = line.amount
    BY <1>2 DEF AccrualLine, LineAmount
  <2>4. o \in Amount
    BY <2>2, <2>3 DEF FeeLine
  <2>5. \A s \in Skus : i \in OwnLines(a, s) <=> line.sku = s /\ line.type # "ambiguous"
    BY <1>2, <2>2 DEF OwnLines, LinesOf
  <2>6. \A s \in Skus : LineUn(a, i)[s] = {0}
    BY <1>2 DEF LineUn
  <2>7. \A s \in Skus : LineOwn(a, i)[s] = IF line.sku = s THEN FeeOwn(line) ELSE {0}
    BY <2>3, <2>5 DEF LineOwn, FeeOwn
  <2> DEFINE v == At(FeeOwn(line), line.sku)
             w == At({0}, line.sku)
  <2>8. (\A s \in Skus : v[s] = IF line.sku = s THEN FeeOwn(line) ELSE {0}) /\ (\A s \in Skus : w[s] = {0})
    BY DEF At
  <2> HIDE DEF line, e, o
  <2>9. Reads(e, line.amount, v, w)
    BY <1>0, <2>2, <2>3, FeeReads
  <2> HIDE DEF v, w
  <2>10. \A s \in Skus : LineOwn(a, i)[s] = v[s] /\ LineUn(a, i)[s] = w[s]
    BY <2>6, <2>7, <2>8
  <2>11. Reads(e, o, LineOwn(a, i), LineUn(a, i))
    BY <2>3, <2>9, <2>10, ReadsAlike
  <2> QED BY <1>0, <2>4, <2>6, <2>11
<1>3. o \in Amount => \A s \in Skus : LineOwn(a, i)[s] \in Amount
  BY <1>0 DEF LineOwn
<1> QED BY <1>1, <1>2, <1>3

\* The total of the first amounts.
Upto(g, k) == Total([i \in 1..k |-> g[i]])

(* One amount more.                                                           *)
LEMMA OneMore ==
  ASSUME NEW N \in Nat, NEW g, \A i \in 1..N : g[i] \in Amount, NEW k \in 1..N
  PROVE  Upto(g, k) \in Amount /\ Upto(g, k - 1) \in Amount /\ Upto(g, k) = Both(Upto(g, k - 1), g[k])
<1> DEFINE f == [i \in 1..k - 1 |-> g[i]]
           h == [i \in 1..k |-> g[i]]
           I == 1..k - 1
<1>1. IsFiniteSet(1..k - 1) /\ IsFiniteSet(1..k)
  BY FS_Interval
<1>2. f \in [1..k - 1 -> Amount] /\ h \in [1..k -> Amount]
  OBVIOUS
<1>3. k \notin 1..k - 1 /\ (1..k - 1) \cup {k} = 1..k
  OBVIOUS
<1>4. \A i \in 1..k - 1 : h[i] = f[i]
  BY <1>3
<1>5. h[k] = g[k]
  OBVIOUS
<1>6. h \in [I \cup {k} -> Amount] /\ f \in [I -> Amount] /\ IsFiniteSet(I) /\ k \notin I /\ \A i \in I : h[i] = f[i]
  BY <1>1, <1>2, <1>3, <1>4
<1>7. Total(h) \in Amount /\ Total(f) \in Amount
  BY <1>1, <1>2, TotalIs
<1> HIDE DEF f, h, I
<1>8. Total(h) = Both(Total(f), h[k])
  BY <1>6, TotalWith
<1> QED BY <1>5, <1>7, <1>8 DEF f, h, Upto

(* None of the amounts, and all of them.                                      *)
LEMMA NoneAndAll ==
  ASSUME NEW N \in Nat, NEW g, \A i \in 1..N : g[i] \in Amount
  PROVE  Upto(g, 0) = {0} /\ Upto(g, N) \in Amount /\ Upto(g, 0) \in Amount
<1>1. Upto(g, 0) = {0}
  <2>1. 1..0 = {}
    OBVIOUS
  <2>2. [j \in 1..0 |-> g[j]] \in [{} -> Amount]
    BY <2>1
  <2> QED BY <2>2, TotalOfNone DEF Upto
<1>2. Upto(g, N) \in Amount
  <2>1. CASE N = 0
    BY <1>1, <2>1, SmallAmounts
  <2>2. CASE N # 0
    <3>1. N \in 1..N
      BY <2>2
    <3> QED BY <3>1, OneMore
  <2> QED BY <2>1, <2>2
<1> QED BY <1>1, <1>2, SmallAmounts

\* What the lines of an accrual come to: in all, for each SKU, and its units.
RawTotal(a) == Total([i \in LinesOf(a) |-> LineAmount(a, i)])
KnownLines(a) == IF HasLines(a) THEN LinesOf(a) ELSE {}
OwnOf(a) == [s \in Skus |-> Total([i \in KnownLines(a) |-> LineOwn(a, i)[s]])]
UnOf(a) == [s \in Skus |-> Total([i \in KnownLines(a) |-> LineUn(a, i)[s]])]

(* An accrual without lines.                                                  *)
LEMMA NoLines ==
  ASSUME NEW a \in Accruals, ~(HasLines(a) /\ a.listed)
  PROVE  \A s \in Skus : OwnOf(a)[s] = {0} /\ UnOf(a)[s] = {0}
<1>1. KnownLines(a) = {}
  BY DEF KnownLines, LinesOf
<1>3. \A s \in Skus : [i \in KnownLines(a) |-> LineOwn(a, i)[s]] \in [{} -> Amount]
                      /\ [i \in KnownLines(a) |-> LineUn(a, i)[s]] \in [{} -> Amount]
  BY <1>1
<1>4. \A g \in [{} -> Amount] : Total(g) = {0}
  BY TotalOfNone
<1> QED BY <1>3, <1>4 DEF OwnOf, UnOf

(* The lines of an accrual.                                                   *)
LEMMA LinesRead ==
  ASSUME NEW a \in Accruals, HasLines(a), a.listed
  PROVE  /\ RawTotal(a) \in Amount /\ \A s \in Skus : OwnOf(a)[s] \in Amount /\ UnOf(a)[s] \in Amount
         /\ Reads(Lines(EmptyLedger, a), RawTotal(a), OwnOf(a), UnOf(a))
<1> DEFINE N == Len(a.lines)
           R == [i \in 1..N |-> LineAmount(a, i)]
           O == [s \in Skus |-> [i \in 1..N |-> LineOwn(a, i)[s]]]
           U == [s \in Skus |-> [i \in 1..N |-> LineUn(a, i)[s]]]
           V(k) == [s \in Skus |-> Upto(O[s], k)]
           W(k) == [s \in Skus |-> Upto(U[s], k)]
           e == [i \in 1..N |-> AccrualLine(EmptyLedger, a, i)]
<1>1. N \in Nat /\ LinesOf(a) = 1..N /\ KnownLines(a) = 1..N
  <2>1. a.lines \in Seq(PostingLine) \/ a.lines \in Seq(FeeLine)
    BY AccrualIs
  <2>2. N \in Nat /\ DOMAIN a.lines = 1..N
    BY <2>1
  <2> QED BY <2>2 DEF LinesOf, KnownLines
<1>2. PICK f : /\ f[0] = EmptyLedger /\ f[N] = Lines(EmptyLedger, a)
               /\ \A k \in 1..N : f[k] = AccrualLine(f[k - 1], a, k)
  BY EmptyIs, LinesAre
<1>3. /\ \A i \in 1..N : R[i] \in Amount
      /\ \A i \in 1..N, s \in Skus : O[s][i] \in Amount /\ U[s][i] \in Amount
      /\ \A i \in 1..N : Reads(e[i], R[i], LineOwn(a, i), LineUn(a, i))
  BY LineReads
<1>4. \A i \in 1..N, s \in Skus : O[s][i] = LineOwn(a, i)[s] /\ U[s][i] = LineUn(a, i)[s]
  OBVIOUS
<1>5. RawTotal(a) = Upto(R, N) /\ \A s \in Skus : OwnOf(a)[s] = Upto(O[s], N) /\ UnOf(a)[s] = Upto(U[s], N)
  <2>1. [i \in 1..N |-> R[i]] = [i \in LinesOf(a) |-> LineAmount(a, i)]
    BY <1>1
  <2>2. \A s \in Skus : [i \in 1..N |-> O[s][i]] = [i \in KnownLines(a) |-> LineOwn(a, i)[s]]
                        /\ [i \in 1..N |-> U[s][i]] = [i \in KnownLines(a) |-> LineUn(a, i)[s]]
    BY <1>1
  <2> HIDE DEF R, O, U
  <2> QED BY <2>1, <2>2 DEF RawTotal, OwnOf, UnOf, Upto
<1>6. \A i \in 1..N : e[i] = AccrualLine(EmptyLedger, a, i)
  OBVIOUS
<1>7. \A k, s : s \in Skus => V(k)[s] = Upto(O[s], k) /\ W(k)[s] = Upto(U[s], k)
  OBVIOUS
<1>8. N = Len(a.lines)
  OBVIOUS
<1> HIDE DEF N, R, O, U, V, W, e
<1>9. Upto(R, 0) = {0} /\ Upto(R, N) \in Amount /\ Upto(R, 0) \in Amount
  BY <1>1, <1>3, NoneAndAll
<1>10. \A s \in Skus : Upto(O[s], 0) = {0} /\ Upto(O[s], N) \in Amount /\ Upto(U[s], 0) = {0} /\ Upto(U[s], N) \in Amount
  BY <1>1, <1>3, NoneAndAll
<1> DEFINE T == {k \in 0..N : Reads(f[k], Upto(R, k), V(k), W(k))}
<1>11. 0 \in T
  <2>1. Piece(EmptyLedger, NoSku, FALSE, {0}, {0}, {0})
    BY NothingIsPiece
  <2>2. Reads(EmptyLedger, {0}, At({0}, NoSku), At({0}, NoSku))
    BY <2>1, PieceReads
  <2>3. \A s \in Skus : V(0)[s] = At({0}, NoSku)[s] /\ W(0)[s] = At({0}, NoSku)[s]
    BY <1>7, <1>10 DEF At
  <2>4. Reads(EmptyLedger, Upto(R, 0), V(0), W(0))
    BY <1>9, <2>2, <2>3, ReadsAlike
  <2> QED BY <1>1, <1>2, <2>4
<1>12. ASSUME NEW k \in 1..N, k - 1 \in T PROVE k \in T
  <2>1. Reads(f[k - 1], Upto(R, k - 1), V(k - 1), W(k - 1))
    BY <1>12
  <2>2. Upto(R, k) \in Amount /\ Upto(R, k - 1) \in Amount /\ Upto(R, k) = Both(Upto(R, k - 1), R[k])
    BY <1>1, <1>3, OneMore
  <2>3. \A s \in Skus : Upto(O[s], k) = Both(Upto(O[s], k - 1), O[s][k]) /\ Upto(U[s], k) = Both(Upto(U[s], k - 1), U[s][k])
    BY <1>1, <1>3, OneMore
  <2>4. f[k - 1] \in LedgerType
    BY <2>1 DEF Reads
  <2>5. Merges(f[k - 1], EmptyLedger, f[k - 1])
    BY <2>4, MergesNothing
  <2>6. Merges(f[k - 1], e[k], f[k])
    BY <1>2, <1>6, <1>8, <2>5, AccrualLineMerges
  <2>7. Reads(e[k], R[k], LineOwn(a, k), LineUn(a, k)) /\ R[k] \in Amount
    BY <1>3
  <2>8. \A s \in Skus : V(k)[s] = Both(V(k - 1)[s], LineOwn(a, k)[s]) /\ W(k)[s] = Both(W(k - 1)[s], LineUn(a, k)[s])
    BY <1>4, <1>7, <2>3
  <2>9. Reads(f[k], Both(Upto(R, k - 1), R[k]), V(k), W(k))
    <3> DEFINE o == Upto(R, k - 1)
               p == R[k]
               v == V(k - 1)
               w == W(k - 1)
               x == LineOwn(a, k)
               y == LineUn(a, k)
               own == V(k)
               un == W(k)
    <3>1. o \in Amount /\ p \in Amount /\ Reads(f[k - 1], o, v, w) /\ Reads(e[k], p, x, y)
          /\ \A s \in Skus : own[s] = Both(v[s], x[s]) /\ un[s] = Both(w[s], y[s])
      BY <2>1, <2>2, <2>7, <2>8
    <3> HIDE DEF o, p, v, w, x, y, own, un
    <3>2. Reads(f[k], Both(o, p), own, un)
      BY <2>6, <3>1, ReadsTogether
    <3> QED BY <3>2 DEF o, p, own, un
  <2>10. k \in 0..N
    BY <1>1
  <2> QED BY <2>2, <2>9, <2>10
<1> HIDE DEF T
<1>13. N \in T
  <2>1. \A k \in 0..N : k \in T
    BY <1>1, <1>11, <1>12, InductionTo
  <2> QED BY <1>1, <2>1
<1>14. Reads(f[N], Upto(R, N), V(N), W(N))
  BY <1>13 DEF T
<1>15. \A s \in Skus : OwnOf(a)[s] = V(N)[s] /\ UnOf(a)[s] = W(N)[s]
  BY <1>5, <1>7
<1>16. Reads(f[N], RawTotal(a), OwnOf(a), UnOf(a))
  BY <1>5, <1>14, <1>15, ReadsAlike
<1> QED BY <1>2, <1>5, <1>9, <1>10, <1>16

(* A part whose money is not known.                                           *)
LEMMA ReadsNoMore ==
  ASSUME NEW n, NEW e, NEW m, Merges(n, e, m), NEW o \in Amount, NEW own, NEW un, Reads(n, o, own, un),
         NEW t, Part(e, t, FALSE, {}, {0}, {0}), RawOf(m) = {}, \A s \in Skus : own[s] \in Amount /\ un[s] \in Amount
  PROVE  Reads(m, {}, own, un)
<1> DEFINE q == {}
           x == At({0}, t)
           k == FALSE
<1>1. Joins(n, e, m)
  BY DEF Merges
<1>2. q \in Amount /\ (q # {} => q = Both(o, q))
  BY SmallAmounts
<1>3. Tells(n, k, o, own, un) /\ Tells(e, k, q, x, x)
  BY DEF Reads, Part
<1>4. \A s \in Skus : x[s] = {0}
  BY DEF At
<1>5. \A s \in Skus : own[s] = Both(own[s], x[s]) /\ un[s] = Both(un[s], x[s])
  <2> HIDE DEF x
  <2> QED BY <1>4, SmallAmounts
<1>6. m \in LedgerType /\ m.net = 0 /\ m.mismatch = {0} /\ m.reconciled = {}
  <2>1. /\ m \in LedgerType /\ m.net = n.net + e.net /\ m.mismatch = Both(n.mismatch, e.mismatch)
        /\ m.reconciled = n.reconciled \cup e.reconciled
    BY <1>1 DEF Joins
  <2>2. /\ n.net = 0 /\ n.mismatch = {0} /\ n.reconciled = {}
        /\ e.net = 0 /\ e.mismatch = {0} /\ e.reconciled = {}
    BY DEF Reads, Part
  <2>3. Both({0}, {0}) = {0}
    BY DEF Both
  <2> QED BY <2>1, <2>2, <2>3
<1>7. q = {} /\ ~k /\ k \in BOOLEAN
  OBVIOUS
<1> HIDE DEF q, x, k
<1>8. Tells(m, k, q, own, un)
  BY <1>1, <1>2, <1>3, <1>5, TellsTogether
<1> QED BY <1>6, <1>7, <1>8 DEF Reads, q, k

(* An accrual that is not complete.                                           *)
LEMMA ReadsIncomplete ==
  ASSUME NEW n, NEW o \in Amount, NEW own, NEW un, Reads(n, o, own, un),
         \A s \in Skus : own[s] \in Amount /\ un[s] \in Amount
  PROVE  Reads(Incomplete(n), {}, own, un)
<1> DEFINE e == Incomplete(EmptyLedger)
           m == Incomplete(n)
<1>1. Merges(n, EmptyLedger, n)
  BY MergesNothing DEF Reads
<1>2. Merges(n, e, m)
  BY <1>1, IncompleteMerges
<1>3. Piece(e, NoSku, FALSE, {}, {0}, {0})
  BY NothingIsPiece
<1>4. RawOf(m) = {}
  <2>1. Both(RawOf(n), {}) = {}
    BY DEF Both
  <2>2. RawOf(m) = Both(RawOf(n), RawOf(e)) /\ RawOf(e) = {}
    <3> HIDE DEF e, m
    <3> QED BY <1>2, <1>3, RawTogether DEF Piece
  <2> QED BY <2>1, <2>2
<1> HIDE DEF e, m
<1>5. Part(e, NoSku, FALSE, {}, {0}, {0})
  BY <1>3 DEF Piece
<1>6. Reads(m, {}, own, un)
  BY <1>2, <1>4, <1>5, ReadsNoMore
<1> QED BY <1>6 DEF m

(* Null deliveries of an accrual that does not reconcile.                     *)
LEMMA NullDeliveriesRead ==
  ASSUME NEW n, NEW a \in Accruals, a.category = "POSTING", NEW own, NEW un, Reads(n, {}, own, un),
         \A s \in Skus : own[s] \in Amount /\ un[s] \in Amount
  PROVE  Reads(NullDeliveries(n, a), {}, own, un)
<1> DEFINE N == Len(a.lines)
<1>1. n \in LedgerType
  BY DEF Reads
<1>2. PICK f : /\ f[0] = n /\ f[N] = NullDeliveries(n, a)
               /\ \A k \in 1..N : f[k] = (IF IsNull(a.lines[k]) THEN MarkGap(f[k - 1], "logistics", a.lines[k].sku, a.id) ELSE f[k - 1])
  BY <1>1, NullDeliveriesAre
<1>3. N \in Nat /\ \A k \in 1..N : a.lines[k].sku \in Skus \cup {NoSku}
  <2>1. a.lines \in Seq(PostingLine)
    BY AccrualIs
  <2>2. N \in Nat /\ \A k \in 1..N : a.lines[k] \in PostingLine
    BY <2>1
  <2>3. \A line \in PostingLine : line.sku \in Skus \cup {NoSku}
    BY DEF PostingLine
  <2> QED BY <2>2, <2>3
<1>4. "logistics" \in Fields /\ a.id \in Ids
  BY AccrualIs DEF Fields, Charges
<1> HIDE DEF N
<1> DEFINE T == {k \in 0..N : Reads(f[k], {}, own, un)}
<1>5. 0 \in T
  BY <1>2, <1>3
<1>6. ASSUME NEW k \in 1..N, k - 1 \in T PROVE k \in T
  <2> DEFINE t == a.lines[k].sku
             x == f[k - 1]
             y == f[k]
             e == MarkGap(EmptyLedger, "logistics", t, a.id)
  <2>1. Reads(x, {}, own, un)
    BY <1>6
  <2>2. k \in 0..N /\ t \in Skus \cup {NoSku}
    BY <1>3
  <2>3. y = (IF IsNull(a.lines[k]) THEN MarkGap(x, "logistics", t, a.id) ELSE x)
    BY <1>2
  <2>4. CASE ~IsNull(a.lines[k])
    BY <2>1, <2>2, <2>3, <2>4
  <2>5. CASE IsNull(a.lines[k])
    <3>1. y = MarkGap(x, "logistics", t, a.id)
      BY <2>3, <2>5
    <3> HIDE DEF t, x, y
    <3>2. Part(e, t, FALSE, {}, {0}, {0})
      BY <1>4, <2>2, GapIsPart
    <3>3. Merges(x, EmptyLedger, x)
      BY <2>1, MergesNothing DEF Reads
    <3>4. Merges(x, e, y)
      BY <1>4, <2>2, <3>1, <3>3, MarkGapMerges
    <3> HIDE DEF e
    <3>5. RawOf(y) = {}
      <4>1. RawOf(x) = {}
        BY <2>1 DEF Reads
      <4>2. RawOf(y) = Both(RawOf(x), RawOf(e))
        BY <3>4, RawTogether
      <4>3. Both({}, RawOf(e)) = {}
        BY DEF Both
      <4> QED BY <4>1, <4>2, <4>3
    <3> DEFINE v == {}
    <3>6. v \in Amount /\ v = {} /\ Reads(x, v, own, un)
      BY <2>1, SmallAmounts
    <3> HIDE DEF v
    <3>7. Reads(y, {}, own, un)
      BY <3>2, <3>4, <3>5, <3>6, ReadsNoMore
    <3> QED BY <2>2, <3>7 DEF y
  <2> QED BY <2>4, <2>5
<1> HIDE DEF T
<1>7. N \in T
  <2>1. \A k \in 0..N : k \in T
    BY <1>3, <1>5, <1>6, InductionTo
  <2> QED BY <1>3, <2>1
<1> QED BY <1>2, <1>7 DEF T

\* What the details of an accrual come to, as its lines say.
DetailOf(a) == IF Legible(a) THEN RawTotal(a) ELSE {}
NullLine(a) == a.category = "POSTING" /\ \E i \in LinesOf(a) : a.lines[i].delivery = "null"

(* An accrual that can be read.                                               *)
LEMMA LegibleIs ==
  ASSUME NEW a \in Accruals
  PROVE  /\ DetailOf(a) \in Amount /\ (Legible(a) <=> DetailOf(a) # {})
         /\ Legible(a) => HasLines(a) /\ a.listed /\ RawTotal(a) = {SumOfLines(a, LinesOf(a))}
         /\ HasLines(a) /\ a.listed =>
              /\ RawTotal(a) # {} <=> \A i \in LinesOf(a) : LineAmount(a, i) # {}
              /\ Legible(a) <=> RawTotal(a) # {} /\ (NullLine(a) => RawTotal(a) = {a.total})
         /\ Reconciled(a) <=> DetailOf(a) = {a.total}
<1> DEFINE f == [i \in LinesOf(a) |-> LineAmount(a, i)]
           g == SumOfLines(a, LinesOf(a))
<1>1. RawTotal(a) = IF \E i \in LinesOf(a) : LineAmount(a, i) = {} THEN {} ELSE {g}
  <2>1. DOMAIN f = LinesOf(a) /\ \A i \in LinesOf(a) : f[i] = LineAmount(a, i)
    OBVIOUS
  <2>2. [x \in LinesOf(a) |-> The(f[x])] = [x \in LinesOf(a) |-> The(LineAmount(a, x))]
    BY <2>1
  <2>3. RawTotal(a) = Total(f)
    BY DEF RawTotal
  <2> HIDE DEF f
  <2> QED BY <2>1, <2>2, <2>3 DEF Total, Unknown, SumOfLines
<1>2. HasLines(a) /\ a.listed => RawTotal(a) \in Amount
  BY LinesRead
<1>3. Legible(a) <=> /\ HasLines(a) /\ a.listed /\ \A i \in LinesOf(a) : LineAmount(a, i) # {}
                     /\ NullLine(a) => a.total = g
  BY DEF Legible, HasLines, NullLine, Unknown
<1> HIDE DEF f, g
<1>4. RawTotal(a) # {} <=> \A i \in LinesOf(a) : LineAmount(a, i) # {}
  BY <1>1
<1>5. RawTotal(a) # {} => RawTotal(a) = {g}
  BY <1>1
<1>6. Reconciled(a) <=> Legible(a) /\ a.total = g
  BY DEF Reconciled, g
<1>7. Legible(a) => HasLines(a) /\ a.listed /\ RawTotal(a) = {g} /\ DetailOf(a) = {g}
  BY <1>3, <1>4, <1>5 DEF DetailOf
<1>8. ~Legible(a) => DetailOf(a) = {}
  BY DEF DetailOf
<1>9. DetailOf(a) \in Amount
  BY <1>2, <1>7, <1>8, SmallAmounts
<1>10. Legible(a) <=> DetailOf(a) # {}
  BY <1>7, <1>8
<1>11. Reconciled(a) <=> DetailOf(a) = {a.total}
  BY <1>6, <1>7, <1>8
<1>12. HasLines(a) /\ a.listed => (Legible(a) <=> RawTotal(a) # {} /\ (NullLine(a) => RawTotal(a) = {a.total}))
  BY <1>3, <1>4, <1>5
<1> QED BY <1>4, <1>7, <1>9, <1>10, <1>11, <1>12 DEF g

(* _normalize_accrual without its lines.                                      *)
LEMMA UnlistedReads ==
  ASSUME NEW a \in Accruals, NEW n \in {Incomplete(EmptyLedger), [Incomplete(EmptyLedger) EXCEPT !.day = Aside(@, a.total)]},
         NEW fs \in SUBSET (Fields \cup {"cogs"}), "cogs" \notin fs
  PROVE  Reads(MarkUnknown(n, fs, NoSku, a.id), {}, At({}, NoSku), At({0}, NoSku))
<1> DEFINE I == Incomplete(EmptyLedger)
           D == Aside(EmptyRow, a.total)
           z == {0}
           v == {}
           y == MarkUnknown(n, fs, NoSku, a.id)
<1>1. a.total \in Int /\ a.id \in Ids
  BY AccrualIs
<1>2. /\ EmptyRow \in RowType /\ EmptyRow.unallocated = 0 /\ EmptyRow.sold = z /\ EmptyRow.returned = z /\ EmptyRow.uncertain = {}
      /\ EmptyRow.unitsKnown /\ \A f \in Fields : EmptyRow.money[f] = {0}
  BY EmptyRowIs
<1>3. Clean(EmptyRow) /\ NoMoney(EmptyRow) /\ StillUnits(EmptyRow) /\ Exact(EmptyRow.money["revenue"])
  BY CleanIs
<1>4. /\ D \in RowType /\ D.money = EmptyRow.money /\ D.uncertain = EmptyRow.uncertain /\ (D.unitsKnown <=> EmptyRow.unitsKnown)
  <2> DEFINE x == a.total
  <2>1. x \in Int /\ D = Aside(EmptyRow, x)
    BY <1>1
  <2> HIDE DEF x, D
  <2> QED BY <1>2, <2>1, AsideIs
<1>5. Piece(I, NoSku, FALSE, v, z, z) /\ I \in LedgerType /\ I.day = EmptyRow /\ (\A s \in Skus : I.sku[s] = EmptyRow)
  <2>1. Piece(I, NoSku, FALSE, v, z, z)
    BY NothingIsPiece
  <2>2. I \in LedgerType /\ I.day = EmptyLedger.day /\ I.sku = EmptyLedger.sku
    BY CountedIs, EmptyLedgerIs
  <2> HIDE DEF I
  <2> QED BY <2>1, <2>2, EmptyLedgerIs
<1>6. n = I \/ n = [I EXCEPT !.day = D]
  <2>1. I.day = EmptyRow
    BY <1>5
  <2> QED BY <2>1
<1>7. z = {0} /\ v = {} /\ v \in Amount /\ z \in Amount /\ Both(z, v) = v
  BY SmallAmounts
<1> HIDE DEF I, D, z, v
<1>8. I.skuUnitsKnown /\ I.net = 0 /\ I.mismatch = {0} /\ I.reconciled = {} /\ RawOf(I) = v /\ ~I.sale
  <2>1. Firm(I, FALSE) /\ I.net = 0 /\ I.mismatch = {0} /\ I.reconciled = {} /\ RawOf(I) = v
    BY <1>5 DEF Piece, Part, Tells
  <2>2. DoesToDay(EmptyLedger, Incomplete(EmptyLedger), EmptyLedger.day, [Still EXCEPT !.complete = FALSE])
    BY CountedIs, EmptyLedgerIs
  <2>3. ([Still EXCEPT !.complete = FALSE].sale = FALSE) /\ ([Still EXCEPT !.complete = FALSE].skuUnitsKnown = TRUE)
    BY DEF Still
  <2> DEFINE W == [Still EXCEPT !.complete = FALSE]
  <2>4. DoesToDay(EmptyLedger, I, EmptyLedger.day, W) /\ ~W.sale /\ W.skuUnitsKnown
    BY <2>2, <2>3 DEF I
  <2> HIDE DEF W
  <2>5. ~I.sale /\ I.skuUnitsKnown
    BY <2>4, EmptyLedgerIs DEF DoesToDay
  <2> QED BY <2>1, <2>5
<1>9. Piece(n, NoSku, FALSE, v, z, z)
  <2>1. CASE n = I
    BY <1>5, <2>1
  <2>2. CASE n = [I EXCEPT !.day = D]
    <3>1. SameMarks(I, n) /\ n.day = D /\ n.sku = I.sku
      BY <1>4, <1>5, <2>2, SetDay
    <3>2. \A s \in Skus : n.sku[s] = IF s = NoSku THEN EmptyRow ELSE EmptyRow
      BY <1>5, <3>1
    <3>3. NoSku \notin Skus /\ "revenue" \in Fields
      BY AccrualAssumption DEF Fields
    <3>4. RowsSay(n, EmptyRow, NoSku, FALSE, {}, z, z)
      <4>1. "cogs" \notin n.day.uncertain /\ Exact(n.day.money["revenue"]) /\ n.skuUnitsKnown /\ EmptyRow.sold # {} /\ EmptyRow.returned # {}
        BY <1>2, <1>3, <1>4, <1>7, <1>8, <3>1 DEF SameMarks
      <4> QED BY <1>2, <1>3, <1>7, <3>3, <4>1 DEF RowsSay
    <3>5. n \in LedgerType /\ n.net = 0 /\ n.mismatch = {0} /\ n.reconciled = {} /\ RawOf(n) = v
      BY <1>8, <3>1 DEF SameMarks
    <3>6. Part(n, NoSku, FALSE, {}, z, z)
      BY <1>2, <3>2, <3>4, <3>5, PartIs
    <3> QED BY <1>7, <3>5, <3>6 DEF Piece
  <2> QED BY <1>6, <2>1, <2>2
<1>10. Piece(y, NoSku, FALSE, {}, {}, z)
  <2>1. Piece(n, NoSku, FALSE, {}, z, z)
    BY <1>7, <1>9
  <2> HIDE DEF y
  <2>2. y = MarkUnknown(n, fs, NoSku, a.id)
    BY DEF y
  <2> QED BY <1>1, <1>7, <2>1, <2>2, ThenUnknown
<1>11. Reads(y, {}, At({}, NoSku), At(z, NoSku))
  <2> HIDE DEF y
  <2> QED BY <1>10, PieceReads
<1> QED BY <1>7, <1>11

(* _normalize_accrual, before the total is compared.                          *)
LEMMA DetailsRead ==
  ASSUME NEW a \in Accruals
  PROVE  /\ \A s \in Skus : OwnOf(a)[s] \in Amount /\ UnOf(a)[s] \in Amount
         /\ Reads(Details(EmptyLedger, a), DetailOf(a), OwnOf(a), UnOf(a))
<1> DEFINE y == Details(EmptyLedger, a)
           own == OwnOf(a)
           un == UnOf(a)
           G == (\A s \in Skus : own[s] \in Amount /\ un[s] \in Amount) /\ Reads(y, DetailOf(a), own, un)
<1>0. /\ a.total \in Int /\ a.id \in Ids /\ (HasLines(a) <=> a.category \in FeeCategories \/ a.category = "POSTING")
      /\ ~(a.category \in FeeCategories /\ a.category = "POSTING")
  BY AccrualIs
<1>1. {} \in Amount /\ {0} \in Amount
  BY SmallAmounts
<1>2. AnyFee \in SUBSET (Fields \cup {"cogs"}) /\ "cogs" \notin AnyFee
      /\ {"revenue"} \cup AnyFee \in SUBSET (Fields \cup {"cogs"}) /\ "cogs" \notin {"revenue"} \cup AnyFee
  BY DEF AnyFee, _POSSIBLE_FEE_FIELDS, Fields, Charges
<1>3. NoSku \notin Skus
  BY AccrualAssumption
<1>4. ~(HasLines(a) /\ a.listed) => DetailOf(a) = {}
  BY LegibleIs
<1>5. ASSUME NEW n \in {Incomplete(EmptyLedger), [Incomplete(EmptyLedger) EXCEPT !.day = Aside(@, a.total)]},
             NEW fs \in SUBSET (Fields \cup {"cogs"}), "cogs" \notin fs, y = MarkUnknown(n, fs, NoSku, a.id),
             ~(HasLines(a) /\ a.listed)
      PROVE  G
  <2> DEFINE v == At({}, NoSku)
             w == At({0}, NoSku)
             o == {}
             p == DetailOf(a)
  <2>1. Reads(y, o, v, w)
    BY <1>5, UnlistedReads
  <2>2. \A s \in Skus : v[s] = {0} /\ w[s] = {0}
    BY <1>3 DEF At
  <2>3. \A s \in Skus : own[s] = {0} /\ un[s] = {0}
    BY <1>5, NoLines
  <2>4. p = o
    BY <1>4, <1>5
  <2> HIDE DEF v, w, y, own, un, o, p
  <2>5. \A s \in Skus : own[s] = v[s] /\ un[s] = w[s]
    BY <2>2, <2>3
  <2>6. Reads(y, p, own, un)
    BY <2>1, <2>4, <2>5, ReadsAlike
  <2> QED BY <1>1, <2>3, <2>6 DEF p
<1>6. CASE HasLines(a) /\ a.listed
  <2> DEFINE L == Lines(EmptyLedger, a)
  <2>1. RawTotal(a) \in Amount /\ (\A s \in Skus : own[s] \in Amount /\ un[s] \in Amount) /\ Reads(L, RawTotal(a), own, un)
    BY <1>6, LinesRead
  <2>2. /\ DetailOf(a) = IF Legible(a) THEN RawTotal(a) ELSE {}
        /\ Legible(a) <=> RawTotal(a) # {} /\ (NullLine(a) => RawTotal(a) = {a.total})
        /\ RawTotal(a) # {} <=> \A i \in LinesOf(a) : LineAmount(a, i) # {}
    BY <1>6, LegibleIs DEF DetailOf
  <2>3. CASE a.category \in FeeCategories
    <3>1. y = L
      BY <1>0, <1>6, <2>3 DEF Details
    <3>2. ~NullLine(a)
      BY <1>0, <2>3 DEF NullLine
    <3>3. DetailOf(a) = RawTotal(a)
      BY <2>2, <3>2
    <3> QED BY <2>1, <3>1, <3>3
  <2>4. CASE a.category = "POSTING"
    <3> DEFINE some == \E i \in DOMAIN a.lines : IsNull(a.lines[i])
    <3>1. y = WithNullDeliveries(L, a)
      <4>1. y = CASE TRUE -> WithNullDeliveries(L, a)
                  [] a.category = "POSTING" /\ ~a.listed -> NoPosting(EmptyLedger, a.id)
                  [] a.category \in FeeCategories /\ a.listed -> L
                  [] a.category \in FeeCategories /\ ~a.listed -> MarkUnknown(Incomplete(EmptyLedger), AnyFee, NoSku, a.id)
                  [] OTHER -> MarkUnknown([Incomplete(EmptyLedger) EXCEPT !.day = Aside(@, a.total)],
                                {"revenue"} \cup AnyFee, NoSku, a.id)
        BY <1>6, <2>4 DEF Details
      <4> QED BY <1>0, <1>6, <2>4, <4>1
    <3>2. LinesOf(a) = DOMAIN a.lines
      BY <1>6 DEF LinesOf
    <3>3. \A i \in LinesOf(a) : a.lines[i].damaged => LineAmount(a, i) = {}
      BY <2>4 DEF LineAmount, Unknown
    <3>4. RawTotal(a) # {} => (NullLine(a) <=> some)
      BY <2>2, <2>4, <3>2, <3>3 DEF NullLine, IsNull
    <3>5. L.complete /\ L.raw = a.total <=> RawTotal(a) = {a.total}
      BY <2>1 DEF Reads, RawOf
    <3>6. y = IF some /\ RawTotal(a) # {a.total} THEN NullDeliveries(Incomplete(L), a) ELSE L
      BY <3>1, <3>5 DEF WithNullDeliveries
    <3>7. CASE some /\ RawTotal(a) # {a.total}
      <4>1. DetailOf(a) = {}
        BY <2>2, <3>4, <3>7
      <4>2. y = NullDeliveries(Incomplete(L), a)
        BY <3>6, <3>7
      <4> DEFINE p == Incomplete(L)
                 o == RawTotal(a)
      <4>3. Reads(p, {}, own, un)
        <5> HIDE DEF L, own, un, o
        <5>1. o \in Amount /\ Reads(L, o, own, un) /\ \A s \in Skus : own[s] \in Amount /\ un[s] \in Amount
          BY <2>1 DEF o
        <5> QED BY <5>1, ReadsIncomplete
      <4>4. y = NullDeliveries(p, a)
        BY <4>2
      <4> HIDE DEF p, L, own, un, y
      <4>5. Reads(NullDeliveries(p, a), {}, own, un)
        BY <2>1, <2>4, <4>3, NullDeliveriesRead
      <4>6. G
        <5> DEFINE d == DetailOf(a)
                   q == NullDeliveries(p, a)
                   v == {}
        <5>1. d = v /\ y = q /\ Reads(q, v, own, un) /\ \A s \in Skus : own[s] \in Amount /\ un[s] \in Amount
          BY <2>1, <4>1, <4>4, <4>5
        <5> HIDE DEF d, q, v
        <5>2. Reads(y, d, own, un)
          BY <5>1
        <5> QED BY <5>1, <5>2 DEF d
      <4> QED BY <4>6 DEF y, own, un
    <3>8. CASE ~(some /\ RawTotal(a) # {a.total})
      <4>1. y = L
        BY <3>6, <3>8
      <4>2. DetailOf(a) = RawTotal(a)
        BY <2>2, <3>4, <3>8
      <4>3. G
        <5> DEFINE o == RawTotal(a)
                   p == DetailOf(a)
        <5>1. o = p /\ y = L /\ Reads(L, o, own, un) /\ \A s \in Skus : own[s] \in Amount /\ un[s] \in Amount
          BY <2>1, <4>1, <4>2
        <5> HIDE DEF o, p, y, L, own, un
        <5>2. Reads(y, p, own, un)
          BY <5>1
        <5> QED BY <5>1, <5>2 DEF p
      <4> HIDE DEF y, own, un
      <4> QED BY <4>3 DEF y, own, un
    <3> QED BY <3>7, <3>8
  <2> QED BY <1>0, <1>6, <2>3, <2>4
<1>7. CASE a.category = "POSTING" /\ ~a.listed
  <2>1. y = NoPosting(EmptyLedger, a.id)
    BY <1>0, <1>7 DEF Details
  <2>2. \A s \in Skus : own[s] = {0} /\ un[s] = {0}
    BY <1>7, NoLines
  <2>3. Reads(y, {}, own, un)
    <3> HIDE DEF own, un
    <3> QED BY <1>0, <2>1, NoPostingReads
  <2>4. DetailOf(a) = {}
    BY <1>4, <1>7
  <2> HIDE DEF y, own, un
  <2>5. G
    BY <1>1, <2>2, <2>3, <2>4
  <2> QED BY <2>5 DEF y, own, un
<1>8. CASE a.category \in FeeCategories /\ ~a.listed
  <2>1. y = MarkUnknown(Incomplete(EmptyLedger), AnyFee, NoSku, a.id)
    BY <1>0, <1>8 DEF Details
  <2> DEFINE n == Incomplete(EmptyLedger)
             fs == AnyFee
  <2>2. n \in {Incomplete(EmptyLedger), [Incomplete(EmptyLedger) EXCEPT !.day = Aside(@, a.total)]}
        /\ fs \in SUBSET (Fields \cup {"cogs"}) /\ "cogs" \notin fs /\ y = MarkUnknown(n, fs, NoSku, a.id)
    BY <1>2, <2>1
  <2> HIDE DEF n, fs, y, own, un
  <2>3. G
    BY <1>5, <1>8, <2>2
  <2> QED BY <2>3 DEF y, own, un
<1>9. CASE ~HasLines(a)
  <2>1. y = MarkUnknown([Incomplete(EmptyLedger) EXCEPT !.day = Aside(@, a.total)], {"revenue"} \cup AnyFee, NoSku, a.id)
    BY <1>0, <1>9 DEF Details
  <2> DEFINE n == [Incomplete(EmptyLedger) EXCEPT !.day = Aside(@, a.total)]
             fs == {"revenue"} \cup AnyFee
  <2>2. n \in {Incomplete(EmptyLedger), [Incomplete(EmptyLedger) EXCEPT !.day = Aside(@, a.total)]}
        /\ fs \in SUBSET (Fields \cup {"cogs"}) /\ "cogs" \notin fs /\ y = MarkUnknown(n, fs, NoSku, a.id)
    BY <1>2, <2>1
  <2> HIDE DEF n, fs, y, own, un
  <2>3. G
    BY <1>5, <1>9, <2>2
  <2> QED BY <2>3 DEF y, own, un
<1> QED BY <1>0, <1>6, <1>7, <1>8, <1>9

--------------------------------------------------------------------------------
(* An accrual on its own.                                                     *)

(* What a ledger tells rests on its rows and marks alone.                     *)
LEMMA TellsAlike ==
  ASSUME NEW n, NEW y, y.day = n.day, y.sku = n.sku, y.allocated <=> n.allocated, y.skuUnitsKnown <=> n.skuUnitsKnown,
         y.unknownSku <=> n.unknownSku, y.sale <=> n.sale,
         NEW k, NEW o, NEW p, p = {} \/ p = o, NEW own, NEW un, Tells(n, k, o, own, un)
  PROVE  Tells(y, k, p, own, un)
<1>1. Lost(y) <=> Lost(n)
  BY DEF Lost
<1>2. Kept(y) = Kept(n) /\ SkuRevenue(y) = SkuRevenue(n)
  BY DEF Kept, SkuRevenue
<1>3. Firm(n, k) /\ AddsUp(n, k, o) /\ Says(n, own, un)
  BY DEF Tells
<1>4. Firm(y, k)
  BY <1>1, <1>3 DEF Firm
<1>5. AddsUp(y, k, p)
  <2>1. CASE p = {}
    BY <2>1 DEF AddsUp
  <2>2. CASE p = o
    BY <1>2, <1>3, <2>2 DEF AddsUp
  <2> QED BY <2>1, <2>2
<1>6. Says(y, own, un)
  BY <1>1, <1>3 DEF Says
<1> QED BY <1>4, <1>5, <1>6 DEF Tells

\* By how much the lines of an accrual miss its total.
Off(a) == IF Legible(a) THEN {Difference(a.total, x) : x \in DetailOf(a)} ELSE {}
\* What is known to have been paid.
Paid(n) == IF n.mismatch = {0} THEN {n.net} ELSE {}

(* The difference of an accrual is none only of one that is reconciled.       *)
LEMMA OffIs ==
  ASSUME NEW a \in Accruals
  PROVE  /\ Off(a) \in Amount /\ \A x \in Off(a) : x >= 0
         /\ Off(a) = {0} <=> Reconciled(a)
         /\ Off(a) = {} <=> ~Legible(a)
         /\ \A x \in Int : DetailOf(a) = {x} => Off(a) = {Difference(a.total, x)}
<1>1. /\ DetailOf(a) \in Amount /\ (Legible(a) <=> DetailOf(a) # {})
      /\ Reconciled(a) <=> DetailOf(a) = {a.total}
  BY LegibleIs
<1>2. a.total \in Int
  BY AccrualIs
<1>3. DetailOf(a) = {} \/ \E x \in Int : DetailOf(a) = {x}
  <2> DEFINE d == DetailOf(a)
  <2>1. d \in Amount
    BY <1>1
  <2> HIDE DEF d
  <2>2. d = {} \/ \E x \in Int : d = {x}
    BY <2>1, AmountIs
  <2> QED BY <2>2 DEF d
<1>4. CASE DetailOf(a) = {}
  <2>1. Off(a) = {} /\ ~Legible(a) /\ ~Reconciled(a)
    BY <1>1, <1>4 DEF Off
  <2>2. {} \in Amount
    BY SmallAmounts
  <2> QED BY <1>4, <2>1, <2>2
<1>5. ASSUME NEW x \in Int, DetailOf(a) = {x}
      PROVE  /\ Off(a) \in Amount /\ \A y \in Off(a) : y >= 0
             /\ Off(a) = {0} <=> Reconciled(a)
             /\ Off(a) = {} <=> ~Legible(a)
             /\ \A y \in Int : DetailOf(a) = {y} => Off(a) = {Difference(a.total, y)}
  <2> DEFINE d == Difference(a.total, x)
  <2>1. d \in Int /\ d >= 0 /\ (d = 0 <=> x = a.total)
    BY <1>2 DEF Difference
  <2>2. Off(a) = {d} /\ Legible(a)
    BY <1>1, <1>5 DEF Off
  <2>3. \A y : DetailOf(a) = {y} => y = x
    BY <1>5
  <2> HIDE DEF d
  <2>4. {d} \in Amount
    BY <2>1, AmountIs
  <2>5. Reconciled(a) <=> x = a.total
    BY <1>1, <1>5
  <2>6. \A y \in Int : DetailOf(a) = {y} => Off(a) = {Difference(a.total, y)}
    BY <2>2, <2>3 DEF d
  <2> QED BY <2>1, <2>2, <2>4, <2>5, <2>6
<1> QED BY <1>3, <1>4, <1>5

\* What the ledger of one accrual says.
OfOne(a, y) ==
  /\ y \in LedgerType /\ y.net = a.total /\ y.mismatch = Off(a)
  /\ y.reconciled = (IF Reconciled(a) THEN {a.id} ELSE {})
  /\ Tells(y, FALSE, Paid(y), OwnOf(a), UnOf(a))

(* _normalize_accrual of an accrual that comes alone.                         *)
LEMMA AloneIs ==
  ASSUME NEW a \in Accruals
  PROVE  OfOne(a, Alone(a)) /\ \A s \in Skus : OwnOf(a)[s] \in Amount /\ UnOf(a)[s] \in Amount
<1> DEFINE m == Details(EmptyLedger, a)
           y == Alone(a)
           own == OwnOf(a)
           un == UnOf(a)
           o == DetailOf(a)
<1>1. (\A s \in Skus : own[s] \in Amount /\ un[s] \in Amount) /\ Reads(m, o, own, un)
  BY DetailsRead
<1>2. WholeOf(y, m, a)
  <2>1. EmptyLedger \in LedgerType
    BY EmptyLedgerIs
  <2>2. m = Details(Reset(EmptyLedger), a) /\ y = Normalised(EmptyLedger, a)
    BY <2>1, ResetIs DEF Alone
  <2> HIDE DEF m, y
  <2> QED BY <2>1, <2>2, NormalisedIs
<1>3. /\ Off(a) \in Amount /\ (Off(a) = {0} <=> Reconciled(a)) /\ (Off(a) = {} <=> ~Legible(a))
      /\ \A x \in Int : o = {x} => Off(a) = {Difference(a.total, x)}
  BY OffIs
<1>4. a.total \in Int /\ (Legible(a) <=> o # {}) /\ (Reconciled(a) <=> o = {a.total}) /\ (Legible(a) => o # {})
  BY AccrualIs, LegibleIs
<1> HIDE DEF m, y, own, un, o
<1>5. /\ m.net = 0 /\ m.mismatch = {0} /\ m.reconciled = {} /\ RawOf(m) = o /\ Tells(m, FALSE, o, own, un)
  BY <1>1 DEF Reads
<1>6. /\ y \in LedgerType /\ y.day = m.day /\ y.sku = m.sku /\ (y.allocated <=> m.allocated)
      /\ (y.skuUnitsKnown <=> m.skuUnitsKnown) /\ (y.unknownSku <=> m.unknownSku) /\ (y.sale <=> m.sale)
      /\ y.net = m.net + a.total
      /\ y.mismatch = (IF m.complete THEN Plus(m.mismatch, Difference(a.total, m.raw)) ELSE {})
      /\ y.reconciled = (IF m.complete /\ m.raw = a.total THEN m.reconciled \cup {a.id} ELSE m.reconciled)
      /\ m \in LedgerType /\ Difference(a.total, m.raw) \in Int
  BY <1>2 DEF WholeOf
<1>7. m.raw \in Int
  BY <1>6 DEF LedgerType
<1>8. y.net = a.total
  BY <1>4, <1>5, <1>6
<1>9. o = IF m.complete THEN {m.raw} ELSE {}
  BY <1>5 DEF RawOf
<1>10. y.mismatch = Off(a)
  <2>1. CASE m.complete
    <3> DEFINE d == Difference(a.total, m.raw)
    <3>1. Off(a) = {d}
      BY <1>3, <1>7, <1>9, <2>1
    <3>2. y.mismatch = Plus({0}, d) /\ d \in Int
      BY <1>5, <1>6, <2>1
    <3> HIDE DEF d
    <3>3. Plus({0}, d) = {d}
      BY <3>2 DEF Plus
    <3> QED BY <3>1, <3>2, <3>3
  <2>2. CASE ~m.complete
    BY <1>3, <1>4, <1>6, <1>9, <2>2
  <2> QED BY <2>1, <2>2
<1>11. y.reconciled = IF Reconciled(a) THEN {a.id} ELSE {}
  <2>1. Reconciled(a) <=> m.complete /\ m.raw = a.total
    BY <1>4, <1>9
  <2> QED BY <1>5, <1>6, <2>1
<1>12. Paid(y) = {} \/ Paid(y) = o
  BY <1>3, <1>4, <1>8, <1>10 DEF Paid
<1>13. Tells(y, FALSE, Paid(y), own, un)
  <2> DEFINE p == Paid(y)
             f == FALSE
  <2>1. (p = {} \/ p = o) /\ Tells(m, f, o, own, un)
    BY <1>5, <1>12
  <2> HIDE DEF p, f
  <2>2. Tells(y, f, p, own, un)
    BY <1>6, <2>1, TellsAlike
  <2> QED BY <2>2 DEF p, f
<1>14. OfOne(a, y)
  BY <1>6, <1>8, <1>10, <1>11, <1>13 DEF OfOne, own, un
<1> QED BY <1>1, <1>14 DEF y, own, un

--------------------------------------------------------------------------------
(* Whom an accrual names: a row rests on an accrual only if a line of it says *)
(* something of the SKU.                                                      *)

\* The row of SKU t of ledger n tells of accrual id.
Tagged(n, t, id) == n \in LedgerType /\ (t \in Skus => id \in n.sku[t].from)

(* What a SKU was named by stays.                                             *)
LEMMA TagsStay ==
  ASSUME NEW n, NEW e, NEW m, Joins(n, e, m), NEW t, NEW id, Tagged(n, t, id) \/ Tagged(e, t, id)
  PROVE  Tagged(m, t, id)
<1>1. m \in LedgerType /\ \A s \in Skus : RowAdds(n.sku[s], e.sku[s], m.sku[s])
  BY TogetherIs
<1>2. \A s \in Skus : m.sku[s].from = n.sku[s].from \cup e.sku[s].from
  BY <1>1 DEF RowAdds
<1> QED BY <1>1, <1>2 DEF Tagged

(* A ledger is the join of itself and of nothing.                             *)
LEMMA NothingMerges ==
  ASSUME NEW n \in LedgerType
  PROVE  Merges(n, EmptyLedger, n) /\ (\A e, m : Merges(n, e, m) => Joins(n, e, m) /\ m \in LedgerType)
BY MergesNothing DEF Merges, Joins

(* The operations on a SKU name it.                                           *)
LEMMA RowTags ==
  ASSUME NEW r \in RowType, NEW id \in Ids
  PROVE  /\ \A f \in Fields, x \in Int : id \in SkuBooked(r, f, x, id).from
         /\ \A fs \in SUBSET (Fields \cup {"cogs"}) : id \in SkuUnknown(r, fs, id).from
         /\ \A f \in Fields : id \in SkuGap(r, f, id).from
<1> DEFINE d == [r EXCEPT !.from = @ \cup {id}]
<1>1. d \in RowType
  BY RowsAreTyped
<1>2. id \in d.from
  BY DEF RowType
<1> HIDE DEF d
<1>3. ASSUME NEW f \in Fields, NEW x \in Int PROVE Booked(d, f, x).from = d.from
  BY <1>1 DEF Booked, RowType
<1>4. ASSUME NEW fs \in SUBSET (Fields \cup {"cogs"}) PROVE id \in Doubted(d, fs \ {"other_expenses"}).from
  <2> DEFINE gs == fs \ {"other_expenses"}
             D == Doubted(d, gs)
  <2>1. gs \in SUBSET (Fields \cup {"cogs"}) /\ D = Doubted(d, gs)
    OBVIOUS
  <2> HIDE DEF gs, D
  <2>2. D.from = d.from
    BY <1>1, <2>1, DoubtedRow
  <2> QED BY <1>2, <2>2 DEF gs, D
<1>5. ASSUME NEW f \in Fields PROVE id \in Gapped(d, f).from
  <2> DEFINE D == Gapped(d, f)
  <2>1. D = Gapped(d, f)
    OBVIOUS
  <2> HIDE DEF D
  <2>2. D.from = d.from
    BY <1>1, <2>1, GappedIs
  <2> QED BY <1>2, <2>2 DEF D
<1> QED BY <1>2, <1>3, <1>4, <1>5 DEF d, SkuBooked, SkuUnknown, SkuGap

(* add_component, mark_unknown and mark_gap of a SKU.                         *)
LEMMA OperationTags ==
  ASSUME NEW n \in LedgerType, NEW t \in Skus \cup {NoSku}, NEW id \in Ids
  PROVE  /\ \A f \in Fields, x \in Int : Tagged(AddComponent(n, f, x, t, id), t, id)
         /\ \A fs \in SUBSET (Fields \cup {"cogs"}) : Tagged(MarkUnknown(n, fs, t, id), t, id)
         /\ t # NoSku => \A f \in Fields : Tagged(MarkGap(n, f, t, id), t, id)
<1>1. t \in Skus => n.sku[t] \in RowType
  BY DEF LedgerType
<1>2. ASSUME NEW f \in Fields, NEW x \in Int PROVE Tagged(AddComponent(n, f, x, t, id), t, id)
  <2> DEFINE y == AddComponent(n, f, x, t, id)
  <2>1. Does(n, y, t, DayBooked(n.day, f, x, t), SkuBooked(n.sku[t], f, x, id), Of(t))
    BY AddComponentDoes
  <2> HIDE DEF y
  <2>2. y \in LedgerType /\ (t \in Skus => y.sku[t] = SkuBooked(n.sku[t], f, x, id))
    BY <2>1 DEF Does, DoesToDay
  <2>3. t \in Skus => id \in SkuBooked(n.sku[t], f, x, id).from
    BY <1>1, RowTags
  <2>4. Tagged(y, t, id)
    BY <2>2, <2>3 DEF Tagged
  <2> QED BY <2>4 DEF y
<1>3. ASSUME NEW fs \in SUBSET (Fields \cup {"cogs"}) PROVE Tagged(MarkUnknown(n, fs, t, id), t, id)
  <2> DEFINE y == MarkUnknown(n, fs, t, id)
  <2>1. Does(n, y, t, DayUnknown(n.day, fs, t), SkuUnknown(n.sku[t], fs, id), Of(t))
    BY MarkUnknownDoes
  <2> HIDE DEF y
  <2>2. y \in LedgerType /\ (t \in Skus => y.sku[t] = SkuUnknown(n.sku[t], fs, id))
    BY <2>1 DEF Does, DoesToDay
  <2>3. t \in Skus => id \in SkuUnknown(n.sku[t], fs, id).from
    BY <1>1, RowTags
  <2>4. Tagged(y, t, id)
    BY <2>2, <2>3 DEF Tagged
  <2> QED BY <2>4 DEF y
<1>4. ASSUME NEW f \in Fields, t # NoSku PROVE Tagged(MarkGap(n, f, t, id), t, id)
  <2> DEFINE y == MarkGap(n, f, t, id)
  <2>0. t \in Skus
    BY <1>4
  <2>1. Does(n, y, t, Gapped(n.day, f), SkuGap(n.sku[t], f, id), Of(t))
    BY <2>0, MarkGapDoes
  <2> HIDE DEF y
  <2>2. y \in LedgerType /\ y.sku[t] = SkuGap(n.sku[t], f, id)
    BY <2>0, <2>1 DEF Does, DoesToDay
  <2>3. id \in SkuGap(n.sku[t], f, id).from
    BY <1>1, <2>0, RowTags
  <2>4. Tagged(y, t, id)
    BY <2>2, <2>3 DEF Tagged
  <2> QED BY <2>4 DEF y
<1> QED BY <1>2, <1>3, <1>4

(* parse_component of a SKU.                                                  *)
LEMMA ComponentTags ==
  ASSUME NEW n \in LedgerType, NEW t \in Skus, NEW id \in Ids, NEW f \in Fields, NEW o \in Amount
  PROVE  Tagged(Component(n, f, o, t, id), t, id)
<1>0. t # NoSku /\ t \in Skus \cup {NoSku}
  BY AccrualAssumption
<1>1. CASE o = Unknown
  <2> DEFINE m == Incomplete(n)
  <2>1. m \in LedgerType
    BY CountedIs
  <2>2. Component(n, f, o, t, id) = MarkGap(m, f, t, id)
    BY <1>1 DEF Component
  <2> HIDE DEF m
  <2>3. Tagged(MarkGap(m, f, t, id), t, id)
    BY <1>0, <2>1, OperationTags
  <2> QED BY <2>2, <2>3
<1>2. CASE o # Unknown
  <2> DEFINE x == The(o)
             m == Counted(n, x)
  <2>1. x \in Int
    BY <1>2, TheInt
  <2>2. m \in LedgerType
    BY <2>1, CountedIs
  <2>3. Component(n, f, o, t, id) = AddComponent(m, f, x, t, id)
    BY <1>2 DEF Component
  <2> HIDE DEF m, x
  <2>4. Tagged(AddComponent(m, f, x, t, id), t, id)
    BY <1>0, <2>1, <2>2, OperationTags
  <2> QED BY <2>3, <2>4
<1> QED BY <1>1, <1>2

(* parse_fee of a SKU.                                                        *)
LEMMA FeeTags ==
  ASSUME NEW line \in FeeLine, NEW id \in Ids, NEW t \in Skus, line.sku = t
  PROVE  Tagged(Fee(EmptyLedger, line, id), t, id)
<1> DEFINE m == IF line.returns THEN MarkReturn(EmptyLedger, line.sku, id) ELSE EmptyLedger
           a == The(line.amount)
           b == Counted(m, a)
           unclear == [b EXCEPT !.day = Unclassified(@)]
           y == Fee(EmptyLedger, line, id)
<1>0. t # NoSku /\ t \in Skus \cup {NoSku} /\ line.amount \in Amount /\ EmptyLedger \in LedgerType
  BY AccrualAssumption, EmptyLedgerIs DEF FeeLine
<1>1. m \in LedgerType
  <2>1. Merges(EmptyLedger, EmptyLedger, EmptyLedger)
    BY <1>0, NothingMerges
  <2>2. Merges(EmptyLedger, MarkReturn(EmptyLedger, t, id), MarkReturn(EmptyLedger, t, id))
    BY <1>0, <2>1, MarkReturnMerges
  <2>3. MarkReturn(EmptyLedger, t, id) \in LedgerType
    BY <1>0, <2>2, NothingMerges
  <2> QED BY <1>0, <2>3
<1>2. CASE line.amount = Unknown
  <2> DEFINE c == Incomplete(m)
  <2>1. y = MarkUnknown(c, AnyFee, t, id)
    BY <1>2 DEF Fee
  <2> HIDE DEF m
  <2>2. c \in LedgerType
    BY <1>1, CountedIs
  <2>3. AnyFee \in SUBSET (Fields \cup {"cogs"})
    BY DEF AnyFee, _POSSIBLE_FEE_FIELDS, Fields, Charges
  <2> HIDE DEF c, y
  <2>4. Tagged(MarkUnknown(c, AnyFee, t, id), t, id)
    BY <1>0, <2>2, <2>3, OperationTags
  <2>5. Tagged(y, t, id)
    BY <2>1, <2>4
  <2> QED BY <2>5 DEF y
<1>3. CASE line.amount # Unknown
  <2>1. a \in Int
    BY <1>0, <1>3, TheInt
  <2> HIDE DEF m, a
  <2>2. b \in LedgerType
    BY <1>1, <2>1, CountedIs
  <2> HIDE DEF b
  <2>3. unclear \in LedgerType
    <3>1. b.day \in RowType
      BY <2>2 DEF LedgerType
    <3> DEFINE D == Unclassified(b.day)
    <3>2. D = Unclassified(b.day)
      OBVIOUS
    <3> HIDE DEF D
    <3>3. D \in RowType
      BY <3>1, <3>2, UnclassifiedIs
    <3>4. unclear = [b EXCEPT !.day = D]
      BY DEF D
    <3> HIDE DEF unclear
    <3>5. SameMarks(b, unclear)
      BY <2>2, <3>3, <3>4, SetDay
    <3> QED BY <3>5 DEF SameMarks
  <2>4. y = IF line.type \in Fields THEN AddComponent(b, line.type, a, t, id)
            ELSE IF line.type = "unlisted"
              THEN MarkUnknown(AddComponent(unclear, "other_expenses", a, t, id), _POSSIBLE_FEE_FIELDS, t, id)
            ELSE [Touch(unclear, t, id) EXCEPT !.day = Aside(@, a), !.sku[t] = Aside(@, a)]
    BY <1>0, <1>3 DEF Fee, m, a, b
  <2> HIDE DEF unclear, y
  <2>5. CASE line.type \in Fields
    <3> DEFINE f == line.type
    <3>1. f \in Fields /\ y = AddComponent(b, f, a, t, id)
      BY <2>4, <2>5
    <3> HIDE DEF f
    <3>2. Tagged(y, t, id)
      BY <1>0, <2>1, <2>2, <3>1, OperationTags
    <3> QED BY <3>2 DEF y
  <2>6. CASE line.type \notin Fields /\ line.type = "unlisted"
    <3> DEFINE c == AddComponent(unclear, "other_expenses", a, t, id)
    <3>1. "other_expenses" \in Fields /\ _POSSIBLE_FEE_FIELDS \in SUBSET (Fields \cup {"cogs"})
      BY DEF _POSSIBLE_FEE_FIELDS, Fields, Charges
    <3>2. Tagged(c, t, id)
      BY <1>0, <2>1, <2>3, <3>1, OperationTags
    <3>3. y = MarkUnknown(c, _POSSIBLE_FEE_FIELDS, t, id)
      BY <2>4, <2>6
    <3>4. c \in LedgerType
      BY <3>2 DEF Tagged
    <3> HIDE DEF c
    <3>5. Tagged(MarkUnknown(c, _POSSIBLE_FEE_FIELDS, t, id), t, id)
      BY <1>0, <3>1, <3>4, OperationTags
    <3>6. Tagged(y, t, id)
      BY <3>3, <3>5
    <3> QED BY <3>6 DEF y
  <2>7. CASE line.type \notin Fields /\ line.type # "unlisted"
    <3> DEFINE c == Touch(unclear, t, id)
               R == [unclear.sku[t] EXCEPT !.from = @ \cup {id}]
               D == Aside(c.day, a)
               S == Aside(R, a)
               g == [c EXCEPT !.day = D]
    <3>1. c = Touch(unclear, t, id) /\ R = [unclear.sku[t] EXCEPT !.from = @ \cup {id}]
      OBVIOUS
    <3>2. unclear.sku[t] \in RowType
      BY <2>3 DEF LedgerType
    <3>3. R \in RowType /\ id \in R.from
      BY <3>2, RowsAreTyped DEF RowType
    <3>4. SkuSet(unclear, c, t, R)
      BY <1>0, <2>3, TouchIs
    <3>5. y = [c EXCEPT !.day = Aside(@, a), !.sku[t] = Aside(@, a)]
      BY <2>4, <2>7
    <3> HIDE DEF c, R
    <3>6. c \in LedgerType /\ c.sku[t] = R
      BY <3>4 DEF SkuSet, SameMarks
    <3>7. c.day \in RowType
      BY <3>6 DEF LedgerType
    <3>8. D \in RowType /\ S \in RowType /\ S.from = R.from
      <4>1. D = Aside(c.day, a) /\ S = Aside(R, a)
        OBVIOUS
      <4> HIDE DEF D, S
      <4> QED BY <2>1, <3>3, <3>7, <4>1, AsideIs
    <3>9. g \in LedgerType /\ g.sku = c.sku
      <4>1. g = [c EXCEPT !.day = D]
        OBVIOUS
      <4> HIDE DEF g, D, S
      <4>2. SameMarks(c, g) /\ g.sku = c.sku
        BY <3>6, <3>8, <4>1, SetDay
      <4> QED BY <4>2 DEF SameMarks
    <3>10. y = [g EXCEPT !.sku[t] = S]
      <4> HIDE DEF S, D
      <4>1. Aside(c.day, a) = D /\ Aside(c.sku[t], a) = S
        BY <3>6 DEF S, D
      <4>2. y = [c EXCEPT !.day = D, !.sku[t] = S]
        BY <3>5, <4>1
      <4> QED BY <4>2
    <3> HIDE DEF g, S, D
    <3>11. SkuSet(g, y, t, S)
      BY <3>8, <3>9, <3>10, SetSku
    <3>12. y \in LedgerType /\ y.sku[t] = S
      BY <3>11 DEF SkuSet, SameMarks
    <3>13. Tagged(y, t, id)
      BY <3>3, <3>8, <3>12 DEF Tagged
    <3> QED BY <3>13 DEF y
  <2> QED BY <2>5, <2>6, <2>7
<1> QED BY <1>2, <1>3

(* The services of a delivery name the SKU, if there are any.                 *)
LEMMA ServicesTag ==
  ASSUME NEW n \in LedgerType, NEW line \in PostingLine, NEW id \in Ids, NEW t \in Skus, line.sku = t,
         line.amounts # << >>
  PROVE  Tagged(Services(n, line, id), t, id)
<1> DEFINE N == Len(line.amounts)
<1>1. PICK f : /\ f[0] = n /\ f[N] = Services(n, line, id)
               /\ \A k \in 1..N : f[k] = Component(f[k - 1], "logistics", line.amounts[k], line.sku, id)
  BY ServicesAre
<1>2. line.amounts \in Seq(Amount)
  BY DEF PostingLine
<1>3. N \in Nat /\ N # 0 /\ \A k \in 1..N : line.amounts[k] \in Amount
  BY <1>2
<1>4. "logistics" \in Fields
  BY DEF Fields, Charges
<1> DEFINE T == {k \in 0..N : f[k] \in LedgerType}
<1>5. \A k \in 1..N : k - 1 \in T => k \in T
  <2> SUFFICES ASSUME NEW k \in 1..N, k - 1 \in T PROVE k \in T
    OBVIOUS
  <2> DEFINE m == f[k - 1]
             o == line.amounts[k]
  <2>1. m \in LedgerType /\ o \in Amount /\ f[k] = Component(m, "logistics", o, t, id)
    BY <1>1, <1>3
  <2> HIDE DEF m, o
  <2>2. Tagged(f[k], t, id)
    BY <1>4, <2>1, ComponentTags
  <2> QED BY <1>3, <2>2 DEF Tagged
<1>6. 0 \in T
  BY <1>1, <1>3
<1> HIDE DEF N
<1>7. \A k \in 0..N : k \in T
  <2> HIDE DEF T
  <2> QED BY <1>3, <1>5, <1>6, InductionTo
<1>8. N \in 1..N /\ N - 1 \in 0..N
  BY <1>3
<1> DEFINE m == f[N - 1]
           o == line.amounts[N]
<1>9. m \in LedgerType /\ o \in Amount /\ f[N] = Component(m, "logistics", o, t, id)
  BY <1>1, <1>3, <1>7, <1>8
<1> HIDE DEF m, o
<1>10. Tagged(f[N], t, id)
  BY <1>4, <1>9, ComponentTags
<1> QED BY <1>1, <1>10

(* What comes after keeps the names.                                          *)
LEMMA ServicesKeep ==
  ASSUME NEW n \in LedgerType, NEW line \in PostingLine, NEW id \in Ids, NEW t, Tagged(n, t, id)
  PROVE  Tagged(Services(n, line, id), t, id)
<1> DEFINE e == Services(EmptyLedger, line, id)
           m == Services(n, line, id)
<1>1. Merges(n, EmptyLedger, n)
  BY NothingMerges
<1>2. Merges(n, e, m)
  BY <1>1, ServicesMerge
<1> HIDE DEF e, m
<1>3. Tagged(m, t, id)
  BY <1>2, TagsStay DEF Merges
<1> QED BY <1>3 DEF m

(* A delivery names its SKU, unless it is null, or it has no services.        *)
LEMMA DeliveryTags ==
  ASSUME NEW line \in PostingLine, NEW id \in Ids, NEW t \in Skus, line.sku = t,
         line.delivery # "null", line.delivery = "amounts" => line.amounts # << >>
  PROVE  Tagged(Delivery(EmptyLedger, line, id), t, id)
<1> DEFINE n == EmptyLedger
           m == IF line.returns THEN MarkReturn(n, t, id) ELSE n
           L == {"logistics"}
           y == Delivery(n, line, id)
<1>0. /\ t # NoSku /\ t \in Skus \cup {NoSku} /\ n \in LedgerType /\ L \in SUBSET (Fields \cup {"cogs"}) /\ "logistics" \in Fields
      /\ line.delivery \in {"broken", "nothing", "spoiled", "amounts"}
  BY AccrualAssumption, EmptyLedgerIs DEF PostingLine, Fields, Charges
<1>1. m \in LedgerType
  <2>1. Merges(n, n, n)
    BY <1>0, NothingMerges
  <2> DEFINE c == MarkReturn(n, t, id)
  <2> HIDE DEF n
  <2>2. Merges(n, c, c)
    BY <1>0, <2>1, MarkReturnMerges
  <2> HIDE DEF c
  <2>3. c \in LedgerType
    BY <1>0, <2>2, NothingMerges
  <2> QED BY <1>0, <2>3 DEF c
<1>2. \A k \in LedgerType : Incomplete(k) \in LedgerType /\ Tagged(MarkUnknown(Incomplete(k), L, t, id), t, id)
  <2> SUFFICES ASSUME NEW k \in LedgerType
               PROVE  Incomplete(k) \in LedgerType /\ Tagged(MarkUnknown(Incomplete(k), L, t, id), t, id)
    OBVIOUS
  <2> DEFINE c == Incomplete(k)
  <2>1. c \in LedgerType
    BY CountedIs
  <2> HIDE DEF c, L
  <2>2. Tagged(MarkUnknown(c, L, t, id), t, id)
    BY <1>0, <2>1, OperationTags
  <2> QED BY <2>1, <2>2 DEF c
<1>3. CASE line.delivery = "broken"
  <2> DEFINE c == Incomplete(n)
  <2>1. y = MarkGap(c, "logistics", t, id)
    BY <1>3 DEF Delivery
  <2>2. c \in LedgerType
    BY <1>0, <1>2
  <2> HIDE DEF c
  <2>3. Tagged(MarkGap(c, "logistics", t, id), t, id)
    BY <1>0, <2>2, OperationTags
  <2> QED BY <2>1, <2>3
<1>4. CASE line.delivery = "nothing"
  <2>1. y = MarkUnknown(Incomplete(n), L, t, id)
    BY <1>4 DEF Delivery
  <2> QED BY <1>0, <1>2, <2>1
<1>5. CASE line.delivery = "spoiled"
  <2> DEFINE c == MarkUnknown(Incomplete(m), L, t, id)
  <2>1. y = Services(c, line, id)
    BY <1>5 DEF Delivery
  <2>2. Tagged(c, t, id)
    BY <1>1, <1>2
  <2> HIDE DEF c, y
  <2>3. c \in LedgerType
    BY <2>2 DEF Tagged
  <2>4. Tagged(y, t, id)
    BY <2>1, <2>2, <2>3, ServicesKeep
  <2> QED BY <2>4 DEF y
<1>6. CASE line.delivery = "amounts"
  <2>1. y = Services(m, line, id)
    BY <1>6 DEF Delivery
  <2> HIDE DEF m
  <2>2. Tagged(Services(m, line, id), t, id)
    BY <1>1, <1>6, ServicesTag
  <2> QED BY <2>1, <2>2
<1> QED BY <1>0, <1>3, <1>4, <1>5, <1>6

(* A sale names its SKU.                                                      *)
LEMMA SaleTags ==
  ASSUME NEW line \in PostingLine, NEW id \in Ids, NEW t \in Skus, line.sku = t, line.sells
  PROVE  Tagged(Sale(EmptyLedger, line, id), t, id)
<1> DEFINE n == EmptyLedger
           m == Component(n, "revenue", line.sale, t, id)
           c == MarkUnknown(m, {"cogs"}, t, id)
           u == IF line.sale # Unknown THEN Units(m, line, id) ELSE MarkUnitsUnknown(c, t, id)
           y == Sale(n, line, id)
<1>0. /\ t # NoSku /\ t \in Skus \cup {NoSku} /\ n \in LedgerType /\ {"revenue", "commission"} \subseteq Fields
      /\ {"cogs"} \in SUBSET (Fields \cup {"cogs"})
  BY AccrualAssumption, EmptyLedgerIs DEF Fields, Charges
<1>1. line.sale \in Amount /\ line.commission \in Amount
  BY LineIsTyped
<1>2. y = Component(u, "commission", line.commission, t, id)
  BY DEF Sale
<1> HIDE DEF n
<1>3. m \in LedgerType
  <2>1. "revenue" \in Fields
    BY <1>0
  <2>2. Tagged(m, t, id)
    BY <1>0, <1>1, <2>1, ComponentTags
  <2> QED BY <2>2 DEF Tagged
<1> HIDE DEF m
<1>4. c \in LedgerType
  <2>1. Tagged(c, t, id)
    BY <1>0, <1>3, OperationTags
  <2> HIDE DEF c
  <2> QED BY <2>1 DEF Tagged
<1> HIDE DEF c
<1>5. u \in LedgerType
  <2>1. Merges(m, EmptyLedger, m) /\ Merges(c, EmptyLedger, c)
    BY <1>3, <1>4, NothingMerges
  <2> DEFINE p == Units(m, line, id)
             q == MarkUnitsUnknown(c, t, id)
  <2>2. Merges(m, Units(EmptyLedger, line, id), p)
    BY <1>0, <2>1, UnitsMerges
  <2>3. Merges(c, MarkUnitsUnknown(EmptyLedger, t, id), q)
    BY <1>0, <2>1, MarkUnitsUnknownMerges
  <2> HIDE DEF p, q
  <2>4. p \in LedgerType /\ q \in LedgerType
    BY <1>3, <1>4, <2>2, <2>3, NothingMerges
  <2> QED BY <2>4 DEF p, q
<1> HIDE DEF u, y
<1>6. Tagged(Component(u, "commission", line.commission, t, id), t, id)
  <2>1. "commission" \in Fields
    BY <1>0
  <2> QED BY <1>0, <1>1, <1>5, <2>1, ComponentTags
<1>7. Tagged(y, t, id)
  BY <1>2, <1>6
<1> QED BY <1>7 DEF y, n

(* What is of no SKU leaves the day unallocated.                              *)
LEMMA OfNobody ==
  ASSUME NEW n \in LedgerType, NEW fs \in SUBSET (Fields \cup {"cogs"}), NEW id \in Ids
  PROVE  MarkUnknown(n, fs, NoSku, id) \in LedgerType /\ ~MarkUnknown(n, fs, NoSku, id).allocated
<1> DEFINE t == NoSku
           y == MarkUnknown(n, fs, t, id)
<1>1. t \in Skus \cup {NoSku} /\ ~Of(t).allocated
  BY OfIs
<1>2. Does(n, y, t, DayUnknown(n.day, fs, t), SkuUnknown(n.sku[t], fs, id), Of(t))
  <2> HIDE DEF t, y
  <2>1. Does(n, MarkUnknown(n, fs, t, id), t, DayUnknown(n.day, fs, t), SkuUnknown(n.sku[t], fs, id), Of(t))
    BY <1>1, MarkUnknownDoes
  <2> QED BY <2>1 DEF y
<1> HIDE DEF y, t
<1>3. y \in LedgerType /\ ~y.allocated
  BY <1>1, <1>2 DEF Does, DoesToDay
<1> QED BY <1>3 DEF y, t

(* _parse_product_line and parse_fee of one line of a SKU: it is named, or    *)
(* the day is unallocated, or the line is a null delivery.                    *)
LEMMA LineTags ==
  ASSUME NEW a \in Accruals, HasLines(a), NEW i \in 1..Len(a.lines), NEW t \in Skus, a.lines[i].sku = t, ~SaysNothing(a, i),
         NEW y, y = AccrualLine(EmptyLedger, a, i)
  PROVE  ~y.allocated \/ Tagged(y, t, a.id) \/ (a.category = "POSTING" /\ IsNull(a.lines[i]))
<1> DEFINE line == a.lines[i]
           id == a.id
<1>0. /\ id \in Ids /\ t # NoSku /\ EmptyLedger \in LedgerType
      /\ a.category \in FeeCategories \/ a.category = "POSTING"
      /\ ~(a.category \in FeeCategories /\ a.category = "POSTING")
      /\ a.category = "POSTING" => a.lines \in Seq(PostingLine)
      /\ a.category \in FeeCategories => a.lines \in Seq(FeeLine)
  BY AccrualIs, AccrualAssumption, EmptyLedgerIs
<1>1. CASE a.category \in FeeCategories
  <2>1. line \in FeeLine
    BY <1>0, <1>1
  <2>2. y = Fee(EmptyLedger, line, id)
    BY <1>0, <1>1 DEF AccrualLine
  <2>3. line.sku = t
    OBVIOUS
  <2> HIDE DEF line, id
  <2>4. Tagged(y, t, id)
    BY <1>0, <2>1, <2>2, <2>3, FeeTags
  <2> QED BY <2>4 DEF id
<1>2. CASE a.category = "POSTING"
  <2>1. line \in PostingLine
    BY <1>0, <1>2
  <2>2. y = ProductLine(EmptyLedger, line, id)
    BY <1>2 DEF AccrualLine
  <2>3. CASE line.damaged
    <3> DEFINE c == Incomplete(EmptyLedger)
               u == MarkUnknown(c, PostingFields, NoSku, id)
    <3>1. y = MarkUnitsUnknown(u, NoSku, id)
      BY <2>2, <2>3 DEF ProductLine, NoPosting
    <3>2. c \in LedgerType /\ PostingFields \in SUBSET (Fields \cup {"cogs"})
      BY <1>0, CountedIs DEF PostingFields, Fields, Charges
    <3> HIDE DEF c, id
    <3>3. u \in LedgerType /\ ~u.allocated
      BY <1>0, <3>2, OfNobody
    <3> HIDE DEF u
    <3>4. DoesToDay(u, MarkUnitsUnknown(u, NoSku, id), WithoutUnits(u.day), NoUnits)
      BY <1>0, <3>3, MarkUnitsUnknownDoes
    <3>5. DoesToDay(u, y, WithoutUnits(u.day), NoUnits)
      BY <3>1, <3>4
    <3> QED BY <3>3, <3>5 DEF DoesToDay
  <2>4. CASE ~line.damaged
    <3> DEFINE q == Sale(EmptyLedger, line, id)
               e == Delivery(EmptyLedger, line, id)
    <3>1. y = Delivery(q, line, id)
      BY <1>0, <2>2, <2>4 DEF ProductLine
    <3>2. line.sku = t
      OBVIOUS
    <3>3. ~line.sells /\ line.delivery = "amounts" => line.amounts # << >>
      BY <1>2 DEF SaysNothing
    <3>4. CASE line.sells
      <4> HIDE DEF line, id
      <4>1. Tagged(q, t, id)
        BY <1>0, <2>1, <3>2, <3>4, SaleTags
      <4> HIDE DEF q
      <4>2. q \in LedgerType
        BY <4>1 DEF Tagged
      <4>3. Merges(q, EmptyLedger, q)
        BY <4>2, NothingMerges
      <4>4. Merges(q, e, Delivery(q, line, id))
        BY <1>0, <2>1, <4>3, DeliveryMerges
      <4>5. Merges(q, e, y)
        BY <3>1, <4>4
      <4> HIDE DEF e
      <4>6. Tagged(y, t, id)
        BY <4>1, <4>5, TagsStay DEF Merges
      <4> QED BY <4>6 DEF id
    <3>5. CASE ~line.sells /\ line.delivery # "null"
      <4>1. q = EmptyLedger
        BY <3>5 DEF Sale
      <4>2. y = e
        BY <3>1, <4>1
      <4> HIDE DEF line, id
      <4>3. Tagged(e, t, id)
        BY <1>0, <2>1, <3>2, <3>3, <3>5, DeliveryTags
      <4>4. Tagged(y, t, id)
        BY <4>2, <4>3
      <4> QED BY <4>4 DEF id
    <3>6. CASE line.delivery = "null"
      BY <1>2, <2>4, <3>6 DEF IsNull
    <3> QED BY <3>4, <3>5, <3>6
  <2> QED BY <2>3, <2>4
<1> QED BY <1>0, <1>1, <1>2

\* Ledger m names the SKU of line i of an accrual.
LineTagged(m, a, i) ==
  m.allocated /\ a.lines[i].sku \in Skus /\ ~SaysNothing(a, i) =>
    Tagged(m, a.lines[i].sku, a.id) \/ (a.category = "POSTING" /\ IsNull(a.lines[i]))

(* Later lines take no name away.                                             *)
LEMMA LineTagStays ==
  ASSUME NEW n, NEW e, NEW m, Joins(n, e, m), NEW a, NEW i, LineTagged(n, a, i) \/ LineTagged(e, a, i)
  PROVE  LineTagged(m, a, i)
<1>1. m.allocated => n.allocated /\ e.allocated
  BY DEF Joins, MarksAdd
<1>2. \A t, id : Tagged(n, t, id) \/ Tagged(e, t, id) => Tagged(m, t, id)
  BY TagsStay
<1> QED BY <1>1, <1>2 DEF LineTagged

(* The lines of an accrual name their SKUs.                                   *)
LEMMA LinesTag ==
  ASSUME NEW a \in Accruals, HasLines(a), NEW m, m = Lines(EmptyLedger, a), NEW i \in 1..Len(a.lines)
  PROVE  LineTagged(m, a, i)
<1> DEFINE N == Len(a.lines)
<1>0. EmptyLedger \in LedgerType /\ N \in Nat
  <2>1. a.lines \in Seq(PostingLine) \/ a.lines \in Seq(FeeLine)
    BY AccrualIs
  <2> QED BY <2>1, EmptyLedgerIs
<1>1. PICK f : /\ f[0] = EmptyLedger /\ f[N] = m
               /\ \A k \in 1..N : f[k] = AccrualLine(f[k - 1], a, k)
  BY <1>0, LinesAre
<1> DEFINE P(k) == f[k] \in LedgerType /\ (k >= i => LineTagged(f[k], a, i))
           T == {k \in 0..N : P(k)}
<1>2. 0 \in T
  BY <1>0, <1>1
<1>3. \A k \in 1..N : k - 1 \in T => k \in T
  <2> SUFFICES ASSUME NEW k \in 1..N, k - 1 \in T PROVE k \in T
    OBVIOUS
  <2> DEFINE n == f[k - 1]
             e == AccrualLine(EmptyLedger, a, k)
             y == f[k]
  <2>1. n \in LedgerType /\ y = AccrualLine(n, a, k) /\ (k - 1 >= i => LineTagged(n, a, i))
    BY <1>1
  <2> HIDE DEF n, y
  <2>2. Merges(n, EmptyLedger, n)
    BY <2>1, NothingMerges
  <2>3. Merges(n, e, AccrualLine(n, a, k))
    BY <2>2, AccrualLineMerges
  <2>4. Joins(n, e, y) /\ y \in LedgerType
    BY <2>1, <2>3, NothingMerges
  <2>5. k >= i => LineTagged(y, a, i)
    <3>1. CASE k = i
      <4> DEFINE t == a.lines[i].sku
      <4>1. e = AccrualLine(EmptyLedger, a, i)
        BY <3>1
      <4> HIDE DEF e
      <4>2. t \in Skus /\ ~SaysNothing(a, i) => ~e.allocated \/ Tagged(e, t, a.id) \/ (a.category = "POSTING" /\ IsNull(a.lines[i]))
        BY <4>1, LineTags
      <4>3. LineTagged(e, a, i)
        BY <4>2 DEF LineTagged
      <4> QED BY <2>4, <4>3, LineTagStays
    <3>2. CASE k # i
      <4>1. k >= i => k - 1 >= i
        BY <3>2
      <4> HIDE DEF e
      <4>2. k >= i => LineTagged(n, a, i)
        BY <2>1, <4>1
      <4>3. LineTagged(n, a, i) => LineTagged(y, a, i)
        BY <2>4, LineTagStays
      <4> QED BY <4>2, <4>3
    <3> QED BY <3>1, <3>2
  <2>6. P(k)
    BY <2>4, <2>5 DEF y
  <2> QED BY <2>6
<1> HIDE DEF N
<1>4. \A k \in 0..N : k \in T
  <2> HIDE DEF T
  <2> QED BY <1>0, <1>2, <1>3, InductionTo
<1>5. N \in 0..N /\ N >= i
  BY <1>0 DEF N
<1>6. LineTagged(f[N], a, i)
  BY <1>4, <1>5
<1> QED BY <1>1, <1>6

(* A null delivery that may be a charge names its SKU.                        *)
LEMMA NullDeliveriesTag ==
  ASSUME NEW n \in LedgerType, NEW a \in Accruals, a.category = "POSTING", NEW i \in 1..Len(a.lines), IsNull(a.lines[i]),
         NEW t \in Skus, a.lines[i].sku = t, NEW m, m = NullDeliveries(n, a)
  PROVE  Tagged(m, t, a.id)
<1> DEFINE N == Len(a.lines)
           id == a.id
<1>0. N \in Nat /\ a.lines \in Seq(PostingLine) /\ t # NoSku /\ t \in Skus \cup {NoSku} /\ "logistics" \in Fields /\ id \in Ids
  <2>1. a.lines \in Seq(PostingLine) /\ id \in Ids
    BY AccrualIs
  <2> QED BY <2>1, AccrualAssumption DEF Fields, Charges
<1>1. PICK f : /\ f[0] = n /\ f[N] = m
               /\ \A k \in 1..N : f[k] = (IF IsNull(a.lines[k]) THEN MarkGap(f[k - 1], "logistics", a.lines[k].sku, a.id) ELSE f[k - 1])
  BY NullDeliveriesAre
<1> DEFINE P(k) == f[k] \in LedgerType /\ (k >= i => Tagged(f[k], t, id))
           T == {k \in 0..N : P(k)}
<1>2. 0 \in T
  BY <1>0, <1>1
<1>3. \A k \in 1..N : k - 1 \in T => k \in T
  <2> SUFFICES ASSUME NEW k \in 1..N, k - 1 \in T PROVE k \in T
    OBVIOUS
  <2> DEFINE x == f[k - 1]
             s == a.lines[k].sku
             e == MarkGap(EmptyLedger, "logistics", s, id)
             y == f[k]
  <2>1. x \in LedgerType /\ (k - 1 >= i => Tagged(x, t, id)) /\ y = (IF IsNull(a.lines[k]) THEN MarkGap(x, "logistics", s, id) ELSE x)
    BY <1>1
  <2>2. s \in Skus \cup {NoSku}
    <3>1. a.lines[k] \in PostingLine
      BY <1>0
    <3> QED BY <3>1 DEF PostingLine
  <2>3. k = i => IsNull(a.lines[k]) /\ s = t
    OBVIOUS
  <2>4. k >= i /\ k # i => k - 1 >= i
    OBVIOUS
  <2> HIDE DEF x, y, s, id, N
  <2>5. CASE ~IsNull(a.lines[k])
    <3>1. y = x /\ k # i
      BY <2>1, <2>3, <2>5
    <3> QED BY <2>1, <2>4, <3>1 DEF y
  <2>6. CASE IsNull(a.lines[k])
    <3>1. y = MarkGap(x, "logistics", s, id)
      BY <2>1, <2>6
    <3>2. Merges(x, EmptyLedger, x)
      BY <2>1, NothingMerges
    <3>3. Merges(x, e, MarkGap(x, "logistics", s, id))
      BY <1>0, <2>2, <3>2, MarkGapMerges
    <3> HIDE DEF e
    <3>4. Joins(x, e, y) /\ y \in LedgerType
      BY <2>1, <3>1, <3>3, NothingMerges
    <3>5. Tagged(x, t, id) => Tagged(y, t, id)
      BY <3>4, TagsStay
    <3>6. k = i => Tagged(y, t, id)
      <4> SUFFICES ASSUME k = i PROVE Tagged(y, t, id)
        OBVIOUS
      <4>1. y = MarkGap(x, "logistics", t, id)
        BY <2>3, <3>1
      <4>2. Tagged(MarkGap(x, "logistics", t, id), t, id)
        BY <1>0, <2>1, OperationTags
      <4> QED BY <4>1, <4>2
    <3>7. k >= i => Tagged(y, t, id)
      BY <2>1, <2>4, <3>5, <3>6
    <3> QED BY <3>4, <3>7 DEF y
  <2> QED BY <2>5, <2>6
<1> HIDE DEF N
<1>4. \A k \in 0..N : k \in T
  <2> HIDE DEF T
  <2> QED BY <1>0, <1>2, <1>3, InductionTo
<1>5. N \in 0..N /\ N >= i
  BY <1>0 DEF N
<1>6. Tagged(f[N], t, id)
  BY <1>4, <1>5
<1> QED BY <1>1, <1>6

(* _normalize_accrual names the SKU of every line that says anything, or it   *)
(* leaves the day unallocated, or the accrual is reconciled.                  *)
LEMMA DetailsTag ==
  ASSUME NEW a \in Accruals, NEW i \in LinesOf(a), NEW t \in Skus, a.lines[i].sku = t, ~SaysNothing(a, i),
         NEW y, y = Details(EmptyLedger, a)
  PROVE  ~y.allocated \/ Tagged(y, t, a.id) \/ Reconciled(a)
<1> DEFINE L == Lines(EmptyLedger, a)
<1>0. /\ a.total \in Int /\ a.id \in Ids /\ (HasLines(a) <=> a.category \in FeeCategories \/ a.category = "POSTING")
      /\ ~(a.category \in FeeCategories /\ a.category = "POSTING") /\ EmptyLedger \in LedgerType
      /\ a.category = "POSTING" => a.lines \in Seq(PostingLine)
      /\ a.category \in FeeCategories => a.lines \in Seq(FeeLine)
  BY AccrualIs, EmptyLedgerIs
<1>1. a.listed /\ LinesOf(a) = DOMAIN a.lines
  BY DEF LinesOf
<1>2. CASE HasLines(a)
  <2>1. i \in 1..Len(a.lines)
    BY <1>0, <1>1, <1>2
  <2>2. LineTagged(L, a, i)
    BY <1>2, <2>1, LinesTag
  <2>3. L \in LedgerType /\ RawOf(L) = RawTotal(a)
    <3>1. Reads(L, RawTotal(a), OwnOf(a), UnOf(a))
      BY <1>1, <1>2, LinesRead
    <3> HIDE DEF L
    <3> QED BY <3>1 DEF Reads
  <2>4. CASE a.category \in FeeCategories
    <3>1. y = L
      BY <1>0, <1>1, <2>4 DEF Details
    <3> HIDE DEF L
    <3> QED BY <1>0, <2>2, <2>4, <3>1 DEF LineTagged
  <2>5. CASE a.category = "POSTING"
    <3>1. y = WithNullDeliveries(L, a)
      <4>1. y = CASE TRUE -> WithNullDeliveries(L, a)
                  [] a.category = "POSTING" /\ ~a.listed -> NoPosting(EmptyLedger, a.id)
                  [] a.category \in FeeCategories /\ a.listed -> L
                  [] a.category \in FeeCategories /\ ~a.listed -> MarkUnknown(Incomplete(EmptyLedger), AnyFee, NoSku, a.id)
                  [] OTHER -> MarkUnknown([Incomplete(EmptyLedger) EXCEPT !.day = Aside(@, a.total)],
                                {"revenue"} \cup AnyFee, NoSku, a.id)
        BY <1>1, <2>5 DEF Details
      <4> QED BY <1>0, <1>1, <2>5, <4>1
    <3> DEFINE some == \E j \in DOMAIN a.lines : IsNull(a.lines[j])
               p == Incomplete(L)
    <3>2. y = IF some /\ ~(L.complete /\ L.raw = a.total) THEN NullDeliveries(p, a) ELSE L
      BY <3>1 DEF WithNullDeliveries
    <3>3. IsNull(a.lines[i]) => some
      BY <1>1
    <3> HIDE DEF some, L
    <3>4. CASE some /\ ~(L.complete /\ L.raw = a.total)
      <4>1. y = NullDeliveries(p, a)
        BY <3>2, <3>4
      <4>2. p \in LedgerType /\ p.sku = L.sku /\ (p.allocated <=> L.allocated)
        <5> DEFINE w == [Still EXCEPT !.complete = FALSE]
        <5>1. p \in LedgerType /\ p.sku = L.sku /\ DoesToDay(L, p, L.day, w)
          BY <2>3, CountedIs
        <5>2. w.allocated = TRUE
          BY DEF Still
        <5> HIDE DEF w, p
        <5> QED BY <5>1, <5>2 DEF DoesToDay
      <4> HIDE DEF p
      <4>3. LineTagged(p, a, i)
        BY <2>2, <4>2 DEF LineTagged, Tagged
      <4>4. CASE IsNull(a.lines[i])
        BY <2>1, <2>5, <4>1, <4>2, <4>4, NullDeliveriesTag
      <4>5. CASE ~IsNull(a.lines[i])
        <5> DEFINE e == NullDeliveries(EmptyLedger, a)
        <5>1. Merges(p, EmptyLedger, p)
          BY <4>2, NothingMerges
        <5>2. Merges(p, e, NullDeliveries(p, a))
          BY <2>5, <5>1, NullDeliveriesMerge
        <5> HIDE DEF e
        <5>3. Merges(p, e, y)
          BY <4>1, <5>2
        <5>4. LineTagged(y, a, i)
          BY <4>3, <5>3, LineTagStays DEF Merges
        <5> QED BY <4>5, <5>4 DEF LineTagged
      <4> QED BY <4>4, <4>5
    <3>5. CASE ~(some /\ ~(L.complete /\ L.raw = a.total))
      <4>1. y = L
        BY <3>2, <3>5
      <4>2. CASE IsNull(a.lines[i])
        <5>1. RawTotal(a) = {a.total}
          BY <2>3, <3>3, <3>5, <4>2 DEF RawOf
        <5>2. /\ DetailOf(a) = IF Legible(a) THEN RawTotal(a) ELSE {}
              /\ (Legible(a) <=> RawTotal(a) # {} /\ (NullLine(a) => RawTotal(a) = {a.total}))
              /\ (Reconciled(a) <=> DetailOf(a) = {a.total})
          BY <1>1, <1>2, LegibleIs DEF DetailOf
        <5> QED BY <5>1, <5>2
      <4>3. CASE ~IsNull(a.lines[i])
        BY <2>2, <4>1, <4>3 DEF LineTagged
      <4> QED BY <4>2, <4>3
    <3> QED BY <3>4, <3>5
  <2> QED BY <1>0, <1>2, <2>4, <2>5
<1>3. CASE ~HasLines(a)
  <2> DEFINE I == Incomplete(EmptyLedger)
             D == Aside(I.day, a.total)
             n == [I EXCEPT !.day = D]
             fs == {"revenue"} \cup AnyFee
             k == MarkUnknown(n, fs, NoSku, a.id)
  <2>1. y = k
    BY <1>0, <1>3 DEF Details
  <2>2. fs \in SUBSET (Fields \cup {"cogs"})
    BY DEF AnyFee, _POSSIBLE_FEE_FIELDS, Fields, Charges
  <2>3. I \in LedgerType
    BY <1>0, CountedIs
  <2> HIDE DEF I
  <2>4. D \in RowType
    <3>1. I.day \in RowType /\ D = Aside(I.day, a.total)
      BY <2>3 DEF LedgerType
    <3> HIDE DEF D
    <3> QED BY <1>0, <3>1, AsideIs
  <2>5. n \in LedgerType
    <3>1. n = [I EXCEPT !.day = D]
      OBVIOUS
    <3> HIDE DEF n, D
    <3>2. SameMarks(I, n)
      BY <2>3, <2>4, <3>1, SetDay
    <3> QED BY <3>2 DEF SameMarks
  <2> HIDE DEF n, fs
  <2>6. ~k.allocated
    BY <1>0, <2>2, <2>5, OfNobody
  <2> QED BY <2>1, <2>6
<1> QED BY <1>2, <1>3

(* The ledger of an accrual names the SKU of each of its lines.               *)
LEMMA AloneNames ==
  ASSUME NEW a \in Accruals, NEW i \in LinesOf(a), NEW t \in Skus, a.lines[i].sku = t, ~SaysNothing(a, i),
         Alone(a).allocated
  PROVE  a.id \in Alone(a).sku[t].from \/ Reconciled(a)
<1> DEFINE y == Alone(a)
           m == Details(EmptyLedger, a)
<1>1. WholeOf(y, m, a)
  <2>1. EmptyLedger \in LedgerType
    BY EmptyLedgerIs
  <2>2. m = Details(Reset(EmptyLedger), a) /\ y = Normalised(EmptyLedger, a)
    BY <2>1, ResetIs DEF Alone
  <2> HIDE DEF m, y
  <2> QED BY <2>1, <2>2, NormalisedIs
<1>2. ~m.allocated \/ Tagged(m, t, a.id) \/ Reconciled(a)
  BY DetailsTag
<1> HIDE DEF m, y
<1>3. y.sku = m.sku /\ (y.allocated <=> m.allocated) /\ y.allocated
  BY <1>1 DEF WholeOf, y
<1>4. a.id \in y.sku[t].from \/ Reconciled(a)
  BY <1>2, <1>3 DEF Tagged
<1> QED BY <1>4 DEF y

--------------------------------------------------------------------------------
(* The invariant: the ledger is what its accruals, each on its own, come to.  *)
(* Nothing in it depends on their order.                                      *)

\* The total of the amounts of some accruals.
TotalOf(g, T) == Total([a \in T |-> g[a]])

(* The total with one accrual more, and of none.                              *)
LEMMA TotalGrows ==
  ASSUME NEW T, IsFiniteSet(T), NEW a, a \notin T, NEW g, \A b \in T \cup {a} : g[b] \in Amount
  PROVE  TotalOf(g, T) \in Amount /\ TotalOf(g, T \cup {a}) = Both(TotalOf(g, T), g[a])
<1> DEFINE f == [b \in T |-> g[b]]
           h == [b \in T \cup {a} |-> g[b]]
<1>1. f \in [T -> Amount] /\ h \in [T \cup {a} -> Amount] /\ (\A b \in T : h[b] = f[b]) /\ h[a] = g[a]
  OBVIOUS
<1>2. TotalOf(g, T) = Total(f) /\ TotalOf(g, T \cup {a}) = Total(h)
  BY DEF TotalOf
<1> HIDE DEF f, h
<1>3. Total(h) = Both(Total(f), h[a])
  BY <1>1, TotalWith
<1>4. Total(f) \in Amount
  BY <1>1, TotalIs
<1> QED BY <1>1, <1>2, <1>3, <1>4

(* Of none.                                                                   *)
LEMMA TotalStarts == ASSUME NEW g PROVE TotalOf(g, {}) = {0}
<1> DEFINE f == [b \in {} |-> g[b]]
<1>1. f \in [{} -> Amount] /\ TotalOf(g, {}) = Total(f)
  BY DEF TotalOf
<1> HIDE DEF f
<1> QED BY <1>1, TotalOfNone

(* A sum with one summand more.                                               *)
LEMMA SumGrows ==
  ASSUME NEW T, IsFiniteSet(T), NEW a, a \notin T, NEW g, \A b \in T \cup {a} : g[b] \in Int
  PROVE  Sum(g, T) \in Int /\ Sum(g, T \cup {a}) = Sum(g, T) + g[a]
<1> DEFINE S == T \cup {a}
<1>1. IsFiniteSet(S)
  BY FS_AddElement
<1>2. S \ {a} = T /\ a \in S /\ g[a] \in Int /\ \A b \in S : g[b] \in Int
  OBVIOUS
<1> HIDE DEF S
<1>3. Sum(g, S) = g[a] + Sum(g, S \ {a})
  BY <1>1, <1>2, SumWithout
<1>4. Sum(g, T) \in Int
  BY SumIsInt
<1>5. Sum(g, S) = Sum(g, T) + g[a]
  <2> DEFINE x == g[a]
             y == Sum(g, T)
             z == Sum(g, S)
  <2>1. x \in Int /\ y \in Int
    BY <1>2, <1>4
  <2>2. z = x + y
    BY <1>2, <1>3
  <2> HIDE DEF x, y, z
  <2>3. z = y + x
    BY <2>1, <2>2
  <2> QED BY <2>3 DEF x, y, z
<1> QED BY <1>4, <1>5 DEF S

\* A row is what the rows of some accruals come to: its money, its units, its class.
MoneyIs(m, R, T) ==
  /\ \A f \in Fields : m.money[f] = TotalOf([a \in Accruals |-> R[a].money[f]], T)
  /\ m.unallocated = Sum([a \in Accruals |-> R[a].unallocated], T)
  /\ m.counted = UNION {R[a].counted : a \in T} /\ m.gaps = UNION {R[a].gaps : a \in T}
  /\ m.uncertain = UNION {R[a].uncertain : a \in T} /\ m.from = UNION {R[a].from : a \in T}
  /\ m.returns <=> \E a \in T : R[a].returns
UnitsAre(m, R, T) ==
  /\ m.sold = TotalOf([a \in Accruals |-> R[a].sold], T) /\ m.returned = TotalOf([a \in Accruals |-> R[a].returned], T)
  /\ m.unitsKnown <=> \A a \in T : R[a].unitsKnown
ClassIs(m, R, T) == m.classified <=> \A a \in T : R[a].classified

(* The money of a row with one accrual more.                                  *)
LEMMA MoneyGrows ==
  ASSUME NEW T \in SUBSET Accruals, IsFiniteSet(T), NEW a \in Accruals, a \notin T,
         NEW R, \A b \in Accruals : R[b] \in RowType, NEW n, NEW m, MoneyIs(n, R, T), RowAdds(n, R[a], m)
  PROVE  MoneyIs(m, R, T \cup {a})
<1>1. ASSUME NEW f \in Fields PROVE m.money[f] = TotalOf([b \in Accruals |-> R[b].money[f]], T \cup {a})
  <2> DEFINE g == [b \in Accruals |-> R[b].money[f]]
  <2>1. \A b \in T \cup {a} : g[b] \in Amount
    BY DEF RowType
  <2>2. g[a] = R[a].money[f] /\ n.money[f] = TotalOf(g, T) /\ m.money[f] = Both(n.money[f], R[a].money[f])
    BY DEF MoneyIs, RowAdds
  <2> HIDE DEF g
  <2>3. TotalOf(g, T \cup {a}) = Both(TotalOf(g, T), g[a])
    BY <2>1, TotalGrows
  <2>4. m.money[f] = TotalOf(g, T \cup {a})
    BY <2>2, <2>3
  <2> QED BY <2>4 DEF g
<1>2. m.unallocated = Sum([b \in Accruals |-> R[b].unallocated], T \cup {a})
  <2> DEFINE g == [b \in Accruals |-> R[b].unallocated]
  <2>1. \A b \in T \cup {a} : g[b] \in Int
    BY DEF RowType
  <2>2. g[a] = R[a].unallocated /\ n.unallocated = Sum(g, T) /\ m.unallocated = n.unallocated + R[a].unallocated
    BY DEF MoneyIs, RowAdds
  <2> HIDE DEF g
  <2>3. Sum(g, T \cup {a}) = Sum(g, T) + g[a]
    BY <2>1, SumGrows
  <2>4. m.unallocated = Sum(g, T \cup {a})
    BY <2>2, <2>3
  <2> QED BY <2>4 DEF g
<1>3. m.counted = UNION {R[b].counted : b \in T \cup {a}} /\ m.gaps = UNION {R[b].gaps : b \in T \cup {a}}
  BY DEF MoneyIs, RowAdds
<1>4. m.uncertain = UNION {R[b].uncertain : b \in T \cup {a}} /\ m.from = UNION {R[b].from : b \in T \cup {a}}
  BY DEF MoneyIs, RowAdds
<1>5. m.returns <=> \E b \in T \cup {a} : R[b].returns
  BY DEF MoneyIs, RowAdds
<1> QED BY <1>1, <1>2, <1>3, <1>4, <1>5 DEF MoneyIs

(* Its units.                                                                 *)
LEMMA UnitsGrow ==
  ASSUME NEW T \in SUBSET Accruals, IsFiniteSet(T), NEW a \in Accruals, a \notin T,
         NEW R, \A b \in Accruals : R[b] \in RowType, NEW n, NEW m, UnitsAre(n, R, T), UnitsAdd(n, R[a], m)
  PROVE  UnitsAre(m, R, T \cup {a})
<1> DEFINE g == [b \in Accruals |-> R[b].sold]
           h == [b \in Accruals |-> R[b].returned]
<1>1. \A b \in T \cup {a} : g[b] \in Amount /\ h[b] \in Amount
  BY DEF RowType
<1>2. g[a] = R[a].sold /\ h[a] = R[a].returned
  OBVIOUS
<1>3. /\ n.sold = TotalOf(g, T) /\ n.returned = TotalOf(h, T) /\ (n.unitsKnown <=> \A b \in T : R[b].unitsKnown)
      /\ m.sold = Both(n.sold, R[a].sold) /\ m.returned = Both(n.returned, R[a].returned)
      /\ (m.unitsKnown <=> n.unitsKnown /\ R[a].unitsKnown)
  BY DEF UnitsAre, UnitsAdd
<1> HIDE DEF g, h
<1>4. TotalOf(g, T \cup {a}) = Both(TotalOf(g, T), g[a]) /\ TotalOf(h, T \cup {a}) = Both(TotalOf(h, T), h[a])
  BY <1>1, TotalGrows
<1>5. m.sold = TotalOf(g, T \cup {a}) /\ m.returned = TotalOf(h, T \cup {a})
  BY <1>2, <1>3, <1>4
<1>6. m.unitsKnown <=> \A b \in T \cup {a} : R[b].unitsKnown
  BY <1>3
<1> QED BY <1>5, <1>6 DEF UnitsAre, g, h

(* The empty row is that of no accruals.                                      *)
LEMMA RowStarts ==
  ASSUME NEW R
  PROVE  MoneyIs(EmptyRow, R, {}) /\ UnitsAre(EmptyRow, R, {}) /\ ClassIs(EmptyRow, R, {})
<1>1. /\ \A f \in Fields : EmptyRow.money[f] = {0}
      /\ EmptyRow.unallocated = 0 /\ EmptyRow.counted = {} /\ EmptyRow.gaps = {} /\ EmptyRow.uncertain = {}
      /\ EmptyRow.sold = {0} /\ EmptyRow.returned = {0} /\ EmptyRow.unitsKnown /\ EmptyRow.classified
      /\ ~EmptyRow.returns /\ EmptyRow.from = {}
  BY EmptyRowIs
<1>2. \A g : TotalOf(g, {}) = {0} /\ Sum(g, {}) = 0
  BY TotalStarts, SumOfNone
<1>3. MoneyIs(EmptyRow, R, {})
  BY <1>1, <1>2 DEF MoneyIs
<1>4. UnitsAre(EmptyRow, R, {}) /\ ClassIs(EmptyRow, R, {})
  BY <1>1, <1>2 DEF UnitsAre, ClassIs
<1> QED BY <1>3, <1>4

\* What accruals tell, each on its own: rows, differences and what they are worth to a SKU.
DayRows == [a \in Accruals |-> Alone(a).day]
SkuRows(s) == [a \in Accruals |-> Alone(a).sku[s]]
Offs == [a \in Accruals |-> Off(a)]
Totals == [a \in Accruals |-> a.total]
OwnTotal(T) == [s \in Skus |-> TotalOf([a \in Accruals |-> OwnOf(a)[s]], T)]
UnTotal(T) == [s \in Skus |-> TotalOf([a \in Accruals |-> UnOf(a)[s]], T)]

\* The rows of ledger n, its marks and its figures, are those of the accruals of T, however they came.
RowsAre(n, T) ==
  /\ MoneyIs(n.day, DayRows, T) /\ UnitsAre(n.day, DayRows, T) /\ ClassIs(n.day, DayRows, T)
  /\ \A s \in Skus :
       /\ MoneyIs(n.sku[s], SkuRows(s), T)
       /\ n.allocated => ClassIs(n.sku[s], SkuRows(s), T)
       /\ ~Lost(n) => UnitsAre(n.sku[s], SkuRows(s), T)
MarksAre(n, T) ==
  /\ n.allocated <=> \A a \in T : Alone(a).allocated
  /\ n.skuUnitsKnown <=> \A a \in T : Alone(a).skuUnitsKnown
  /\ n.unknownSku <=> \E a \in T : Alone(a).unknownSku
  /\ n.sale <=> \E a \in T : Alone(a).sale
FiguresAre(n, T) ==
  /\ n.net = Sum(Totals, T) /\ n.mismatch = TotalOf(Offs, T)
  /\ \A x \in n.mismatch : x >= 0
  /\ n.mismatch = {0} <=> \A a \in T : Reconciled(a)
  /\ n.mismatch = {} <=> \E a \in T : ~Legible(a)
  /\ n.reconciled = {a.id : a \in {b \in T : Reconciled(b)}}
Holds(n, T) ==
  /\ n \in LedgerType /\ T \in SUBSET Accruals /\ IsFiniteSet(T)
  /\ RowsAre(n, T) /\ MarksAre(n, T) /\ FiguresAre(n, T)
  /\ Tells(n, FALSE, Paid(n), OwnTotal(T), UnTotal(T))

(* The ledger of an accrual is a ledger, and so are its rows.                 *)
LEMMA AloneTyped ==
  ASSUME NEW a \in Accruals
  PROVE  Alone(a) \in LedgerType /\ DayRows[a] = Alone(a).day /\ DayRows[a] \in RowType
         /\ \A s \in Skus : SkuRows(s)[a] = Alone(a).sku[s] /\ SkuRows(s)[a] \in RowType
<1>1. Alone(a) \in LedgerType
  BY AloneIs DEF OfOne
<1>2. Alone(a).day \in RowType /\ \A s \in Skus : Alone(a).sku[s] \in RowType
  BY <1>1 DEF LedgerType
<1> QED BY <1>1, <1>2 DEF DayRows, SkuRows

(* The rows with one accrual more.                                            *)
LEMMA RowsGrow ==
  ASSUME NEW T \in SUBSET Accruals, IsFiniteSet(T), NEW a \in Accruals, a \notin T,
         NEW n, NEW m, Joins(n, Alone(a), m), RowsAre(n, T)
  PROVE  RowsAre(m, T \cup {a})
<1> DEFINE e == Alone(a)
           D == DayRows
           U == T \cup {a}
<1>0. D[a] = e.day /\ (\A b \in Accruals : D[b] \in RowType)
      /\ \A s \in Skus : SkuRows(s)[a] = e.sku[s] /\ \A b \in Accruals : SkuRows(s)[b] \in RowType
  BY AloneTyped
<1>1. Joins(n, e, m)
  OBVIOUS
<1> HIDE DEF e, D
<1>2. /\ RowAdds(n.day, e.day, m.day) /\ UnitsAdd(n.day, e.day, m.day)
      /\ (m.day.classified <=> n.day.classified /\ e.day.classified)
      /\ ~Lost(m) => ~Lost(n)
      /\ \A s \in Skus :
              /\ RowAdds(n.sku[s], e.sku[s], m.sku[s])
              /\ m.allocated => (m.sku[s].classified <=> n.sku[s].classified /\ e.sku[s].classified)
              /\ ~Lost(m) => UnitsAdd(n.sku[s], e.sku[s], m.sku[s])
  BY <1>1, TogetherIs
<1>3. m.allocated => n.allocated
  BY <1>1 DEF Joins, MarksAdd
<1>4. MoneyIs(m.day, D, U)
  <2>1. MoneyIs(n.day, D, T) /\ RowAdds(n.day, D[a], m.day)
    BY <1>0, <1>2 DEF RowsAre, D
  <2> QED BY <1>0, <2>1, MoneyGrows
<1>5. UnitsAre(m.day, D, U)
  <2>1. UnitsAre(n.day, D, T) /\ UnitsAdd(n.day, D[a], m.day)
    BY <1>0, <1>2 DEF RowsAre, D
  <2> QED BY <1>0, <2>1, UnitsGrow
<1>6. ClassIs(m.day, D, U)
  BY <1>0, <1>2 DEF RowsAre, D, ClassIs
<1>7. ASSUME NEW s \in Skus
      PROVE  /\ MoneyIs(m.sku[s], SkuRows(s), U)
             /\ m.allocated => ClassIs(m.sku[s], SkuRows(s), U)
             /\ ~Lost(m) => UnitsAre(m.sku[s], SkuRows(s), U)
  <2> DEFINE R == SkuRows(s)
             r == n.sku[s]
             q == m.sku[s]
  <2>1. R[a] = e.sku[s] /\ \A b \in Accruals : R[b] \in RowType
    BY <1>0
  <2>2. /\ MoneyIs(r, R, T) /\ (n.allocated => ClassIs(r, R, T)) /\ (~Lost(n) => UnitsAre(r, R, T))
        /\ RowAdds(r, R[a], q) /\ (m.allocated => (q.classified <=> r.classified /\ R[a].classified))
        /\ (~Lost(m) => UnitsAdd(r, R[a], q))
    BY <1>2, <2>1 DEF RowsAre
  <2> HIDE DEF R, r, q
  <2>3. MoneyIs(q, R, U)
    BY <2>1, <2>2, MoneyGrows
  <2>4. m.allocated => ClassIs(q, R, U)
    BY <1>3, <2>2 DEF ClassIs
  <2>5. ~Lost(m) => UnitsAre(q, R, U)
    BY <1>2, <2>1, <2>2, UnitsGrow
  <2> QED BY <2>3, <2>4, <2>5 DEF R, q
<1> QED BY <1>4, <1>5, <1>6, <1>7 DEF RowsAre, D

(* The marks, and the figures: differences are not negative, so they cancel   *)
(* nothing.                                                                   *)
LEMMA FiguresGrow ==
  ASSUME NEW T \in SUBSET Accruals, IsFiniteSet(T), NEW a \in Accruals, a \notin T,
         NEW n, NEW m, Joins(n, Alone(a), m), MarksAre(n, T), FiguresAre(n, T)
  PROVE  MarksAre(m, T \cup {a}) /\ FiguresAre(m, T \cup {a}) /\ (m.mismatch = {0} => n.mismatch = {0} /\ Off(a) = {0})
<1> DEFINE e == Alone(a)
           U == T \cup {a}
<1>1. OfOne(a, e) /\ Joins(n, e, m)
  BY AloneIs
<1>2. MarksAre(m, U)
  BY DEF Joins, MarksAdd, MarksAre
<1> HIDE DEF e
<1>3. /\ e.net = a.total /\ e.mismatch = Off(a) /\ e.reconciled = (IF Reconciled(a) THEN {a.id} ELSE {})
      /\ m.net = n.net + e.net /\ m.mismatch = Both(n.mismatch, e.mismatch) /\ m.reconciled = n.reconciled \cup e.reconciled
      /\ n.mismatch \in Amount /\ n.net \in Int
  BY <1>1 DEF OfOne, Joins, LedgerType
<1>4. \A b \in Accruals : b.total \in Int /\ Off(b) \in Amount
  BY AccrualIs, OffIs
<1>5. m.net = Sum(Totals, U)
  <2>1. \A b \in U : Totals[b] \in Int
    BY <1>4 DEF Totals
  <2>2. Totals[a] = a.total
    BY DEF Totals
  <2>3. Sum(Totals, U) = Sum(Totals, T) + Totals[a]
    BY <2>1, SumGrows
  <2> QED BY <1>3, <2>2, <2>3 DEF FiguresAre
<1>6. m.mismatch = TotalOf(Offs, U)
  <2>1. \A b \in U : Offs[b] \in Amount
    BY <1>4 DEF Offs
  <2>2. Offs[a] = Off(a)
    BY DEF Offs
  <2>3. TotalOf(Offs, U) = Both(TotalOf(Offs, T), Offs[a])
    BY <2>1, TotalGrows
  <2> QED BY <1>3, <2>2, <2>3 DEF FiguresAre
<1>7. /\ \A x \in m.mismatch : x >= 0
      /\ m.mismatch = {0} <=> n.mismatch = {0} /\ Off(a) = {0}
      /\ m.mismatch = {} <=> n.mismatch = {} \/ Off(a) = {}
  <2> DEFINE o == n.mismatch
             p == Off(a)
             q == m.mismatch
  <2>1. q = Both(o, p) /\ o \in Amount /\ p \in Amount /\ (\A x \in o : x >= 0) /\ (\A x \in p : x >= 0)
    BY <1>3, OffIs DEF FiguresAre
  <2> HIDE DEF o, p, q
  <2>2. CASE o = {} \/ p = {}
    <3>1. q = {}
      BY <2>1, <2>2, BothIs
    <3> QED BY <2>2, <3>1 DEF q, o, p
  <2>3. CASE o # {} /\ p # {}
    <3>1. PICK x \in Int : o = {x}
      BY <2>1, <2>3, AmountIs
    <3>2. PICK y \in Int : p = {y}
      BY <2>1, <2>3, AmountIs
    <3>3. q = {x + y}
      BY <2>1, <3>1, <3>2, BothIs
    <3>4. x >= 0 /\ y >= 0
      BY <2>1, <3>1, <3>2
    <3>5. x + y = 0 <=> x = 0 /\ y = 0
      BY <3>4
    <3>6. (\A z \in q : z >= 0) /\ q # {}
      BY <3>3, <3>4
    <3>7. q = {0} <=> o = {0} /\ p = {0}
      <4>1. \A i, j : {i} = {j} <=> i = j
        OBVIOUS
      <4> QED BY <3>1, <3>2, <3>3, <3>5, <4>1
    <3> QED BY <2>3, <3>6, <3>7 DEF q, o, p
  <2> QED BY <2>2, <2>3
<1>8. (Off(a) = {0} <=> Reconciled(a)) /\ (Off(a) = {} <=> ~Legible(a))
  BY OffIs
<1>9. m.reconciled = {c.id : c \in {b \in U : Reconciled(b)}}
  BY <1>3 DEF FiguresAre
<1>10. (m.mismatch = {0} <=> \A b \in U : Reconciled(b)) /\ (m.mismatch = {} <=> \E b \in U : ~Legible(b))
  BY <1>7, <1>8 DEF FiguresAre
<1>11. FiguresAre(m, U)
  BY <1>5, <1>6, <1>7, <1>9, <1>10 DEF FiguresAre
<1> QED BY <1>2, <1>7, <1>11

(* What SKUs own, and their units, with one accrual more.                     *)
LEMMA OwnGrows ==
  ASSUME NEW T \in SUBSET Accruals, IsFiniteSet(T), NEW a \in Accruals, a \notin T
  PROVE  \A s \in Skus : /\ OwnTotal(T \cup {a})[s] = Both(OwnTotal(T)[s], OwnOf(a)[s])
                         /\ UnTotal(T \cup {a})[s] = Both(UnTotal(T)[s], UnOf(a)[s])
<1> SUFFICES ASSUME NEW s \in Skus
             PROVE  /\ OwnTotal(T \cup {a})[s] = Both(OwnTotal(T)[s], OwnOf(a)[s])
                    /\ UnTotal(T \cup {a})[s] = Both(UnTotal(T)[s], UnOf(a)[s])
  OBVIOUS
<1> DEFINE g == [b \in Accruals |-> OwnOf(b)[s]]
           h == [b \in Accruals |-> UnOf(b)[s]]
<1>1. \A b \in T \cup {a} : g[b] \in Amount /\ h[b] \in Amount
  BY AloneIs
<1>2. /\ g[a] = OwnOf(a)[s] /\ h[a] = UnOf(a)[s]
      /\ \A S : OwnTotal(S)[s] = TotalOf(g, S) /\ UnTotal(S)[s] = TotalOf(h, S)
  BY DEF OwnTotal, UnTotal
<1> HIDE DEF g, h
<1>3. TotalOf(g, T \cup {a}) = Both(TotalOf(g, T), g[a]) /\ TotalOf(h, T \cup {a}) = Both(TotalOf(h, T), h[a])
  BY <1>1, TotalGrows
<1> QED BY <1>2, <1>3

(* A ledger that holds of some accruals holds of one more, once it is read:   *)
(* the step of normalize_accruals.                                            *)
LEMMA HoldsGrow ==
  ASSUME NEW n, NEW T, Holds(n, T), NEW a \in Accruals, a \notin T
  PROVE  Holds(Normalised(n, a), T \cup {a})
<1> DEFINE m == Normalised(n, a)
           e == Alone(a)
           U == T \cup {a}
<1>0. /\ n \in LedgerType /\ T \in SUBSET Accruals /\ IsFiniteSet(T)
      /\ RowsAre(n, T) /\ MarksAre(n, T) /\ FiguresAre(n, T)
      /\ Tells(n, FALSE, Paid(n), OwnTotal(T), UnTotal(T))
  BY DEF Holds
<1>1. Joins(n, e, m)
  BY <1>0, NormalisedJoins
<1>2. OfOne(a, e)
  BY AloneIs
<1>3. U \in SUBSET Accruals /\ IsFiniteSet(U)
  BY <1>0, FS_AddElement
<1> HIDE DEF m
<1>4. RowsAre(m, U)
  BY <1>0, <1>1, RowsGrow
<1>5. MarksAre(m, U) /\ FiguresAre(m, U) /\ (m.mismatch = {0} => n.mismatch = {0} /\ Off(a) = {0})
  BY <1>0, <1>1, FiguresGrow
<1> HIDE DEF e
<1>6. /\ n.net \in Int /\ e.net \in Int /\ m.net = n.net + e.net /\ e.mismatch = Off(a) /\ m \in LedgerType
      /\ Tells(e, FALSE, Paid(e), OwnOf(a), UnOf(a))
  BY <1>1, <1>2 DEF Joins, LedgerType, OfOne
<1> DEFINE o == Paid(n)
           p == Paid(e)
           q == Paid(m)
           k == FALSE
<1>7. o \in Amount /\ p \in Amount /\ q \in Amount
  <2>1. m.net \in Int /\ \A x \in Int : {x} \in Amount
    BY <1>6, AmountIs
  <2> QED BY <1>6, <2>1, SmallAmounts DEF Paid
<1>8. q # {} => q = Both(o, p)
  <2> SUFFICES ASSUME q # {} PROVE q = Both(o, p)
    OBVIOUS
  <2>1. m.mismatch = {0}
    BY DEF Paid
  <2>2. o = {n.net} /\ p = {e.net} /\ q = {n.net + e.net}
    BY <1>5, <1>6, <2>1 DEF Paid
  <2> HIDE DEF o, p, q
  <2> QED BY <1>6, <2>2, BothIs
<1>9. Tells(m, k, q, OwnTotal(U), UnTotal(U))
  <2> DEFINE v == OwnTotal(T)
             w == UnTotal(T)
             x == OwnOf(a)
             y == UnOf(a)
             own == OwnTotal(U)
             un == UnTotal(U)
  <2>1. \A s \in Skus : own[s] = Both(v[s], x[s]) /\ un[s] = Both(w[s], y[s])
    BY <1>0, OwnGrows
  <2>2. Tells(n, k, o, v, w) /\ Tells(e, k, p, x, y)
    BY <1>0, <1>6
  <2> HIDE DEF v, w, x, y, own, un, o, p, q, k
  <2>3. Tells(m, k, q, own, un)
    BY <1>1, <1>7, <1>8, <2>1, <2>2, TellsTogether
  <2> QED BY <2>3 DEF own, un
<1>10. Holds(m, U)
  BY <1>3, <1>4, <1>5, <1>6, <1>9 DEF Holds
<1> QED BY <1>10 DEF m

(* The empty ledger holds of no accruals.                                     *)
LEMMA HoldsOfNone == Holds(EmptyLedger, {})
<1> DEFINE n == EmptyLedger
           z == {0}
           N == {}
<1>0. /\ n \in LedgerType /\ n.day = EmptyRow /\ \A s \in Skus : n.sku[s] = EmptyRow
      /\ n.net = 0 /\ n.mismatch = {0} /\ n.reconciled = {}
      /\ n.allocated /\ n.skuUnitsKnown /\ ~n.unknownSku /\ ~n.sale
  BY EmptyLedgerIs
<1>1. N \in SUBSET Accruals /\ IsFiniteSet(N) /\ N = {}
  BY FS_EmptySet
<1>2. z = {0} /\ (\A g : TotalOf(g, N) = z /\ Sum(g, N) = 0)
  BY TotalStarts, SumOfNone
<1>3. Piece(n, NoSku, FALSE, z, z, z)
  BY NothingIsPiece
<1> HIDE DEF n, N, z
<1>4. RowsAre(n, N)
  BY <1>0, <1>1, RowStarts DEF RowsAre
<1>5. MarksAre(n, N)
  BY <1>0, <1>1 DEF MarksAre
<1>6. FiguresAre(n, N)
  <2>1. n.reconciled = {a.id : a \in {b \in N : Reconciled(b)}}
    BY <1>0, <1>1
  <2> QED BY <1>0, <1>1, <1>2, <2>1 DEF FiguresAre
<1>7. Paid(n) = z
  BY <1>0, <1>2 DEF Paid
<1>8. Reads(n, z, At(z, NoSku), At(z, NoSku))
  BY <1>3, PieceReads
<1>9. \A s \in Skus : OwnTotal(N)[s] = At(z, NoSku)[s] /\ UnTotal(N)[s] = At(z, NoSku)[s]
  BY <1>2, AccrualAssumption DEF OwnTotal, UnTotal, At
<1>10. Reads(n, Paid(n), OwnTotal(N), UnTotal(N))
  <2> DEFINE p == Paid(n)
             v == At(z, NoSku)
             own == OwnTotal(N)
             un == UnTotal(N)
  <2>1. p = z /\ Reads(n, z, v, v) /\ \A s \in Skus : own[s] = v[s] /\ un[s] = v[s]
    BY <1>7, <1>8, <1>9
  <2> HIDE DEF p, v, own, un
  <2>2. Reads(n, p, own, un)
    BY <2>1, ReadsAlike
  <2> QED BY <2>2 DEF p, own, un
<1>11. Holds(n, N)
  BY <1>0, <1>1, <1>4, <1>5, <1>6, <1>10 DEF Holds, Reads
<1> QED BY <1>11 DEF n, N

\* What a reading of some of the accruals makes of each set of them.
ReadsFrom(g, T) == IF T = {} THEN EmptyLedger ELSE Normalised(g[T \ {AnyOf(T)}], AnyOf(T))
ReadingOf(g, SS) == g = [T \in SS |-> ReadsFrom(g, T)]

(* There is such a reading of every set of accruals.                          *)
LEMMA ReadingExists ==
  ASSUME NEW S, IsFiniteSet(S)
  PROVE  \E g : ReadingOf(g, SUBSET S)
<1> DEFINE Small(n) == {s \in SUBSET S : Cardinality(s) <= n}
           T == {n \in Nat : \E g : ReadingOf(g, Small(n))}
<1>0. \A s \in SUBSET S : IsFiniteSet(s) /\ Cardinality(s) \in Nat
  BY FS_Subset, FS_CardinalityType
<1>1. ASSUME NEW n \in Nat, NEW s \in Small(n + 1), s # {} PROVE s \ {AnyOf(s)} \in Small(n)
  <2>1. AnyOf(s) \in s /\ IsFiniteSet(s) /\ Cardinality(s) \in Nat /\ Cardinality(s) <= n + 1
    BY <1>0, <1>1 DEF AnyOf
  <2>2. Cardinality(s \ {AnyOf(s)}) = Cardinality(s) - 1
    BY <2>1, FS_RemoveElement
  <2> QED BY <2>1, <2>2
<1>2. 0 \in T
  <2> DEFINE g == [s \in Small(0) |-> EmptyLedger]
  <2>1. \A s \in Small(0) : s = {}
    BY <1>0, FS_EmptySet
  <2>2. ReadingOf(g, Small(0))
    BY <2>1 DEF ReadingOf, ReadsFrom
  <2> HIDE DEF g, Small
  <2> QED BY <2>2
<1>3. ASSUME NEW n \in T PROVE n + 1 \in T
  <2>1. PICK g : ReadingOf(g, Small(n))
    OBVIOUS
  <2> DEFINE more == [s \in Small(n + 1) |-> ReadsFrom(g, s)]
  <2>2. n \in Nat /\ Small(n) \subseteq Small(n + 1)
    BY <1>0
  <2> HIDE DEF Small
  <2>3. \A s \in Small(n) : more[s] = g[s]
    BY <2>1, <2>2 DEF ReadingOf
  <2>4. \A s \in Small(n + 1) : ReadsFrom(g, s) = ReadsFrom(more, s)
    BY <1>1, <2>2, <2>3 DEF ReadsFrom
  <2>5. ReadingOf(more, Small(n + 1))
    BY <2>4 DEF ReadingOf
  <2> HIDE DEF more
  <2>6. n + 1 \in Nat
    BY <2>2
  <2> QED BY <2>5, <2>6
<1>4. T \in SUBSET Nat
  OBVIOUS
<1>5. Cardinality(S) \in Nat /\ Small(Cardinality(S)) = SUBSET S
  BY <1>0, FS_Subset
<1> HIDE DEF T
<1>6. T = Nat
  BY <1>2, <1>3, <1>4, SetInduction
<1>7. PICK n \in T : n = Cardinality(S)
  BY <1>5, <1>6
<1>8. PICK g : ReadingOf(g, Small(n))
  BY DEF T
<1> QED BY <1>5, <1>7, <1>8

(* The accruals read in another order: the ledger holds of the same.          *)
LEMMA AnotherOrderHolds ==
  ASSUME taken \in SUBSET Accruals, IsFiniteSet(taken)
  PROVE  Holds(InAnotherOrder, taken)
<1> DEFINE g == CHOOSE h : ReadingOf(h, SUBSET taken)
           T == {s \in SUBSET taken : Holds(g[s], s)}
<1>1. InAnotherOrder = g[taken]
  BY DEF InAnotherOrder, ReadingOf, ReadsFrom, AnyOf
<1>2. ReadingOf(g, SUBSET taken)
  BY ReadingExists
<1> HIDE DEF g
<1>3. \A s \in SUBSET taken : g[s] = ReadsFrom(g, s)
  BY <1>2 DEF ReadingOf
<1>4. {} \in T
  BY <1>3, HoldsOfNone DEF ReadsFrom
<1>5. ASSUME NEW s \in SUBSET taken, s # {}, s \ {AnyOf(s)} \in T PROVE s \in T
  <2> DEFINE a == AnyOf(s)
             r == s \ {a}
             n == g[r]
  <2>1. a \in s /\ a \in Accruals
    BY <1>5 DEF AnyOf
  <2>2. g[s] = Normalised(n, a) /\ Holds(n, r)
    BY <1>3, <1>5 DEF ReadsFrom
  <2>3. a \notin r /\ r \cup {a} = s
    BY <2>1
  <2> HIDE DEF a, n, r
  <2>4. Holds(Normalised(n, a), r \cup {a})
    BY <2>1, <2>2, <2>3, HoldsGrow
  <2>5. Holds(g[s], s)
    BY <2>2, <2>3, <2>4
  <2> QED BY <2>5
<1>6. T \in SUBSET SUBSET taken
  OBVIOUS
<1> HIDE DEF T
<1>7. T = SUBSET taken
  BY <1>4, <1>5, <1>6, SubsetInduction
<1> QED BY <1>1, <1>7 DEF T

--------------------------------------------------------------------------------
(* The order of the accruals.                                                 *)

(* A row is its fields.                                                       *)
LEMMA RowsEqual ==
  ASSUME NEW r \in RowType, NEW d \in RowType, \A f \in Fields : r.money[f] = d.money[f],
         r.unallocated = d.unallocated, r.counted = d.counted, r.gaps = d.gaps, r.uncertain = d.uncertain,
         r.sold = d.sold, r.returned = d.returned, r.unitsKnown <=> d.unitsKnown, r.classified <=> d.classified,
         r.returns <=> d.returns, r.from = d.from
  PROVE  r = d
<1>1. r.money = d.money
  BY DEF RowType
<1>2. r.unitsKnown = d.unitsKnown /\ r.classified = d.classified /\ r.returns = d.returns
  BY DEF RowType
<1> QED BY <1>1, <1>2 DEF RowType

\* Rows that tell the same of money.
SameMoney(r, d) ==
  /\ r.money = d.money /\ r.counted = d.counted /\ r.gaps = d.gaps /\ r.uncertain = d.uncertain
  /\ r.from = d.from /\ (r.returns <=> d.returns)

\* Ledgers that tell the same: only what nobody is told of may differ.
Alike(n, m) ==
  /\ n \in LedgerType /\ m \in LedgerType /\ n.day = m.day
  /\ (n.allocated <=> m.allocated) /\ (n.skuUnitsKnown <=> m.skuUnitsKnown)
  /\ (n.unknownSku <=> m.unknownSku) /\ (n.sale <=> m.sale)
  /\ n.net = m.net /\ n.mismatch = m.mismatch /\ n.reconciled = m.reconciled
  /\ \A s \in Skus :
       /\ SameMoney(n.sku[s], m.sku[s])
       /\ n.allocated => (n.sku[s].classified <=> m.sku[s].classified)
       /\ ~Lost(n) => n.sku[s].sold = m.sku[s].sold /\ n.sku[s].returned = m.sku[s].returned
  /\ Firm(n, FALSE) /\ Firm(m, FALSE)

(* Ledgers of the same accruals are alike.                                    *)
LEMMA HoldAlike ==
  ASSUME NEW n, NEW m, NEW T, Holds(n, T), Holds(m, T)
  PROVE  Alike(n, m)
<1>1. \A x \in {n, m} : /\ x \in LedgerType /\ RowsAre(x, T) /\ MarksAre(x, T) /\ FiguresAre(x, T) /\ Firm(x, FALSE)
  BY DEF Holds, Tells
<1>2. /\ n.allocated <=> m.allocated
      /\ n.skuUnitsKnown <=> m.skuUnitsKnown
      /\ n.unknownSku <=> m.unknownSku
      /\ n.sale <=> m.sale
  BY <1>1 DEF MarksAre
<1>3. n.net = m.net /\ n.mismatch = m.mismatch /\ n.reconciled = m.reconciled
  BY <1>1 DEF FiguresAre
<1>4. n.day = m.day
  <2>1. n.day \in RowType /\ m.day \in RowType
    BY <1>1 DEF LedgerType
  <2> DEFINE r == n.day
             d == m.day
  <2>2. \A x \in {r, d} : MoneyIs(x, DayRows, T) /\ UnitsAre(x, DayRows, T) /\ ClassIs(x, DayRows, T)
    BY <1>1 DEF RowsAre
  <2> HIDE DEF r, d
  <2>3. /\ \A f \in Fields : r.money[f] = d.money[f]
        /\ r.unallocated = d.unallocated /\ r.counted = d.counted /\ r.gaps = d.gaps /\ r.uncertain = d.uncertain
        /\ (r.returns <=> d.returns) /\ r.from = d.from
    BY <2>2 DEF MoneyIs
  <2>4. r.sold = d.sold /\ r.returned = d.returned /\ (r.unitsKnown <=> d.unitsKnown) /\ (r.classified <=> d.classified)
    BY <2>2 DEF UnitsAre, ClassIs
  <2>5. r \in RowType /\ d \in RowType
    BY <2>1 DEF r, d
  <2>6. r = d
    BY <2>3, <2>4, <2>5, RowsEqual
  <2> QED BY <2>6 DEF r, d
<1>5. Lost(n) <=> Lost(m)
  BY <1>2, <1>4 DEF Lost
<1>6. ASSUME NEW s \in Skus
      PROVE  /\ SameMoney(n.sku[s], m.sku[s])
             /\ n.allocated => (n.sku[s].classified <=> m.sku[s].classified)
             /\ ~Lost(n) => n.sku[s].sold = m.sku[s].sold /\ n.sku[s].returned = m.sku[s].returned
  <2> DEFINE r == n.sku[s]
             d == m.sku[s]
             R == SkuRows(s)
  <2>1. r \in RowType /\ d \in RowType
    BY <1>1 DEF LedgerType
  <2>2. /\ MoneyIs(r, R, T) /\ MoneyIs(d, R, T)
        /\ n.allocated => ClassIs(r, R, T) /\ ClassIs(d, R, T)
        /\ ~Lost(n) => UnitsAre(r, R, T) /\ UnitsAre(d, R, T)
    BY <1>1, <1>2, <1>5 DEF RowsAre
  <2> HIDE DEF r, d, R
  <2>3. \A f \in Fields : r.money[f] = d.money[f]
    BY <2>2 DEF MoneyIs
  <2>4. r.money = d.money
    BY <2>1, <2>3 DEF RowType
  <2>5. r.counted = d.counted /\ r.gaps = d.gaps /\ r.uncertain = d.uncertain /\ r.from = d.from /\ (r.returns <=> d.returns)
    BY <2>2 DEF MoneyIs
  <2>6. n.allocated => (r.classified <=> d.classified)
    BY <2>2 DEF ClassIs
  <2>7. ~Lost(n) => r.sold = d.sold /\ r.returned = d.returned
    BY <2>2 DEF UnitsAre
  <2> QED BY <2>4, <2>5, <2>6, <2>7 DEF SameMoney, r, d
<1> QED BY <1>1, <1>2, <1>3, <1>4, <1>6 DEF Alike

(* The fields of a row of a SKU as it is saved.                               *)
LEMMA SkuRowIs ==
  ASSUME NEW n, NEW s
  PROVE  /\ SkuRow(n, s).money = [f \in Fields |-> IF f \in n.sku[s].uncertain \cup n.day.uncertain THEN {} ELSE Settled(n.sku[s])[f]]
         /\ SkuRow(n, s).units = (IF n.unknownSku THEN {} ELSE NetUnits(n.sku[s]))
         /\ SkuRow(n, s).cogs = (IF n.unknownSku \/ "cogs" \in n.sku[s].uncertain \cup n.day.uncertain THEN {} ELSE Cogs(n, s))
         /\ SkuRow(n, s).net = (IF /\ n.sku[s].classified /\ n.allocated /\ n.sku[s].from # {}
                                   /\ n.sku[s].from \subseteq n.reconciled
                                   /\ n.sku[s].uncertain \cup n.day.uncertain = {}
                                THEN Balance(Settled(n.sku[s])) ELSE {})
         /\ SkuRow(n, s).returnBlocked <=> (n.sku[s].returns \/ n.day.returns) /\ ~\E q \in n.sku[s].returned : q > 0
BY DEF SkuRow, Unknown

(* Alike ledgers tell the same of a SKU.                                      *)
LEMMA AlikeSkus ==
  ASSUME NEW n, NEW m, Alike(n, m)
  PROVE  /\ Named(n) = Named(m) /\ (Lost(n) <=> Lost(m))
         /\ \A s \in Skus :
              /\ SkuRow(n, s).money = SkuRow(m, s).money /\ SkuRow(n, s).net = SkuRow(m, s).net
              /\ SkuRow(n, s).cogs = SkuRow(m, s).cogs /\ (SkuComplete(n, s) <=> SkuComplete(m, s))
              /\ ShownCogs(n, s) = ShownCogs(m, s) /\ SkuMargin(n, s) = SkuMargin(m, s)
              /\ ~Lost(n) => /\ NetUnits(n.sku[s]) = NetUnits(m.sku[s]) /\ Cogs(n, s) = Cogs(m, s)
                             /\ SkuRow(n, s).units = SkuRow(m, s).units
              /\ n.unknownSku => SkuRow(n, s).units = {} /\ SkuRow(m, s).units = {}
<1>1. Named(n) = Named(m)
  BY DEF Named, Alike, SameMoney
<1>2. Lost(n) <=> Lost(m)
  BY DEF Lost, Alike
<1>3. ASSUME NEW s \in Skus
      PROVE  /\ SkuRow(n, s).money = SkuRow(m, s).money /\ SkuRow(n, s).net = SkuRow(m, s).net
             /\ SkuRow(n, s).cogs = SkuRow(m, s).cogs /\ (SkuComplete(n, s) <=> SkuComplete(m, s))
             /\ ShownCogs(n, s) = ShownCogs(m, s) /\ SkuMargin(n, s) = SkuMargin(m, s)
             /\ ~Lost(n) => /\ NetUnits(n.sku[s]) = NetUnits(m.sku[s]) /\ Cogs(n, s) = Cogs(m, s)
                            /\ SkuRow(n, s).units = SkuRow(m, s).units
             /\ n.unknownSku => SkuRow(n, s).units = {} /\ SkuRow(m, s).units = {}
  <2> DEFINE r == n.sku[s]
             d == m.sku[s]
  <2>1. /\ r.money = d.money /\ r.counted = d.counted /\ r.gaps = d.gaps /\ r.uncertain = d.uncertain
        /\ r.from = d.from /\ (r.returns <=> d.returns)
        /\ n.day = m.day /\ (n.allocated <=> m.allocated) /\ (n.unknownSku <=> m.unknownSku) /\ n.reconciled = m.reconciled
        /\ n.allocated => (r.classified <=> d.classified)
        /\ ~Lost(n) => r.sold = d.sold /\ r.returned = d.returned
    BY DEF Alike, SameMoney
  <2>2. Settled(r) = Settled(d)
    BY <2>1 DEF Settled
  <2>3. Lost(n) <=> (n.unknownSku \/ "cogs" \in n.day.uncertain) /\ ~n.skuUnitsKnown
    BY DEF Lost
  <2>4. ~Lost(n) => NetUnits(r) = NetUnits(d)
    BY <2>1 DEF NetUnits
  <2>5. ~Lost(n) => Cogs(n, s) = Cogs(m, s)
    <3> DEFINE x == NetUnits(r)
               y == NetUnits(d)
    <3>1. /\ Cogs(n, s) = IF x = {0} THEN {0} ELSE {q * c : q \in x, c \in SkuCosts[s]}
          /\ Cogs(m, s) = IF y = {0} THEN {0} ELSE {q * c : q \in y, c \in SkuCosts[s]}
      BY DEF Cogs
    <3>2. ~Lost(n) => x = y
      BY <2>4
    <3> HIDE DEF x, y
    <3> QED BY <3>1, <3>2
  <2> DEFINE A == SkuRow(n, s)
             B == SkuRow(m, s)
             u == r.uncertain \cup n.day.uncertain
             v == d.uncertain \cup m.day.uncertain
             S == Settled(r)
             P == Settled(d)
             x == NetUnits(r)
             y == NetUnits(d)
  <2>6. /\ A.money = [f \in Fields |-> IF f \in u THEN {} ELSE S[f]]
        /\ A.units = (IF n.unknownSku THEN {} ELSE x)
        /\ A.cogs = (IF n.unknownSku \/ "cogs" \in u THEN {} ELSE Cogs(n, s))
        /\ A.net = (IF r.classified /\ n.allocated /\ r.from # {} /\ r.from \subseteq n.reconciled /\ u = {}
                     THEN Balance(S) ELSE {})
        /\ A.returnBlocked <=> (r.returns \/ n.day.returns) /\ ~\E q \in r.returned : q > 0
    BY SkuRowIs
  <2>7. /\ B.money = [f \in Fields |-> IF f \in v THEN {} ELSE P[f]]
        /\ B.units = (IF m.unknownSku THEN {} ELSE y)
        /\ B.cogs = (IF m.unknownSku \/ "cogs" \in v THEN {} ELSE Cogs(m, s))
        /\ B.net = (IF d.classified /\ m.allocated /\ d.from # {} /\ d.from \subseteq m.reconciled /\ v = {}
                     THEN Balance(P) ELSE {})
        /\ B.returnBlocked <=> (d.returns \/ m.day.returns) /\ ~\E q \in d.returned : q > 0
    BY SkuRowIs
  <2>8. u = v /\ S = P /\ (~Lost(n) => x = y) /\ ("cogs" \in n.day.uncertain => "cogs" \in u)
    BY <2>1, <2>2, <2>4
  <2> HIDE DEF A, B, u, v, S, P, x, y, r, d
  <2>9. A.money = B.money
    BY <2>6, <2>7, <2>8
  <2>10. A.net = B.net
    BY <2>1, <2>6, <2>7, <2>8
  <2>11. ~Lost(n) => A.units = B.units
    BY <2>1, <2>6, <2>7, <2>8
  <2>12. n.unknownSku => A.units = {} /\ B.units = {}
    BY <2>1, <2>6, <2>7
  <2>13. Lost(n) => A.cogs = {} /\ B.cogs = {}
    BY <2>1, <2>3, <2>6, <2>7, <2>8
  <2>14. A.cogs = B.cogs
    BY <2>1, <2>5, <2>13, <2>6, <2>7, <2>8
  <2>15. ~Lost(n) => (A.returnBlocked <=> B.returnBlocked)
    BY <2>1, <2>6, <2>7
  <2>16. SkuComplete(n, s) <=> SkuComplete(m, s)
    BY <2>9, <2>10, <2>13, <2>14, <2>15 DEF SkuComplete, Unknown, A, B
  <2>17. ShownCogs(n, s) = ShownCogs(m, s)
    BY <2>14 DEF ShownCogs, A, B
  <2>18. SkuMargin(n, s) = SkuMargin(m, s)
    BY <2>9, <2>17 DEF SkuMargin, A, B
  <2> QED BY <2>9, <2>10, <2>4, <2>5, <2>11, <2>12, <2>14, <2>16, <2>17, <2>18 DEF A, B, r, d
<1> QED BY <1>1, <1>2, <1>3

(* They tell the same of the day.                                             *)
LEMMA AlikeDays ==
  ASSUME NEW n, NEW m, Alike(n, m)
  PROVE  DayCogs(n) = DayCogs(m) /\ (DayComplete(n) <=> DayComplete(m)) /\ DayMargin(n) = DayMargin(m)
<1>1. /\ n.day = m.day /\ (n.skuUnitsKnown <=> m.skuUnitsKnown) /\ (n.unknownSku <=> m.unknownSku) /\ (n.sale <=> m.sale)
      /\ n.net = m.net /\ n.mismatch = m.mismatch /\ Firm(n, FALSE)
  BY DEF Alike
<1> DEFINE N == Named(n)
<1>2. /\ N = Named(m) /\ N \subseteq Skus
      /\ \A s \in N : /\ ShownCogs(n, s) = ShownCogs(m, s)
                      /\ ~Lost(n) => /\ NetUnits(n.sku[s]) = NetUnits(m.sku[s]) /\ Cogs(n, s) = Cogs(m, s)
                                     /\ SkuRow(n, s).units = SkuRow(m, s).units
                      /\ n.unknownSku => SkuRow(n, s).units = {} /\ SkuRow(m, s).units = {}
  <2>1. N \subseteq Skus
    BY DEF Named
  <2> QED BY <2>1, AlikeSkus
<1>3. DayCogs(n) = DayCogs(m)
  <2>1. CASE ~n.skuUnitsKnown
    BY <1>1, <2>1 DEF DayCogs
  <2>2. CASE n.skuUnitsKnown
    <3>1. ~Lost(n)
      BY <2>2 DEF Lost
    <3>2. LackingCost(n) = LackingCost(m)
      BY <1>2, <3>1 DEF LackingCost
    <3>3. [s \in Named(n) |-> The(Cogs(n, s))] = [s \in Named(m) |-> The(Cogs(m, s))]
      BY <1>2, <3>1
    <3> QED BY <1>1, <3>2, <3>3 DEF DayCogs
  <2> QED BY <2>1, <2>2
<1>4. DayComplete(n) <=> DayComplete(m)
  BY <1>1, <1>3 DEF DayComplete
<1>5. Settled(n.day)["revenue"] = {} \/ KnownCost(n) = KnownCost(m)
  <2>1. CASE Lost(n) /\ ~n.unknownSku
    <3>1. n.day.money["revenue"] = {}
      BY <1>1, <2>1 DEF Lost, Firm
    <3>2. "revenue" \in Fields
      BY DEF Fields
    <3> QED BY <3>1, <3>2 DEF Settled, Unknown
  <2>2. CASE ~(Lost(n) /\ ~n.unknownSku)
    <3>1. \A s \in N : SkuRow(n, s).units = SkuRow(m, s).units
      BY <1>2, <2>2
    <3>2. (\E s \in N : ShownCogs(n, s) = Unknown /\ SkuRow(n, s).units = Unknown)
            <=> (\E s \in N : ShownCogs(m, s) = Unknown /\ SkuRow(m, s).units = Unknown)
      BY <1>2, <3>1
    <3>3. [s \in {t \in N : ShownCogs(n, t) # Unknown} |-> The(ShownCogs(n, s))]
            = [s \in {t \in N : ShownCogs(m, t) # Unknown} |-> The(ShownCogs(m, s))]
      BY <1>2
    <3> QED BY <1>2, <3>2, <3>3 DEF KnownCost
  <2> QED BY <2>1, <2>2
<1>6. ShownDayCogs(n) = ShownDayCogs(m)
  <2>1. CASE Settled(n.day)["revenue"] = {}
    BY <1>1, <2>1 DEF ShownDayCogs, Unknown
  <2>2. CASE Settled(n.day)["revenue"] # {}
    BY <1>1, <1>2, <1>5, <2>2 DEF ShownDayCogs, Unknown
  <2> QED BY <2>1, <2>2
<1>7. DayMargin(n) = DayMargin(m)
  BY <1>1, <1>6 DEF DayMargin
<1> QED BY <1>3, <1>4, <1>7

(* So what is told is the same.                                               *)
LEMMA AlikeTold ==
  ASSUME NEW n, NEW m, Alike(n, m)
  PROVE  Told(n) = Told(m)
<1>1. DayCogs(n) = DayCogs(m) /\ (DayComplete(n) <=> DayComplete(m)) /\ DayMargin(n) = DayMargin(m)
  BY AlikeDays
<1>2. n.day = m.day /\ n.mismatch = m.mismatch
  BY DEF Alike
<1>3. Named(n) = Named(m) /\ Named(n) \subseteq Skus
  <2>1. Named(n) \subseteq Skus
    BY DEF Named
  <2> QED BY <2>1, AlikeSkus
<1>4. ASSUME NEW s \in Named(n)
      PROVE  <<SkuRow(n, s).money, SkuRow(n, s).net, SkuRow(n, s).cogs, SkuComplete(n, s), SkuMargin(n, s)>>
               = <<SkuRow(m, s).money, SkuRow(m, s).net, SkuRow(m, s).cogs, SkuComplete(m, s), SkuMargin(m, s)>>
  <2>1. s \in Skus
    BY <1>3
  <2>2. /\ SkuRow(n, s).money = SkuRow(m, s).money /\ SkuRow(n, s).net = SkuRow(m, s).net
        /\ SkuRow(n, s).cogs = SkuRow(m, s).cogs /\ (SkuComplete(n, s) <=> SkuComplete(m, s))
        /\ SkuMargin(n, s) = SkuMargin(m, s)
    BY <2>1, AlikeSkus
  <2>3. SkuComplete(n, s) = SkuComplete(m, s)
    BY <2>2 DEF SkuComplete
  <2> QED BY <2>2, <2>3
<1>5. DayComplete(n) = DayComplete(m)
  BY <1>1 DEF DayComplete
<1> DEFINE f == [s \in Named(n) |-> <<SkuRow(n, s).money, SkuRow(n, s).net, SkuRow(n, s).cogs, SkuComplete(n, s), SkuMargin(n, s)>>]
           g == [s \in Named(m) |-> <<SkuRow(m, s).money, SkuRow(m, s).net, SkuRow(m, s).cogs, SkuComplete(m, s), SkuMargin(m, s)>>]
<1>6. f = g
  BY <1>3, <1>4
<1>7. Settled(n.day) = Settled(m.day)
  BY <1>2
<1>8. /\ Told(n) = [day |-> Settled(n.day), mismatch |-> n.mismatch, cogs |-> DayCogs(n), complete |-> DayComplete(n),
                    margin |-> DayMargin(n), skus |-> f]
      /\ Told(m) = [day |-> Settled(m.day), mismatch |-> m.mismatch, cogs |-> DayCogs(m), complete |-> DayComplete(m),
                    margin |-> DayMargin(m), skus |-> g]
  BY DEF Told
<1> HIDE DEF f, g
<1> QED BY <1>1, <1>2, <1>5, <1>6, <1>7, <1>8

--------------------------------------------------------------------------------
(* What the day and its SKUs claim.                                           *)

(* Known amounts, of which all but those of P are nothing.                    *)
LEMMA TotalOfPart ==
  ASSUME NEW S, IsFiniteSet(S), NEW P \in SUBSET S, NEW F \in [S -> Amount], NEW g, Total(F) # {},
         \A x \in P : F[x] # {} => F[x] = {g[x]} /\ g[x] \in Int, \A x \in S \ P : F[x] = {0}
  PROVE  Total(F) = {Sum(g, P)} /\ Sum(g, P) \in Int
<1> DEFINE h == [x \in S |-> IF x \in P THEN g[x] ELSE 0]
<1>1. \A x \in S : F[x] # {}
  BY TotalIs
<1>2. \A x \in S : F[x] = {h[x]} /\ h[x] \in Int
  BY <1>1
<1>3. (\A x \in P : h[x] \in Int /\ g[x] = h[x]) /\ \A x \in S \ P : h[x] = 0
  BY <1>2
<1> HIDE DEF h
<1>4. Total(F) = {Sum(h, S)}
  BY <1>2, TotalIs
<1>5. Sum(h, S) = Sum(g, P) /\ Sum(g, P) \in Int
  BY <1>3, SumOfPart
<1> QED BY <1>4, <1>5

(* The lines of an accrual that are read.                                     *)
LEMMA LinesAreFinite ==
  ASSUME NEW a \in Accruals
  PROVE  /\ IsFiniteSet(KnownLines(a))
         /\ \A s \in Skus, i \in KnownLines(a) : LineOwn(a, i)[s] \in Amount /\ LineUn(a, i)[s] \in Amount
         /\ HasLines(a) => KnownLines(a) = LinesOf(a)
         /\ ~HasLines(a) => KnownLines(a) = {} /\ a.category # "POSTING"
         /\ HasLines(a) /\ a.listed => LinesOf(a) = 1..Len(a.lines) /\ Len(a.lines) \in Nat
         /\ ~a.listed => LinesOf(a) = {}
<1>1. /\ HasLines(a) <=> a.category \in FeeCategories \/ a.category = "POSTING"
      /\ a.category = "POSTING" => a.lines \in Seq(PostingLine)
      /\ a.category \in FeeCategories => a.lines \in Seq(FeeLine)
  BY AccrualIs
<1>2. HasLines(a) => DOMAIN a.lines = 1..Len(a.lines) /\ Len(a.lines) \in Nat
  BY <1>1
<1>3. HasLines(a) /\ a.listed => LinesOf(a) = 1..Len(a.lines) /\ Len(a.lines) \in Nat
  BY <1>2 DEF LinesOf
<1>4. ~a.listed => LinesOf(a) = {}
  BY DEF LinesOf
<1>5. (HasLines(a) => KnownLines(a) = LinesOf(a)) /\ (~HasLines(a) => KnownLines(a) = {} /\ a.category # "POSTING")
  BY <1>1 DEF KnownLines
<1>6. IsFiniteSet(KnownLines(a))
  <2>1. \A n \in Nat : IsFiniteSet(1..n)
    BY FS_Interval
  <2> QED BY <1>3, <1>4, <1>5, <2>1, FS_EmptySet
<1>7. ASSUME NEW s \in Skus, NEW i \in KnownLines(a) PROVE LineOwn(a, i)[s] \in Amount /\ LineUn(a, i)[s] \in Amount
  <2>1. HasLines(a) /\ a.listed /\ i \in 1..Len(a.lines)
    BY <1>3, <1>4, <1>5
  <2> QED BY <2>1, LineReads
<1> QED BY <1>3, <1>4, <1>5, <1>6, <1>7

(* What is known to be a SKU's is the sum of its lines.                       *)
LEMMA OwnIs ==
  ASSUME NEW a \in Accruals, NEW s \in Skus, OwnOf(a)[s] # {}, HasLines(a) \/ OwnLines(a, s) = {}
  PROVE  OwnOf(a)[s] = {SumOfLines(a, OwnLines(a, s))} /\ SumOfLines(a, OwnLines(a, s)) \in Int
<1> DEFINE S == KnownLines(a)
           P == OwnLines(a, s)
           F == [i \in S |-> LineOwn(a, i)[s]]
           g == [i \in P |-> The(LineAmount(a, i))]
<1>1. /\ IsFiniteSet(S) /\ (HasLines(a) => S = LinesOf(a)) /\ (\A i \in S : LineOwn(a, i)[s] \in Amount)
      /\ (~HasLines(a) => S = {})
  BY LinesAreFinite
<1>2. P \in SUBSET S
  <2>1. P \subseteq LinesOf(a)
    BY DEF OwnLines
  <2> QED BY <1>1, <2>1
<1>3. F \in [S -> Amount] /\ OwnOf(a)[s] = Total(F)
  BY <1>1 DEF OwnOf
<1>4. \A i \in S : F[i] = IF i \in P THEN LineAmount(a, i) ELSE {0}
  BY DEF LineOwn
<1>5. ASSUME NEW i \in P, F[i] # {} PROVE F[i] = {g[i]} /\ g[i] \in Int
  <2>1. F[i] \in Amount /\ F[i] = LineAmount(a, i) /\ g[i] = The(LineAmount(a, i))
    BY <1>2, <1>3, <1>4
  <2> DEFINE o == F[i]
  <2>2. o \in Amount /\ o # Unknown /\ g[i] = The(o)
    BY <1>5, <2>1 DEF Unknown
  <2> HIDE DEF o, g
  <2>3. The(o) \in Int /\ o = {The(o)}
    BY <2>2, TheInt
  <2>4. o = {g[i]} /\ g[i] \in Int
    BY <2>2, <2>3
  <2> QED BY <2>4 DEF o
<1>6. SumOfLines(a, P) = Sum(g, P)
  <2>1. DOMAIN g = P
    OBVIOUS
  <2> QED BY <2>1 DEF SumOfLines, SumOf, Sum
<1>7. \A i \in S \ P : F[i] = {0}
  BY <1>4
<1>8. Total(F) # {}
  BY <1>3
<1> HIDE DEF S, P, F, g
<1>9. Total(F) = {Sum(g, P)} /\ Sum(g, P) \in Int
  BY <1>1, <1>2, <1>3, <1>5, <1>7, <1>8, TotalOfPart
<1> QED BY <1>3, <1>6, <1>9 DEF P

(* So are its units.                                                          *)
LEMMA UnIs ==
  ASSUME NEW a \in Accruals, NEW s \in Skus, UnOf(a)[s] # {}
  PROVE  UnOf(a)[s] = {UnitsOf(a, s)} /\ UnitsOf(a, s) \in Int
<1> DEFINE S == KnownLines(a)
           P == {j \in OwnLines(a, s) : a.category = "POSTING" /\ a.lines[j].sells}
           F == [i \in S |-> LineUn(a, i)[s]]
           g == [i \in P |-> (IF The(a.lines[i].sale) > 0 THEN 1 ELSE -1) * The(a.lines[i].quantity)]
<1>1. /\ IsFiniteSet(S) /\ (HasLines(a) => S = LinesOf(a)) /\ (\A i \in S : LineUn(a, i)[s] \in Amount)
      /\ (~HasLines(a) => S = {} /\ a.category # "POSTING")
  BY LinesAreFinite
<1>2. P \in SUBSET S
  <2>1. P \subseteq LinesOf(a)
    BY DEF OwnLines
  <2> QED BY <1>1, <2>1
<1>3. F \in [S -> Amount] /\ UnOf(a)[s] = Total(F)
  BY <1>1 DEF UnOf
<1>4. \A i \in S : F[i] = IF i \in P THEN LineUnit(a.lines[i]) ELSE {0}
  BY DEF LineUn
<1>5. ASSUME NEW i \in P, F[i] # {} PROVE F[i] = {g[i]} /\ g[i] \in Int
  <2> DEFINE line == a.lines[i]
  <2>1. line.sale \in Amount /\ line.quantity \in Amount
    <3>1. HasLines(a) /\ a.category = "POSTING" /\ i \in LinesOf(a)
      BY <1>1 DEF OwnLines
    <3>2. a.listed /\ LinesOf(a) = 1..Len(a.lines)
      BY <3>1, LinesAreFinite
    <3>3. line \in PostingLine
      BY <3>1, <3>2, SalesAreExact
    <3> HIDE DEF line
    <3> QED BY <3>3, LineIsTyped
  <2>2. F[i] = LineUnit(line) /\ g[i] = (IF The(line.sale) > 0 THEN 1 ELSE -1) * The(line.quantity)
    BY <1>2, <1>4
  <2>3. F[i] # {}
    BY <1>5
  <2> HIDE DEF line, F, g
  <2>4. line.sale # Unknown /\ line.quantity # Unknown
    BY <2>2, <2>3 DEF LineUnit, Unknown
  <2> DEFINE x == The(line.sale)
             q == The(line.quantity)
  <2>5. line.sale = {x} /\ line.quantity = {q} /\ x \in Int /\ q \in Int
    BY <2>1, <2>4, TheInt
  <2> HIDE DEF x, q
  <2>6. F[i] = {(IF x > 0 THEN 1 ELSE -1) * q}
    BY <2>2, <2>5 DEF LineUnit
  <2>7. g[i] = (IF x > 0 THEN 1 ELSE -1) * q
    BY <2>2 DEF x, q
  <2> QED BY <2>5, <2>6, <2>7
<1>6. UnitsOf(a, s) = Sum(g, P)
  <2>1. DOMAIN g = P
    OBVIOUS
  <2> QED BY <2>1 DEF UnitsOf, SumOf, Sum
<1>7. \A i \in S \ P : F[i] = {0}
  BY <1>4
<1>8. Total(F) # {}
  BY <1>3
<1> HIDE DEF S, P, F, g
<1>9. Total(F) = {Sum(g, P)} /\ Sum(g, P) \in Int
  BY <1>1, <1>2, <1>3, <1>5, <1>7, <1>8, TotalOfPart
<1> QED BY <1>3, <1>6, <1>9

(* The units of a SKU, when they are known, are those of its lines.           *)
LEMMA UnTotalIs ==
  ASSUME NEW T \in SUBSET Accruals, IsFiniteSet(T), NEW s \in Skus, UnTotal(T)[s] # {}
  PROVE  UnTotal(T)[s] = {SumOf([a \in T |-> UnitsOf(a, s)])} /\ SumOf([a \in T |-> UnitsOf(a, s)]) \in Int
<1> DEFINE h == [a \in Accruals |-> UnOf(a)[s]]
           F == [a \in T |-> h[a]]
           g == [a \in T |-> UnitsOf(a, s)]
<1>1. UnTotal(T)[s] = Total(F)
  BY DEF UnTotal, TotalOf
<1>2. SumOf(g) = Sum(g, T)
  BY DEF SumOf, Sum
<1>3. \A a \in T : F[a] = UnOf(a)[s] /\ g[a] = UnitsOf(a, s)
  OBVIOUS
<1>4. F \in [T -> Amount]
  BY AloneIs
<1>5. \A a \in T : F[a] # {} => F[a] = {g[a]} /\ g[a] \in Int
  BY <1>3, UnIs
<1>6. T \in SUBSET T /\ \A x \in T \ T : F[x] = {0}
  OBVIOUS
<1> HIDE DEF F, g
<1>7. Total(F) = {Sum(g, T)} /\ Sum(g, T) \in Int
  BY <1>1, <1>4, <1>5, <1>6, TotalOfPart
<1> QED BY <1>1, <1>2, <1>7 DEF g

(* So is its money.                                                           *)
LEMMA OwnTotalIs ==
  ASSUME NEW T \in SUBSET Accruals, IsFiniteSet(T), NEW s \in Skus, OwnTotal(T)[s] # {},
         \A a \in T : HasLines(a) \/ OwnLines(a, s) = {}
  PROVE  OwnTotal(T)[s] = {SumOf([a \in T |-> SumOfLines(a, OwnLines(a, s))])}
<1> DEFINE h == [a \in Accruals |-> OwnOf(a)[s]]
           F == [a \in T |-> h[a]]
           g == [a \in T |-> SumOfLines(a, OwnLines(a, s))]
<1>1. OwnTotal(T)[s] = Total(F)
  BY DEF OwnTotal, TotalOf
<1>2. SumOf(g) = Sum(g, T)
  BY DEF SumOf, Sum
<1>3. \A a \in T : F[a] = OwnOf(a)[s] /\ g[a] = SumOfLines(a, OwnLines(a, s))
  OBVIOUS
<1>4. F \in [T -> Amount]
  BY AloneIs
<1>5. \A a \in T : F[a] # {} => F[a] = {g[a]} /\ g[a] \in Int
  BY <1>3, OwnIs
<1>6. T \in SUBSET T /\ \A x \in T \ T : F[x] = {0}
  OBVIOUS
<1> HIDE DEF F, g
<1>7. Total(F) = {Sum(g, T)} /\ Sum(g, T) \in Int
  BY <1>1, <1>4, <1>5, <1>6, TotalOfPart
<1> QED BY <1>1, <1>2, <1>7 DEF g

(* A row without missing details is settled as it is.                         *)
LEMMA SettledIs ==
  ASSUME NEW r \in RowType
  PROVE  /\ Settled(r) \in [Fields -> Amount] /\ (r.gaps = {} => Settled(r) = r.money)
<1>1. r.money \in [Fields -> Amount] /\ {} \in Amount
  BY SmallAmounts DEF RowType
<1>2. Settled(r) = [f \in Fields |-> IF f \in r.gaps \ r.counted THEN {} ELSE r.money[f]]
  BY DEF Settled, Unknown
<1> QED BY <1>1, <1>2

(* The ledger of the accruals that came, and its rows.                        *)
LEMMA LedgerIs ==
  ASSUME NEW n, NEW T, Holds(n, T)
  PROVE  /\ n \in LedgerType /\ n.day \in RowType /\ (\A s \in Skus : n.sku[s] \in RowType)
         /\ T \in SUBSET Accruals /\ IsFiniteSet(T) /\ n.net \in Int
         /\ Firm(n, FALSE) /\ Says(n, OwnTotal(T), UnTotal(T))
         /\ n.mismatch = {0} => AddsUp(n, FALSE, {n.net})
         /\ FiguresAre(n, T) /\ Named(n) \subseteq Skus /\ IsFiniteSet(Skus) /\ IsFiniteSet(Named(n))
<1>1. n \in LedgerType /\ T \in SUBSET Accruals /\ IsFiniteSet(T) /\ FiguresAre(n, T)
  BY DEF Holds
<1>2. Firm(n, FALSE) /\ AddsUp(n, FALSE, Paid(n)) /\ Says(n, OwnTotal(T), UnTotal(T))
  BY DEF Holds, Tells
<1>3. n.mismatch = {0} => AddsUp(n, FALSE, {n.net})
  BY <1>2 DEF Paid
<1>4. n.day \in RowType /\ (\A s \in Skus : n.sku[s] \in RowType) /\ n.net \in Int
  BY <1>1 DEF LedgerType
<1>5. Named(n) \subseteq Skus
  BY DEF Named
<1>6. IsFiniteSet(Skus) /\ IsFiniteSet(Named(n))
  BY <1>5, AccrualAssumption, FS_Subset
<1> QED BY <1>1, <1>2, <1>3, <1>4, <1>5, <1>6

(* Two mistakes never cancel.                                                 *)
LEMMA NothingCancels ==
  ASSUME Holds(ledger, taken)
  PROVE  MismatchesDoNotCancel
BY DEF Holds, FiguresAre, MismatchesDoNotCancel, Unknown

(* What the types say, beyond the bound.                                      *)
LEMMA TypesHold ==
  ASSUME Holds(ledger, taken), Cardinality(taken) <= MaxAccruals
  PROVE  OzonTypeOK
<1>1. /\ ledger.day \in RowType /\ (\A s \in Skus : ledger.sku[s] \in RowType) /\ taken \in SUBSET Accruals /\ IsFiniteSet(taken)
      /\ FiguresAre(ledger, taken)
  BY LedgerIs
<1>2. \A o \in Amount : IsAmount(o)
  BY DEF Amount
<1>3. \A f \in Fields : IsAmount(ledger.day.money[f]) /\ \A s \in Skus : IsAmount(ledger.sku[s].money[f])
  BY <1>1, <1>2 DEF RowType
<1> DEFINE g == [a \in taken |-> a.total]
<1>4. SumOf(g) = Sum(g, taken) /\ \A a \in taken : g[a] = Totals[a]
  BY <1>1 DEF SumOf, Sum, Totals
<1>5. ledger.net = Sum(Totals, taken)
  BY <1>1 DEF FiguresAre
<1> HIDE DEF g
<1>6. Sum(g, taken) = Sum(Totals, taken)
  BY <1>1, <1>4, SumsAreEqual
<1>7. ledger.net = SumOf(g)
  BY <1>4, <1>5, <1>6
<1> QED BY <1>1, <1>3, <1>7 DEF OzonTypeOK, g

(* A SKU that claims a profit: what it rests on.                              *)
LEMMA ClaimRests ==
  ASSUME NEW n, NEW T, Holds(n, T), NEW s \in Skus, SkuComplete(n, s)
  PROVE  /\ n.allocated /\ n.sku[s].classified /\ n.sku[s].from \subseteq n.reconciled
         /\ ~n.unknownSku /\ "cogs" \notin n.day.uncertain /\ n.sku[s].uncertain = {}
         /\ SkuRow(n, s).net = Balance(Settled(n.sku[s])) /\ SkuRow(n, s).net # {}
         /\ SkuRow(n, s).units = NetUnits(n.sku[s]) /\ NetUnits(n.sku[s]) # {}
<1> DEFINE A == SkuRow(n, s)
           r == n.sku[s]
           u == r.uncertain \cup n.day.uncertain
           S == Settled(r)
           x == NetUnits(r)
<1>1. /\ A.units = (IF n.unknownSku THEN {} ELSE x)
      /\ A.cogs = (IF n.unknownSku \/ "cogs" \in u THEN {} ELSE Cogs(n, s))
      /\ A.net = (IF r.classified /\ n.allocated /\ r.from # {} /\ r.from \subseteq n.reconciled /\ u = {}
                      THEN Balance(S) ELSE {})
  <2>1. Settled(n.sku[s]) = S /\ NetUnits(n.sku[s]) = x /\ n.sku[s].uncertain \cup n.day.uncertain = u /\ n.sku[s] = r
    OBVIOUS
  <2> HIDE DEF S, x, u, r
  <2>2. A.units = (IF n.unknownSku THEN {} ELSE x)
    BY <2>1 DEF SkuRow, Unknown
  <2>3. A.cogs = (IF n.unknownSku \/ "cogs" \in u THEN {} ELSE Cogs(n, s))
    BY <2>1 DEF SkuRow, Unknown
  <2>4. A.net = (IF r.classified /\ n.allocated /\ r.from # {} /\ r.from \subseteq n.reconciled /\ u = {}
                 THEN Balance(S) ELSE {})
    BY <2>1, SkuRowIs
  <2> QED BY <2>2, <2>3, <2>4
<1>2. A.net # {} /\ A.cogs # {}
  BY DEF SkuComplete, Unknown
<1>3. Cogs(n, s) = IF x = {0} THEN {0} ELSE {q * c : q \in x, c \in SkuCosts[s]}
  BY DEF Cogs
<1> HIDE DEF A, x, S
<1>4. r.classified /\ n.allocated /\ r.from \subseteq n.reconciled /\ u = {} /\ A.net = Balance(S)
  BY <1>1, <1>2
<1>5. ~n.unknownSku /\ Cogs(n, s) # {} /\ A.units = x
  BY <1>1, <1>2
<1>6. x # {}
  BY <1>3, <1>5
<1> QED BY <1>2, <1>4, <1>5, <1>6 DEF A, x, S

(* A SKU owes its profit to its own lines alone.                              *)
LEMMA ClaimsAreOwn ==
  ASSUME Holds(ledger, taken)
  PROVE  SkuProfitIsItsOwn
<1> DEFINE n == ledger
           T == taken
<1> SUFFICES ASSUME NEW s \in Named(ledger), SkuComplete(ledger, s)
             PROVE  /\ \A a \in taken : (\E i \in LinesOf(a) : a.lines[i].sku = s /\ ~SaysNothing(a, i)) => Reconciled(a)
                    /\ SkuRow(ledger, s).net = {SumOf([a \in taken |-> SumOfLines(a, OwnLines(a, s))])}
                    /\ SkuRow(ledger, s).units = {SumOf([a \in taken |-> UnitsOf(a, s)])}
  BY DEF SkuProfitIsItsOwn
<1>1. /\ n \in LedgerType /\ n.day \in RowType /\ (\A t \in Skus : n.sku[t] \in RowType)
      /\ T \in SUBSET Accruals /\ IsFiniteSet(T) /\ Says(n, OwnTotal(T), UnTotal(T))
      /\ FiguresAre(n, T) /\ Named(n) \subseteq Skus
  BY LedgerIs
<1>2. s \in Skus
  BY <1>1
<1>3. /\ n.allocated /\ n.sku[s].classified /\ n.sku[s].from \subseteq n.reconciled
      /\ ~n.unknownSku /\ "cogs" \notin n.day.uncertain /\ n.sku[s].uncertain = {}
      /\ SkuRow(n, s).net = Balance(Settled(n.sku[s])) /\ SkuRow(n, s).net # {}
      /\ SkuRow(n, s).units = NetUnits(n.sku[s]) /\ NetUnits(n.sku[s]) # {}
  BY <1>2, ClaimRests
<1>4. RowsAre(n, T) /\ MarksAre(n, T)
  BY DEF Holds
<1>5. ASSUME NEW a \in T, NEW i \in LinesOf(a), a.lines[i].sku = s, ~SaysNothing(a, i) PROVE Reconciled(a)
  <2>1. a \in Accruals /\ Alone(a).allocated
    BY <1>1, <1>3, <1>4 DEF MarksAre
  <2>2. a.id \in Alone(a).sku[s].from \/ Reconciled(a)
    BY <1>2, <1>5, <2>1, AloneNames
  <2>3. n.sku[s].from = UNION {SkuRows(s)[b].from : b \in T}
    BY <1>2, <1>4 DEF RowsAre, MoneyIs
  <2>4. SkuRows(s)[a].from = Alone(a).sku[s].from
    BY <1>2, <2>1, AloneTyped
  <2>5. a.id \in n.reconciled \/ Reconciled(a)
    BY <1>3, <2>2, <2>3, <2>4
  <2>6. n.reconciled = {c.id : c \in {b \in T : Reconciled(b)}}
    BY <1>1 DEF FiguresAre
  <2>7. \A b \in T : b.id = a.id => b = a
    BY <1>1, AccrualAssumption
  <2> QED BY <2>5, <2>6, <2>7
<1>6. \A a \in T : HasLines(a) \/ OwnLines(a, s) = {}
  <2> SUFFICES ASSUME NEW a \in T, ~HasLines(a), NEW i \in OwnLines(a, s) PROVE FALSE
    OBVIOUS
  <2>1. i \in LinesOf(a) /\ a.lines[i].sku = s
    BY DEF OwnLines
  <2>2. ~SaysNothing(a, i)
    BY DEF SaysNothing, HasLines
  <2>3. Reconciled(a)
    BY <1>5, <2>1, <2>2
  <2> QED BY <2>3 DEF Reconciled, Legible, HasLines
<1>7. Settled(n.sku[s]) = n.sku[s].money /\ Balance(n.sku[s].money) = OwnTotal(T)[s]
  <2>1. n.sku[s].gaps = {} /\ Balance(n.sku[s].money) = OwnTotal(T)[s] /\ n.sku[s] \in RowType
    BY <1>1, <1>2, <1>3 DEF Says
  <2> QED BY <2>1, SettledIs
<1>8. NetUnits(n.sku[s]) = UnTotal(T)[s]
  BY <1>1, <1>2, <1>3 DEF Says, Lost
<1>9. SkuRow(n, s).net = {SumOf([a \in T |-> SumOfLines(a, OwnLines(a, s))])}
  BY <1>1, <1>2, <1>3, <1>6, <1>7, OwnTotalIs
<1>10. SkuRow(n, s).units = {SumOf([a \in T |-> UnitsOf(a, s)])}
  BY <1>1, <1>2, <1>3, <1>8, UnTotalIs
<1> QED BY <1>5, <1>9, <1>10

\* The cost of some units of a SKU.
CostOf(u, s) == u * (IF SkuCosts[s] = Unknown THEN 0 ELSE The(SkuCosts[s]))

(* The cost of goods of a SKU whose units and cost are known.                 *)
LEMMA CogsIs ==
  ASSUME NEW n, NEW s \in Skus, NEW u \in Int, NetUnits(n.sku[s]) = {u}
  PROVE  /\ CostOf(u, s) \in Int /\ (u = 0 => CostOf(u, s) = 0)
         /\ Cogs(n, s) # {} => Cogs(n, s) = {CostOf(u, s)}
<1> DEFINE o == SkuCosts[s]
           x == NetUnits(n.sku[s])
<1>1. o \in Amount
  BY AccrualAssumption DEF IsAmount, Amount
<1>2. Cogs(n, s) = IF x = {0} THEN {0} ELSE {q * c : q \in x, c \in o}
  BY DEF Cogs
<1>3. x = {u} /\ (x = {0} <=> u = 0)
  OBVIOUS
<1>4. CostOf(u, s) = u * (IF o = Unknown THEN 0 ELSE The(o))
  BY DEF CostOf
<1> HIDE DEF o, x
<1>5. CASE o = Unknown
  <2>1. CostOf(u, s) = 0
    BY <1>4, <1>5
  <2>2. u # 0 => Cogs(n, s) = {}
    BY <1>2, <1>3, <1>5 DEF Unknown
  <2>3. u = 0 => Cogs(n, s) = {0}
    BY <1>2, <1>3
  <2> QED BY <2>1, <2>2, <2>3
<1>6. CASE o # Unknown
  <2> DEFINE c == The(o)
  <2>1. c \in Int /\ o = {c}
    BY <1>1, <1>6, TheInt
  <2>2. CostOf(u, s) = u * c
    BY <1>4, <1>6
  <2> HIDE DEF c
  <2>3. u = 0 => u * c = 0
    BY <2>1
  <2>4. u * c \in Int
    BY <2>1
  <2>5. u # 0 => Cogs(n, s) = {u * c}
    BY <1>2, <1>3, <2>1
  <2>6. u = 0 => Cogs(n, s) = {0}
    BY <1>2, <1>3
  <2> QED BY <2>2, <2>3, <2>4, <2>5, <2>6
<1> QED BY <1>5, <1>6

(* What a day of which everything is known tells of its SKUs.                 *)
LEMMA CompleteDay ==
  ASSUME NEW n, NEW T, Holds(n, T), DayComplete(n)
  PROVE  /\ ~Lost(n) /\ n.mismatch = {0} /\ n.day.unitsKnown /\ n.skuUnitsKnown /\ DayCogs(n) # {}
         /\ \A s \in Skus : /\ NetUnits(n.sku[s]) = {SumOf([a \in T |-> UnitsOf(a, s)])}
                            /\ SumOf([a \in T |-> UnitsOf(a, s)]) \in Int
                            /\ s \notin Named(n) => SumOf([a \in T |-> UnitsOf(a, s)]) = 0
                            /\ ~n.sale => SumOf([a \in T |-> UnitsOf(a, s)]) = 0
<1>1. /\ (\A s \in Skus : n.sku[s] \in RowType) /\ T \in SUBSET Accruals /\ IsFiniteSet(T) /\ n.net \in Int
      /\ Firm(n, FALSE) /\ Says(n, OwnTotal(T), UnTotal(T)) /\ (n.mismatch = {0} => AddsUp(n, FALSE, {n.net}))
  BY LedgerIs
<1>2. n.day.classified /\ n.mismatch = {0} /\ n.day.unitsKnown /\ n.skuUnitsKnown /\ DayCogs(n) # {}
  BY DEF DayComplete, Unknown
<1>3. n.day.uncertain = {}
  BY <1>1, <1>2 DEF AddsUp
<1>4. ~Lost(n)
  BY <1>2 DEF Lost
<1>5. ASSUME NEW s \in Skus
      PROVE  /\ NetUnits(n.sku[s]) = {SumOf([a \in T |-> UnitsOf(a, s)])}
             /\ SumOf([a \in T |-> UnitsOf(a, s)]) \in Int
             /\ s \notin Named(n) => SumOf([a \in T |-> UnitsOf(a, s)]) = 0
             /\ ~n.sale => SumOf([a \in T |-> UnitsOf(a, s)]) = 0
  <2> DEFINE r == n.sku[s]
             x == NetUnits(r)
             u == SumOf([a \in T |-> UnitsOf(a, s)])
  <2>1. x = UnTotal(T)[s]
    BY <1>1, <1>3, <1>4 DEF Says
  <2>2. r \in RowType /\ r.sold # {} /\ r.returned # {} /\ (s \notin Named(n) => r.sold = {0} /\ r.returned = {0})
        /\ (~n.sale => r.sold = {0} /\ r.returned = {0})
    BY <1>1, <1>2, <1>4 DEF Firm, Named
  <2>3. x # {} /\ (r.sold = {0} /\ r.returned = {0} => x = {0})
    <3> HIDE DEF r
    <3> QED BY <2>2, NetUnitsIs
  <2>4. UnTotal(T)[s] # {}
    BY <2>1, <2>3
  <2>5. x = {u} /\ u \in Int
    BY <1>1, <2>1, <2>4, UnTotalIs
  <2>6. x = {0} => u = 0
    BY <2>5
  <2> QED BY <2>2, <2>3, <2>5, <2>6
<1> QED BY <1>2, <1>4, <1>5

(* Where the day claims a profit, it is what Ozon paid less the cost of the   *)
(* units that stayed sold.                                                    *)
LEMMA DayIsCertain ==
  ASSUME Holds(ledger, taken)
  PROVE  DayProfitIsCertain
<1> DEFINE n == ledger
           T == taken
           u == [s \in Skus |-> SumOf([a \in T |-> UnitsOf(a, s)])]
           g == [s \in Skus |-> u[s] * (IF SkuCosts[s] = Unknown THEN 0 ELSE The(SkuCosts[s]))]
<1>1. /\ n.day \in RowType /\ (n.mismatch = {0} => AddsUp(n, FALSE, {n.net})) /\ n.net \in Int
      /\ Named(n) \subseteq Skus /\ IsFiniteSet(Skus) /\ IsFiniteSet(Named(n))
  BY LedgerIs
<1>2. n.day.classified /\ n.mismatch = {0} => Balance(Settled(n.day)) = {n.net}
  <2> SUFFICES ASSUME n.day.classified, n.mismatch = {0} PROVE Balance(Settled(n.day)) = {n.net}
    OBVIOUS
  <2>1. n.day.gaps = {} /\ Balance(n.day.money) = {n.net}
    BY <1>1 DEF AddsUp
  <2>2. Settled(n.day) = n.day.money
    BY <1>1, <2>1, SettledIs
  <2> QED BY <2>1, <2>2
<1>3. ASSUME DayComplete(n) PROVE DayCogs(n) = {SumOf(g)}
  <2>1. /\ ~Lost(n) /\ n.mismatch = {0} /\ n.day.unitsKnown /\ n.skuUnitsKnown /\ DayCogs(n) # {}
        /\ \A s \in Skus : /\ NetUnits(n.sku[s]) = {u[s]} /\ u[s] \in Int
                           /\ s \notin Named(n) => u[s] = 0
                           /\ ~n.sale => u[s] = 0
    BY <1>3, CompleteDay
  <2>2. \A s \in Skus : g[s] = CostOf(u[s], s)
    BY DEF CostOf
  <2>3. SumOf(g) = Sum(g, Skus)
    BY DEF SumOf, Sum
  <2> HIDE DEF u, g, n
  <2>4. ASSUME NEW s \in Skus
        PROVE  g[s] \in Int /\ (u[s] = 0 => g[s] = 0) /\ (Cogs(n, s) # {} => Cogs(n, s) = {g[s]})
    <3> DEFINE w == u[s]
    <3>1. w \in Int /\ NetUnits(n.sku[s]) = {w} /\ g[s] = CostOf(w, s)
      BY <2>1, <2>2
    <3> HIDE DEF w
    <3>2. /\ CostOf(w, s) \in Int /\ (w = 0 => CostOf(w, s) = 0)
          /\ Cogs(n, s) # {} => Cogs(n, s) = {CostOf(w, s)}
      BY <3>1, CogsIs
    <3> QED BY <3>1, <3>2 DEF w
  <2>5. DayCogs(n) = IF ~n.sale /\ n.day.unitsKnown /\ n.day.returned = {0} THEN {0}
                     ELSE IF n.day.unitsKnown /\ n.skuUnitsKnown /\ LackingCost(n) = {}
                       THEN {SumOf([s \in Named(n) |-> The(Cogs(n, s))])} ELSE {}
    BY DEF DayCogs, Unknown
  <2>6. CASE ~n.sale /\ n.day.unitsKnown /\ n.day.returned = {0}
    <3>1. \A s \in Skus : g[s] = 0
      BY <2>1, <2>4, <2>6
    <3>2. Sum(g, Skus) = 0 * Cardinality(Skus)
      BY <1>1, <3>1, SumOfEquals
    <3>3. Cardinality(Skus) \in Nat
      BY <1>1, FS_CardinalityType
    <3>4. Sum(g, Skus) = 0
      BY <3>2, <3>3
    <3> QED BY <2>3, <2>5, <2>6, <3>4
  <2>7. CASE ~(~n.sale /\ n.day.unitsKnown /\ n.day.returned = {0})
    <3> DEFINE N == Named(n)
               h == [s \in N |-> The(Cogs(n, s))]
    <3>1. LackingCost(n) = {} /\ DayCogs(n) = {SumOf(h)}
      BY <2>1, <2>5, <2>7
    <3>2. \A s \in N : Cogs(n, s) # {}
      BY <1>1, <2>1, <3>1 DEF LackingCost, Unknown
    <3>3. \A s \in N : g[s] \in Int /\ h[s] = g[s]
      <4>1. \A s \in N : Cogs(n, s) = {g[s]} /\ g[s] \in Int
        BY <1>1, <2>4, <3>2
      <4> QED BY <4>1, TheIs
    <3>4. \A s \in Skus \ N : g[s] = 0
      BY <2>1, <2>4
    <3>5. SumOf(h) = Sum(h, N)
      BY DEF SumOf, Sum
    <3>6. N \in SUBSET Skus
      BY <1>1 DEF n
    <3> HIDE DEF N, h
    <3>7. Sum(g, Skus) = Sum(h, N)
      BY <1>1, <3>3, <3>4, <3>6, SumOfPart
    <3> QED BY <2>3, <3>1, <3>5, <3>7
  <2> QED BY <2>6, <2>7
<1>4. g = [s \in Skus |-> SumOf([a \in taken |-> UnitsOf(a, s)]) * (IF SkuCosts[s] = Unknown THEN 0 ELSE The(SkuCosts[s]))]
  OBVIOUS
<1> HIDE DEF g
<1> QED BY <1>2, <1>3, <1>4 DEF DayProfitIsCertain

--------------------------------------------------------------------------------
(* The margins that are shown.                                                *)

(* The tax of an exact revenue leaves no rest.                                *)
LEMMA TaxIs ==
  ASSUME NEW r \in Int, Exact({r})
  PROVE  \E t \in Int : _derive_ozon_tax({r}) = {t} /\ 100 * t = OzonTaxRate * r
<1> DEFINE y == r * OzonTaxRate
<1>1. OzonTaxRate \in Int
  BY AccrualAssumption
<1>2. y \in Int /\ y = OzonTaxRate * r
  BY <1>1
<1>3. y % 100 = 0
  BY DEF Exact
<1>4. _derive_ozon_tax({r}) = {y \div 100}
  BY DEF _derive_ozon_tax
<1> HIDE DEF y
<1>5. y \div 100 \in Int /\ 100 * (y \div 100) = y
  BY <1>2, <1>3
<1> QED BY <1>2, <1>4, <1>5

\* A SKU of which all is known: what it balances to, its revenue, cost and tax.
SkuKnown(n, s, b, r, c, t) ==
  /\ Balance(n.sku[s].money) = {b} /\ n.sku[s].money["revenue"] = {r} /\ ShownCogs(n, s) = {c}
  /\ SkuRow(n, s).money["revenue"] = {r} /\ 100 * t = OzonTaxRate * r /\ SkuMargin(n, s) = {b - c - t}

(* A cost that is shown is one number.                                        *)
LEMMA ShownCogsIs ==
  ASSUME NEW n, NEW T, Holds(n, T), NEW s \in Skus
  PROVE  ShownCogs(n, s) \in Amount
<1> DEFINE x == NetUnits(n.sku[s])
<1>1. x \in Amount /\ {} \in Amount
  BY LedgerIs, NetUnitsIs, SmallAmounts
<1>2. Cogs(n, s) \in Amount
  <2>1. Cogs(n, s) = IF x = {0} THEN {0} ELSE {q * c : q \in x, c \in SkuCosts[s]}
    BY DEF Cogs
  <2>2. CASE x = {}
    <3>1. Cogs(n, s) = {}
      BY <2>1, <2>2
    <3> QED BY <1>1, <3>1
  <2>3. CASE x # {}
    <3>1. PICK u \in Int : x = {u}
      BY <1>1, <2>3, AmountIs
    <3>2. CostOf(u, s) \in Int /\ (Cogs(n, s) # {} => Cogs(n, s) = {CostOf(u, s)})
      BY <3>1, CogsIs
    <3> QED BY <1>1, <3>2, AmountIs
  <2> QED BY <2>2, <2>3
<1> DEFINE c == SkuRow(n, s).cogs
<1>3. c = {} \/ c = Cogs(n, s)
  BY DEF SkuRow, Unknown
<1>4. ShownCogs(n, s) = {} \/ ShownCogs(n, s) = c
  BY DEF ShownCogs, Unknown
<1> HIDE DEF c
<1> QED BY <1>1, <1>2, <1>3, <1>4

(* A SKU whose margin is shown.                                               *)
LEMMA MarginShown ==
  ASSUME NEW n, NEW T, Holds(n, T), n.mismatch = {0}, NEW s \in Skus, SkuMargin(n, s) # {}
  PROVE  \E b, r, c, t \in Int : SkuKnown(n, s, b, r, c, t)
<1> DEFINE w == n.sku[s]
           u == w.uncertain \cup n.day.uncertain
           K == w.money
           M == SkuRow(n, s).money
           C == ShownCogs(n, s)
           R == M["revenue"]
<1>1. w \in RowType /\ w.gaps = {} /\ K \in [Fields -> Amount] /\ Exact(K["revenue"])
  <2>1. w \in RowType /\ Firm(n, FALSE) /\ AddsUp(n, FALSE, {n.net})
    BY LedgerIs
  <2>2. w.gaps = {} /\ Exact(K["revenue"])
    BY <2>1 DEF AddsUp, Firm
  <2> QED BY <2>1, <2>2 DEF RowType
<1>2. M = [f \in Fields |-> IF f \in u THEN {} ELSE K[f]]
  <2>1. Settled(w) = K
    BY <1>1, SettledIs
  <2> QED BY <2>1, SkuRowIs
<1>3. SkuMargin(n, s) = {b - c - t : b \in Balance(M), c \in C, t \in _derive_ozon_tax(R)}
  BY DEF SkuMargin
<1>4. C \in Amount
  BY ShownCogsIs
<1>5. "revenue" \in Fields /\ {} \in Amount
  BY SmallAmounts DEF Fields
<1> HIDE DEF u, M, C, K, w
<1>6. Balance(M) # {} /\ C # {}
  BY <1>3
<1>7. M = K
  <2>1. M \in [Fields -> Amount]
    BY <1>1, <1>2, <1>5
  <2>2. \A f \in Fields : M[f] # {}
    BY <1>6, <2>1, BalanceIs
  <2> QED BY <1>1, <1>2, <2>1, <2>2
<1>8. PICK b \in Int : Balance(K) = {b}
  BY <1>1, <1>6, <1>7, BalanceIs, AmountIs
<1>9. PICK c \in Int : C = {c}
  BY <1>4, <1>6, AmountIs
<1>10. PICK r \in Int : R = {r}
  <2>1. K["revenue"] \in Amount /\ K["revenue"] # {}
    BY <1>1, <1>5, <1>6, <1>7, BalanceIs
  <2> QED BY <1>7, <2>1, AmountIs
<1>11. PICK t \in Int : _derive_ozon_tax({r}) = {t} /\ 100 * t = OzonTaxRate * r
  <2>1. Exact({r})
    BY <1>1, <1>7, <1>10
  <2> QED BY <2>1, TaxIs
<1>12. SkuMargin(n, s) = {b - c - t}
  BY <1>3, <1>7, <1>8, <1>9, <1>10, <1>11
<1>13. SkuKnown(n, s, b, r, c, t)
  <2>1. /\ Balance(n.sku[s].money) = {b} /\ n.sku[s].money["revenue"] = {r}
        /\ ShownCogs(n, s) = {c} /\ SkuRow(n, s).money["revenue"] = {r}
    BY <1>7, <1>8, <1>9, <1>10 DEF C, M, K, w, R
  <2> QED BY <2>1, <1>11, <1>12 DEF SkuKnown
<1> QED BY <1>8, <1>9, <1>10, <1>11, <1>13

\* What a day comes to whose SKUs show all of their margins: their balances, revenue, costs and taxes.
SkusKnown(n, B, R, C, X) ==
  /\ \A s \in Named(n) : /\ B[s] \in Int /\ R[s] \in Int /\ C[s] \in Int /\ X[s] \in Int
                         /\ SkuKnown(n, s, B[s], R[s], C[s], X[s])
  /\ Kept(n) = {Sum(B, Named(n)) + n.day.unallocated} /\ SkuRevenue(n) = {Sum(R, Named(n))}

(* Known amounts have a known total.                                          *)
LEMMA TotalIsKnown ==
  ASSUME NEW S, IsFiniteSet(S), NEW f \in [S -> Amount], \A x \in S : f[x] # {}
  PROVE  Total(f) # {}
BY TotalIs

(* SKUs no accrual names keep nothing.                                        *)
LEMMA SkusShown ==
  ASSUME NEW n, NEW T, Holds(n, T), n.mismatch = {0}, \A s \in Named(n) : SkuMargin(n, s) # {}
  PROVE  \E B, R, C, X : SkusKnown(n, B, R, C, X)
<1> DEFINE N == Named(n)
           B == [s \in Skus |-> The(Balance(n.sku[s].money))]
           R == [s \in Skus |-> The(n.sku[s].money["revenue"])]
           C == [s \in Skus |-> The(ShownCogs(n, s))]
           X == [s \in Skus |-> B[s] - C[s] - The(SkuMargin(n, s))]
           F == [s \in Skus |-> Balance(n.sku[s].money)]
           G == [s \in Skus |-> n.sku[s].money["revenue"]]
<1>1. /\ (\A s \in Skus : n.sku[s] \in RowType) /\ Firm(n, FALSE) /\ IsFiniteSet(Skus)
      /\ N \in SUBSET Skus /\ n.day.unallocated \in Int
  BY LedgerIs DEF RowType
<1>2. ASSUME NEW s \in N
      PROVE  /\ B[s] \in Int /\ R[s] \in Int /\ C[s] \in Int /\ X[s] \in Int
             /\ SkuKnown(n, s, B[s], R[s], C[s], X[s])
  <2>1. s \in Skus /\ SkuMargin(n, s) # {}
    BY <1>1
  <2>2. PICK b, r, c, t \in Int : SkuKnown(n, s, b, r, c, t)
    BY <2>1, MarginShown
  <2>3. /\ Balance(n.sku[s].money) = {b} /\ n.sku[s].money["revenue"] = {r} /\ ShownCogs(n, s) = {c}
        /\ SkuMargin(n, s) = {b - c - t}
    BY <2>2 DEF SkuKnown
  <2>4. B[s] = b /\ R[s] = r /\ C[s] = c /\ The(SkuMargin(n, s)) = b - c - t
    BY <2>1, <2>3, TheIs
  <2>5. X[s] = b - c - (b - c - t)
    BY <2>1, <2>4
  <2> HIDE DEF B, R, C, X
  <2>6. X[s] = t
    BY <2>5
  <2> QED BY <2>2, <2>4, <2>6
<1>3. Kept(n) = Both(Total(F), {n.day.unallocated}) /\ SkuRevenue(n) = Total(G)
  BY DEF Kept, SkuRevenue
<1>4. \A s \in Skus : n.sku[s].money \in [Fields -> Amount] /\ "revenue" \in Fields
  BY <1>1 DEF RowType, Fields
<1>5. F \in [Skus -> Amount] /\ G \in [Skus -> Amount]
  BY <1>4, BalanceIs
<1>6. \A s \in Skus \ N : F[s] = {0} /\ G[s] = {0}
  <2> SUFFICES ASSUME NEW s \in Skus \ N PROVE F[s] = {0} /\ G[s] = {0}
    OBVIOUS
  <2>1. n.sku[s].from = {}
    BY DEF Named
  <2>2. \A f \in Fields : n.sku[s].money[f] = {0}
    BY <1>1, <2>1 DEF Firm
  <2> QED BY <1>4, <2>2, BalanceIs
<1>7. \A s \in N : F[s] = {B[s]} /\ G[s] = {R[s]} /\ B[s] \in Int /\ R[s] \in Int
  <2> SUFFICES ASSUME NEW s \in N PROVE F[s] = {B[s]} /\ G[s] = {R[s]} /\ B[s] \in Int /\ R[s] \in Int
    OBVIOUS
  <2>1. s \in Skus /\ SkuKnown(n, s, B[s], R[s], C[s], X[s]) /\ B[s] \in Int /\ R[s] \in Int
    BY <1>1, <1>2
  <2>2. F[s] = Balance(n.sku[s].money) /\ G[s] = n.sku[s].money["revenue"]
    BY <2>1
  <2> HIDE DEF F, G, B, R, C, X
  <2> QED BY <2>1, <2>2 DEF SkuKnown
<1> HIDE DEF F, G, B, R, C, X, N
<1>8. Total(F) # {} /\ Total(G) # {}
  <2>1. \A s \in Skus : F[s] # {} /\ G[s] # {}
    BY <1>6, <1>7
  <2>2. Total(F) # {}
    <3>1. F \in [Skus -> Amount] /\ \A s \in Skus : F[s] # {}
      BY <1>5, <2>1
    <3> QED BY <1>1, <3>1, TotalIsKnown
  <2>3. Total(G) # {}
    <3>1. G \in [Skus -> Amount] /\ \A s \in Skus : G[s] # {}
      BY <1>5, <2>1
    <3> QED BY <1>1, <3>1, TotalIsKnown
  <2> QED BY <2>2, <2>3
<1>9. Total(F) = {Sum(B, N)} /\ Sum(B, N) \in Int
  BY <1>1, <1>5, <1>6, <1>7, <1>8, TotalOfPart
<1>10. Total(G) = {Sum(R, N)} /\ Sum(R, N) \in Int
  BY <1>1, <1>5, <1>6, <1>7, <1>8, TotalOfPart
<1>11. Kept(n) = {Sum(B, N) + n.day.unallocated}
  BY <1>1, <1>3, <1>9, BothIs
<1>12. SkusKnown(n, B, R, C, X)
  BY <1>2, <1>3, <1>10, <1>11 DEF SkusKnown, N
<1> QED BY <1>12

(* The revenue, the cost and the tax of such a day are those of its SKUs.     *)
LEMMA DayShown ==
  ASSUME NEW n, NEW T, Holds(n, T), n.mismatch = {0}, DayMargin(n) # {},
         NEW B, NEW R, NEW C, NEW X, SkusKnown(n, B, R, C, X)
  PROVE  /\ Settled(n.day)["revenue"] = {Sum(R, Named(n))} /\ ShownDayCogs(n) = {Sum(C, Named(n))}
         /\ n.day.money["revenue"] = {Sum(R, Named(n))}
         /\ n.net = Sum(B, Named(n)) + n.day.unallocated
<1> DEFINE N == Named(n)
           V == Settled(n.day)["revenue"]
<1>1. /\ AddsUp(n, FALSE, {n.net}) /\ n.day \in RowType /\ IsFiniteSet(N) /\ n.net \in Int
  BY LedgerIs
<1>2. /\ \A s \in N : /\ B[s] \in Int /\ R[s] \in Int /\ C[s] \in Int /\ X[s] \in Int
                      /\ SkuKnown(n, s, B[s], R[s], C[s], X[s])
      /\ Kept(n) = {Sum(B, N) + n.day.unallocated} /\ SkuRevenue(n) = {Sum(R, N)}
  BY DEF SkusKnown
<1>3. n.net = Sum(B, N) + n.day.unallocated
  BY <1>1, <1>2 DEF AddsUp
<1>4. V = n.day.money["revenue"]
  <2>1. n.day.gaps = {}
    BY <1>1 DEF AddsUp
  <2> QED BY <1>1, <2>1, SettledIs
<1>5. V # {} /\ ShownDayCogs(n) # {}
  BY DEF DayMargin, _derive_ozon_tax
<1>6. ShownDayCogs(n) = IF N # {} THEN KnownCost(n) ELSE IF V = {0} THEN {0} ELSE {}
  BY <1>5 DEF ShownDayCogs, Unknown
<1>7. CASE N = {}
  <2>1. V = {0} /\ ShownDayCogs(n) = {0}
    BY <1>5, <1>6, <1>7
  <2>2. Sum(R, N) = 0 /\ Sum(C, N) = 0
    BY <1>7, SumOfNone
  <2> QED BY <1>3, <1>4, <2>1, <2>2
<1>8. CASE N # {}
  <2>1. \A s \in N : ShownCogs(n, s) = {C[s]} /\ C[s] \in Int
    BY <1>2 DEF SkuKnown
  <2>2. ~n.unknownSku
    <3>1. PICK s \in N : TRUE
      BY <1>8
    <3>2. ShownCogs(n, s) # {}
      BY <2>1, <3>1
    <3>3. SkuRow(n, s).cogs # {}
      BY <3>2 DEF ShownCogs, Unknown
    <3> QED BY <3>3 DEF SkuRow, Unknown
  <2>3. V = {Sum(R, N)}
    BY <1>1, <1>2, <1>4, <2>2 DEF AddsUp
  <2>4. KnownCost(n) = {Sum(C, N)}
    <3> DEFINE P == {t \in N : ShownCogs(n, t) # Unknown}
               g == [s \in P |-> The(ShownCogs(n, s))]
    <3>1. KnownCost(n) = {SumOf(g)}
      BY <2>1 DEF KnownCost, Unknown
    <3>2. P = N
      BY <2>1 DEF Unknown
    <3>3. \A s \in N : g[s] = C[s]
      BY <2>1, <3>2, TheIs
    <3>4. SumOf(g) = Sum(g, P)
      BY DEF SumOf, Sum
    <3> HIDE DEF g, P
    <3>5. Sum(g, N) = Sum(C, N)
      BY <1>1, <3>3, SumsAreEqual
    <3> QED BY <3>1, <3>2, <3>4, <3>5
  <2> QED BY <1>3, <1>4, <1>6, <1>8, <2>3, <2>4
<1> QED BY <1>7, <1>8

(* The margin of the day is what those of its SKUs come to, and the rest.     *)
LEMMA MarginAdds ==
  ASSUME NEW n, NEW T, Holds(n, T), n.mismatch = {0}, DayMargin(n) # {},
         \A s \in Named(n) : SkuMargin(n, s) # {}
  PROVE  DayMargin(n) = {SumOf([s \in Named(n) |-> The(SkuMargin(n, s))]) + n.day.unallocated - OzonExpense}
<1> DEFINE N == Named(n)
           M == [s \in N |-> The(SkuMargin(n, s))]
<1>1. PICK B, R, C, X : SkusKnown(n, B, R, C, X)
  BY SkusShown
<1>2. /\ Settled(n.day)["revenue"] = {Sum(R, N)} /\ ShownDayCogs(n) = {Sum(C, N)}
      /\ n.day.money["revenue"] = {Sum(R, N)} /\ n.net = Sum(B, N) + n.day.unallocated
  BY <1>1, DayShown
<1>3. /\ IsFiniteSet(N) /\ n.net \in Int /\ n.day \in RowType /\ Firm(n, FALSE)
      /\ n.day.unallocated \in Int /\ OzonExpense \in Int /\ OzonTaxRate \in Int
  <2>1. IsFiniteSet(N) /\ n.net \in Int /\ n.day \in RowType /\ Firm(n, FALSE)
    BY LedgerIs
  <2>2. OzonExpense \in Int /\ OzonTaxRate \in Int
    BY AccrualAssumption
  <2> QED BY <2>1, <2>2 DEF RowType
<1>4. \A s \in N : B[s] \in Int /\ R[s] \in Int /\ C[s] \in Int /\ X[s] \in Int
  BY <1>1 DEF SkusKnown
<1>5. \A s \in N : 100 * X[s] = OzonTaxRate * R[s] /\ M[s] = B[s] - C[s] - X[s]
  <2> SUFFICES ASSUME NEW s \in N PROVE 100 * X[s] = OzonTaxRate * R[s] /\ M[s] = B[s] - C[s] - X[s]
    OBVIOUS
  <2>1. SkuKnown(n, s, B[s], R[s], C[s], X[s])
    BY <1>1 DEF SkusKnown
  <2>2. SkuMargin(n, s) = {B[s] - C[s] - X[s]} /\ 100 * X[s] = OzonTaxRate * R[s]
    BY <2>1 DEF SkuKnown
  <2> QED BY <2>2, TheIs
<1>6. SumOf(M) = Sum(M, N)
  BY DEF SumOf, Sum
<1> HIDE DEF M, N
<1> DEFINE b == Sum(B, N)
           r == Sum(R, N)
           c == Sum(C, N)
           x == Sum(X, N)
           m == Sum(M, N)
           h == [s \in N |-> 100 * X[s]]
           k == [s \in N |-> C[s] + X[s]]
<1>7. b \in Int /\ r \in Int /\ c \in Int /\ x \in Int
  BY <1>3, <1>4, SumIsInt
<1>8. 100 * x = OzonTaxRate * r
  <2>1. \A s \in N : h[s] = 100 * X[s] /\ h[s] = OzonTaxRate * R[s]
    BY <1>5
  <2> HIDE DEF h
  <2>2. Sum(h, N) = 100 * Sum(X, N)
    BY <1>3, <1>4, <2>1, SumOfMultiples
  <2>3. Sum(h, N) = OzonTaxRate * Sum(R, N)
    BY <1>3, <1>4, <2>1, SumOfMultiples
  <2> QED BY <2>2, <2>3
<1>9. b = m + (c + x)
  <2>1. \A s \in N : k[s] = C[s] + X[s] /\ k[s] \in Int /\ M[s] \in Int /\ B[s] = M[s] + k[s]
    <3> SUFFICES ASSUME NEW s \in N PROVE k[s] = C[s] + X[s] /\ k[s] \in Int /\ M[s] \in Int /\ B[s] = M[s] + k[s]
      OBVIOUS
    <3> DEFINE bs == B[s]
               cs == C[s]
               xs == X[s]
    <3>1. bs \in Int /\ cs \in Int /\ xs \in Int /\ M[s] = bs - cs - xs /\ k[s] = cs + xs
      BY <1>4, <1>5
    <3> HIDE DEF bs, cs, xs, k
    <3>2. k[s] = cs + xs /\ k[s] \in Int /\ M[s] \in Int /\ bs = M[s] + k[s]
      BY <3>1
    <3> QED BY <3>2 DEF bs, cs, xs
  <2> HIDE DEF k
  <2>2. Sum(k, N) = Sum(C, N) + Sum(X, N)
    BY <1>3, <1>4, <2>1, SumOfSums
  <2>3. Sum(B, N) = Sum(M, N) + Sum(k, N)
    BY <1>3, <2>1, SumOfSums
  <2> QED BY <2>2, <2>3
<1>10. m \in Int
  <2>1. \A s \in N : M[s] \in Int
    BY <1>4, <1>5
  <2> QED BY <1>3, <2>1, SumIsInt
<1> HIDE DEF b, r, c, x, m, h, k
<1>11. _derive_ozon_tax({r}) = {x}
  <2>1. Exact({r})
    BY <1>2, <1>3 DEF Firm, r
  <2>2. PICK t \in Int : _derive_ozon_tax({r}) = {t} /\ 100 * t = OzonTaxRate * r
    BY <1>7, <2>1, TaxIs
  <2>3. 100 * t = 100 * x
    BY <1>8, <2>2
  <2>4. t = x
    BY <1>7, <2>3
  <2> QED BY <2>2, <2>4
<1>12. DayMargin(n) = {n.net - c - x - OzonExpense}
  <2>1. ShownDayCogs(n) = {c} /\ _derive_ozon_tax(Settled(n.day)["revenue"]) = {x}
    BY <1>2, <1>11 DEF c, r
  <2> QED BY <2>1 DEF DayMargin
<1>13. n.net = b + n.day.unallocated
  BY <1>2 DEF b
<1>14. n.net - c - x - OzonExpense = m + n.day.unallocated - OzonExpense
  <2> DEFINE y == n.day.unallocated
             z == n.net
  <2>1. y \in Int /\ z = b + y
    BY <1>3, <1>13
  <2> HIDE DEF y, z
  <2>2. z - c - x - OzonExpense = m + y - OzonExpense
    BY <1>3, <1>7, <1>9, <1>10, <2>1
  <2> QED BY <2>2 DEF y, z
<1>15. m = SumOf(M)
  BY <1>6 DEF m
<1> QED BY <1>12, <1>14, <1>15 DEF M, N

(* The margins shown agree.                                                   *)
LEMMA MarginsAgree ==
  ASSUME Holds(ledger, taken)
  PROVE  ShownMarginsAgree
<1>1. (ledger.mismatch = {0} /\ DayMargin(ledger) # {} /\ \A s \in Named(ledger) : SkuMargin(ledger, s) # {})
        => DayMargin(ledger) = {SumOf([s \in Named(ledger) |-> The(SkuMargin(ledger, s))])
                                + ledger.day.unallocated - OzonExpense}
  BY MarginAdds
<1> QED BY <1>1 DEF ShownMarginsAgree, Unknown

--------------------------------------------------------------------------------
(* The report of both shops.                                                  *)

(* The order of the accruals changes no money.                                *)
LEMMA OrderIsFree ==
  ASSUME Holds(ledger, taken)
  PROVE  OrderDoesNotMatter
<1>1. taken \in SUBSET Accruals /\ IsFiniteSet(taken)
  BY LedgerIs
<1>2. Holds(InAnotherOrder, taken)
  BY <1>1, AnotherOrderHolds
<1>3. Alike(ledger, InAnotherOrder)
  BY <1>2, HoldAlike
<1>4. Told(ledger) = Told(InAnotherOrder)
  BY <1>3, AlikeTold
<1> QED BY <1>4 DEF OrderDoesNotMatter

\* What the two shops tell of the profit of a day.
Profits == {"cogs", "margin", "known_cost_revenue"}
OwnProfit(n) == [cogs |-> ShownDayCogs(n), margin |-> DayMargin(n), known_cost_revenue |-> {KnownRevenue(n)}]
SavedProfit(wb) ==
  [cogs |-> _wb_daily(wb)["cogs"], margin |-> _wb_daily(wb)["margin"], known_cost_revenue |-> _wb_daily(wb)["revenue"]]

(* The columns of a row of the report.                                        *)
LEMMA OverviewColumns ==
  ASSUME NEW n, NEW wb, NEW loaded \in BOOLEAN, NEW f \in Columns
  PROVE  /\ build_overview("ozon", loaded, n, wb)[f] = (IF loaded THEN OzonDay(n)[f] ELSE {})
         /\ build_overview("all", loaded, n, wb)[f]
              = (IF loaded /\ wb # {} THEN Both(_wb_daily(wb)[f], OzonDay(n)[f]) ELSE {})
<1>1. f \in ReportFields
  BY DEF ReportFields, WB_SHAPED_PNL_FIELDS
<1>2. Covered("ozon", loaded, wb) <=> loaded
  BY DEF Covered
<1>3. Covered("all", loaded, wb) <=> loaded /\ wb # {}
  BY DEF Covered
<1>4. ASSUME NEW mk
      PROVE  build_overview(mk, loaded, n, wb)[f]
               = IF ~Covered(mk, loaded, wb) THEN {}
                 ELSE IF mk = "ozon" THEN OzonDay(n)[f] ELSE Both(_wb_daily(wb)[f], OzonDay(n)[f])
  BY <1>1 DEF build_overview, Unknown
<1>5. build_overview("ozon", loaded, n, wb)[f] = IF ~Covered("ozon", loaded, wb) THEN {} ELSE OzonDay(n)[f]
  BY <1>4
<1>6. build_overview("all", loaded, n, wb)[f]
        = IF ~Covered("all", loaded, wb) THEN {} ELSE Both(_wb_daily(wb)[f], OzonDay(n)[f])
  BY <1>4
<1> QED BY <1>2, <1>3, <1>5, <1>6

(* Its profits.                                                               *)
LEMMA OverviewProfits ==
  ASSUME NEW n, NEW wb, NEW loaded \in BOOLEAN, NEW f \in Profits
  PROVE  /\ build_overview("ozon", loaded, n, wb)[f]
              = (IF loaded /\ OzonDay(n)["revenue"] # {} THEN OwnProfit(n)[f] ELSE {})
         /\ build_overview("all", loaded, n, wb)[f]
              = (IF loaded /\ wb # {} /\ Both(_wb_daily(wb)["revenue"], OzonDay(n)["revenue"]) # {}
                   THEN Both(SavedProfit(wb)[f], KnownPart(OwnProfit(n)[f])) ELSE {})
<1>1. f \in ReportFields /\ f \notin Columns /\ "revenue" \in Columns
  BY DEF ReportFields, WB_SHAPED_PNL_FIELDS, Columns, Profits
<1>2. Covered("ozon", loaded, wb) <=> loaded
  BY DEF Covered
<1>3. Covered("all", loaded, wb) <=> loaded /\ wb # {}
  BY DEF Covered
<1> DEFINE shown(mk) == [g \in Columns |-> IF mk = "ozon" THEN OzonDay(n)[g] ELSE Both(_wb_daily(wb)[g], OzonDay(n)[g])]
           profit(mk) == _day_profit_known(mk, shown(mk)["revenue"], n, wb)
<1>4. ASSUME NEW mk
      PROVE  build_overview(mk, loaded, n, wb)[f] = IF ~Covered(mk, loaded, wb) THEN {} ELSE profit(mk)[f]
  <2>1. build_overview(mk, loaded, n, wb)
          = [g \in ReportFields |-> IF ~Covered(mk, loaded, wb) THEN Unknown
                                    ELSE IF g \in Columns THEN shown(mk)[g] ELSE profit(mk)[g]]
    BY DEF build_overview
  <2> HIDE DEF profit
  <2> QED BY <1>1, <2>1 DEF Unknown
<1>5. shown("ozon")["revenue"] = OzonDay(n)["revenue"]
  BY <1>1
<1>6. shown("all")["revenue"] = Both(_wb_daily(wb)["revenue"], OzonDay(n)["revenue"])
  BY <1>1
<1> HIDE DEF shown
<1>7. ASSUME NEW mk, NEW v
      PROVE  _day_profit_known(mk, v, n, wb)[f]
               = IF v = {} THEN {} ELSE IF mk = "ozon" THEN OwnProfit(n)[f]
                 ELSE Both(SavedProfit(wb)[f], KnownPart(OwnProfit(n)[f]))
  <2>1. _day_profit_known(mk, v, n, wb)
          = [g \in DOMAIN OwnProfit(n) |-> IF v = Unknown THEN Unknown ELSE IF mk = "ozon" THEN OwnProfit(n)[g]
                                           ELSE Both(SavedProfit(wb)[g], KnownPart(OwnProfit(n)[g]))]
    BY DEF _day_profit_known, OwnProfit, SavedProfit
  <2>2. DOMAIN OwnProfit(n) = Profits
    BY DEF OwnProfit, Profits
  <2> QED BY <2>1, <2>2 DEF Unknown
<1>8. profit("ozon")[f] = IF OzonDay(n)["revenue"] = {} THEN {} ELSE OwnProfit(n)[f]
  BY <1>5, <1>7
<1>9. profit("all")[f] = IF Both(_wb_daily(wb)["revenue"], OzonDay(n)["revenue"]) = {} THEN {}
                         ELSE Both(SavedProfit(wb)[f], KnownPart(OwnProfit(n)[f]))
  BY <1>6, <1>7
<1> HIDE DEF profit
<1>10. build_overview("ozon", loaded, n, wb)[f] = IF ~Covered("ozon", loaded, wb) THEN {} ELSE profit("ozon")[f]
  BY <1>4
<1>11. build_overview("all", loaded, n, wb)[f] = IF ~Covered("all", loaded, wb) THEN {} ELSE profit("all")[f]
  BY <1>4
<1> QED BY <1>2, <1>3, <1>8, <1>9, <1>10, <1>11

(* The columns of Ozon's day, and those of WB's, are amounts.                 *)
LEMMA ColumnsAre ==
  ASSUME NEW n, NEW T, Holds(n, T)
  PROVE  \A f \in Columns : OzonDay(n)[f] \in Amount
<1>1. n.day \in RowType /\ Settled(n.day) \in [Fields -> Amount] /\ Firm(n, FALSE)
  BY LedgerIs, SettledIs
<1>2. {} \in Amount /\ {0} \in Amount /\ \A x \in Int : {x} \in Amount
  BY AmountIs
<1> DEFINE V == Settled(n.day)["revenue"]
<1>3. V \in Amount
  BY <1>1 DEF Fields
<1>4. _derive_ozon_tax(V) \in Amount
  <2>1. CASE V = {}
    BY <1>2, <2>1 DEF _derive_ozon_tax
  <2>2. CASE V # {}
    <3>1. PICK r \in Int : V = {r}
      BY <1>3, <2>2, AmountIs
    <3> DEFINE y == r * OzonTaxRate
    <3>2. y \in Int
      BY AccrualAssumption
    <3>3. _derive_ozon_tax(V) = {y \div 100}
      BY <3>1 DEF _derive_ozon_tax
    <3> HIDE DEF y
    <3>4. y \div 100 \in Int
      BY <3>2
    <3> QED BY <1>2, <3>3, <3>4
  <2> QED BY <2>1, <2>2
<1>5. {OzonExpense} \in Amount
  <2>1. OzonExpense \in Int
    BY AccrualAssumption
  <2> QED BY <1>2, <2>1
<1>6. ASSUME NEW f \in Columns \ {"tax", "operation_expenses"}
      PROVE  _replace_complete_day(n)[f] \in Amount
  <2>1. CASE f = "ads_spend"
    <3>1. _replace_complete_day(n)[f] = IF n = EmptyLedger THEN {} ELSE {0 : x \in Settled(n.day)["storage"]}
      BY <2>1 DEF _replace_complete_day, Unknown
    <3>2. {0 : x \in Settled(n.day)["storage"]} \in {{}, {0}}
      OBVIOUS
    <3> QED BY <1>2, <3>1, <3>2
  <2>2. CASE f # "ads_spend"
    <3>1. _replace_complete_day(n)[f] = Settled(n.day)[f]
      BY <2>2 DEF _replace_complete_day
    <3>2. f \in Fields
      BY <2>2 DEF Columns, Fields, Charges
    <3> QED BY <1>1, <3>1, <3>2
  <2> QED BY <2>1, <2>2
<1>7. ASSUME NEW f \in Columns
      PROVE  OzonDay(n)[f] \in Amount
  <2>1. CASE f = "tax"
    BY <1>4, <2>1 DEF OzonDay
  <2>2. CASE f = "operation_expenses"
    BY <1>5, <2>2 DEF OzonDay
  <2>3. CASE f \notin {"tax", "operation_expenses"}
    <3>1. OzonDay(n)[f] = _replace_complete_day(n)[f]
      BY <2>3 DEF OzonDay
    <3> QED BY <1>6, <2>3, <3>1
  <2> QED BY <2>1, <2>2, <2>3
<1> QED BY <1>7

(* A day of WB, or none.                                                      *)
LEMMA WbRowsAre ==
  ASSUME NEW wb \in WbRows
  PROVE  \A f \in WB_SHAPED_PNL_FIELDS :
           /\ _wb_daily(wb)[f] \in Amount /\ (wb = {} => _wb_daily(wb)[f] = {})
           /\ wb # {} => _wb_daily(wb)[f] # {}
<1> SUFFICES ASSUME NEW f \in WB_SHAPED_PNL_FIELDS
             PROVE  /\ _wb_daily(wb)[f] \in Amount /\ (wb = {} => _wb_daily(wb)[f] = {})
                    /\ wb # {} => _wb_daily(wb)[f] # {}
  OBVIOUS
<1>1. _wb_daily(wb)[f] = {row[f] : row \in wb}
  BY DEF _wb_daily
<1>2. CASE wb = {}
  BY <1>1, <1>2, SmallAmounts
<1>3. CASE wb # {}
  <2>1. PICK row \in WbDays : wb = {row}
    BY <1>3 DEF WbRows
  <2>2. row[f] \in Int
    BY WbAssumption
  <2> QED BY <1>1, <1>3, <2>1, <2>2, AmountIs
<1> QED BY <1>2, <1>3

(* The combined row is what both shops' rows say.                             *)
LEMMA BothAreCombined ==
  ASSUME Holds(ledger, taken)
  PROVE  CombinedIsBoth
<1> SUFFICES ASSUME NEW wb \in WbRows, NEW loaded \in BOOLEAN
             PROVE  /\ \A f \in Columns : build_overview("all", loaded, ledger, wb)[f]
                                            = Both(build_overview("ozon", loaded, ledger, wb)[f], _wb_daily(wb)[f])
                    /\ \A f \in {"cogs", "margin"} :
                         build_overview("all", loaded, ledger, wb)[f]
                           = IF build_overview("all", loaded, ledger, wb)["revenue"] = Unknown THEN Unknown
                             ELSE Both(_wb_daily(wb)[f], KnownPart(build_overview("ozon", loaded, ledger, wb)[f]))
  BY DEF CombinedIsBoth
<1> DEFINE all == build_overview("all", loaded, ledger, wb)
           ozon == build_overview("ozon", loaded, ledger, wb)
           own == OzonDay(ledger)
           wbDay == _wb_daily(wb)
<1>1. \A f \in Columns : /\ ozon[f] = (IF loaded THEN own[f] ELSE {})
                         /\ all[f] = (IF loaded /\ wb # {} THEN Both(wbDay[f], own[f]) ELSE {})
  BY OverviewColumns
<1>2. \A f \in Columns : own[f] \in Amount
  BY ColumnsAre
<1>3. \A f \in WB_SHAPED_PNL_FIELDS : wbDay[f] \in Amount /\ (wb = {} => wbDay[f] = {}) /\ (wb # {} => wbDay[f] # {})
  BY WbRowsAre
<1>4. Columns \subseteq WB_SHAPED_PNL_FIELDS /\ "revenue" \in Columns
  BY DEF WB_SHAPED_PNL_FIELDS, Columns
<1>5. \A f \in {"cogs", "margin"} : f \in Profits /\ SavedProfit(wb)[f] = wbDay[f]
  BY DEF Profits, SavedProfit
<1>6. \A f \in {"cogs", "margin"} :
        /\ ozon[f] = (IF loaded /\ own["revenue"] # {} THEN OwnProfit(ledger)[f] ELSE {})
        /\ all[f] = (IF loaded /\ wb # {} /\ Both(wbDay["revenue"], own["revenue"]) # {}
                       THEN Both(wbDay[f], KnownPart(OwnProfit(ledger)[f])) ELSE {})
  BY <1>5, OverviewProfits
<1> HIDE DEF all, ozon, own, wbDay
<1>7. ASSUME NEW f \in Columns PROVE all[f] = Both(ozon[f], wbDay[f])
  <2> DEFINE a == wbDay[f]
             b == own[f]
  <2>1. a \in Amount /\ b \in Amount /\ (wb = {} => a = {})
    BY <1>2, <1>3, <1>4
  <2>2. all[f] = (IF loaded /\ wb # {} THEN Both(a, b) ELSE {}) /\ ozon[f] = (IF loaded THEN b ELSE {})
    BY <1>1
  <2> HIDE DEF a, b
  <2>3. Both(a, b) = Both(b, a) /\ Both({}, a) = {} /\ Both(b, {}) = {}
    BY <2>1, BothLaws, SmallAmounts
  <2>4. all[f] = Both(ozon[f], a)
    BY <2>1, <2>2, <2>3
  <2> QED BY <2>4 DEF a
<1>8. ASSUME NEW f \in {"cogs", "margin"}
      PROVE  all[f] = IF all["revenue"] = Unknown THEN Unknown ELSE Both(wbDay[f], KnownPart(ozon[f]))
  <2>1. all["revenue"] = (IF loaded /\ wb # {} THEN Both(wbDay["revenue"], own["revenue"]) ELSE {})
    BY <1>1, <1>4
  <2>2. Both(wbDay["revenue"], own["revenue"]) # {} => own["revenue"] # {}
    BY <1>2, <1>3, <1>4, BothLaws
  <2>3. CASE all["revenue"] = {}
    <3>1. all[f] = {}
      BY <1>6, <2>1, <2>3
    <3> QED BY <2>3, <3>1 DEF Unknown
  <2>4. CASE all["revenue"] # {}
    <3>1. loaded /\ wb # {} /\ Both(wbDay["revenue"], own["revenue"]) # {} /\ own["revenue"] # {}
      BY <2>1, <2>2, <2>4
    <3>2. all[f] = Both(wbDay[f], KnownPart(OwnProfit(ledger)[f])) /\ ozon[f] = OwnProfit(ledger)[f]
      BY <1>6, <3>1
    <3> QED BY <2>4, <3>2 DEF Unknown
  <2> QED BY <2>3, <2>4
<1> QED BY <1>7, <1>8 DEF all, ozon, wbDay

\* The product of a SKU.
ProductOf(n, s) ==
  [sku |-> s, revenue |-> SkuRow(n, s).money["revenue"], cogs |-> ShownCogs(n, s), margin |-> SkuMargin(n, s)]

(* The list of products, counted by SKU.                                      *)
LEMMA ProductsAre ==
  ASSUME NEW n, IsFiniteSet(Named(n)), NEW f, NEW h,
         \A s \in Named(n) : h[s] \in Int /\ f[ProductOf(n, s)] = h[s]
  PROVE  Sum(f, _build_ozon_products(n)) = Sum(h, Named(n))
<1> DEFINE N == Named(n)
           e == [s \in N |-> ProductOf(n, s)]
<1>1. _build_ozon_products(n) = {e[s] : s \in N}
  BY DEF _build_ozon_products, ProductOf
<1>2. \A s, t \in N : e[s] = e[t] => s = t
  <2>1. \A s \in N : e[s].sku = s
    BY DEF ProductOf
  <2> HIDE DEF e
  <2> QED BY <2>1
<1>3. \A s \in N : h[s] \in Int /\ f[e[s]] = h[s]
  OBVIOUS
<1> HIDE DEF N, e
<1>4. IsFiniteSet(N)
  BY DEF N
<1>5. Sum(f, {e[s] : s \in N}) = Sum(h, N)
  BY <1>2, <1>3, <1>4, SumOfImage
<1> QED BY <1>1, <1>5 DEF N

(* What the row of Ozon's products tells of a day whose margins are all shown. *)
LEMMA ProductsTell ==
  ASSUME NEW n, NEW T, Holds(n, T), n.mismatch = {0}, DayMargin(n) # {},
         \A s \in Named(n) : SkuMargin(n, s) # {}
  PROVE  /\ DayMargin(n) = {SumOf([row \in _build_ozon_products(n) |-> The(row.margin)]) + n.day.unallocated - OzonExpense}
         /\ {KnownRevenue(n)} = Settled(n.day)["revenue"]
<1> DEFINE N == Named(n)
           P == _build_ozon_products(n)
<1>1. PICK B, R, C, X : SkusKnown(n, B, R, C, X)
  BY SkusShown
<1>2. IsFiniteSet(N)
  BY LedgerIs
<1>3. \A s \in N : /\ B[s] \in Int /\ R[s] \in Int /\ C[s] \in Int /\ X[s] \in Int
                   /\ SkuKnown(n, s, B[s], R[s], C[s], X[s])
  BY <1>1 DEF SkusKnown
<1>4. P = {ProductOf(n, s) : s \in N}
  BY DEF _build_ozon_products, ProductOf
<1>5. \A s \in N : /\ ProductOf(n, s).margin = SkuMargin(n, s) /\ ProductOf(n, s).cogs = ShownCogs(n, s)
                   /\ ProductOf(n, s).revenue = SkuRow(n, s).money["revenue"] /\ ProductOf(n, s) \in P
  BY <1>4 DEF ProductOf
<1>6. DayMargin(n) = {SumOf([row \in P |-> The(row.margin)]) + n.day.unallocated - OzonExpense}
  <2> DEFINE f == [row \in P |-> The(row.margin)]
             h == [s \in N |-> The(SkuMargin(n, s))]
  <2>1. DayMargin(n) = {SumOf(h) + n.day.unallocated - OzonExpense}
    BY MarginAdds
  <2>2. SumOf(h) = Sum(h, N) /\ SumOf(f) = Sum(f, P)
    BY DEF SumOf, Sum
  <2>3. \A s \in N : h[s] \in Int /\ f[ProductOf(n, s)] = h[s]
    <3> SUFFICES ASSUME NEW s \in N PROVE h[s] \in Int /\ f[ProductOf(n, s)] = h[s]
      OBVIOUS
    <3>1. SkuMargin(n, s) = {B[s] - C[s] - X[s]}
      BY <1>3 DEF SkuKnown
    <3>2. h[s] = B[s] - C[s] - X[s]
      BY <3>1, TheIs
    <3>3. B[s] - C[s] - X[s] \in Int
      BY <1>3
    <3>4. f[ProductOf(n, s)] = The(ProductOf(n, s).margin)
      BY <1>5
    <3> QED BY <1>5, <3>2, <3>3, <3>4
  <2> HIDE DEF f, h
  <2>4. Sum(f, P) = Sum(h, N)
    BY <1>2, <2>3, ProductsAre
  <2>5. SumOf(f) = SumOf(h)
    BY <2>2, <2>4
  <2>6. DayMargin(n) = {SumOf(f) + n.day.unallocated - OzonExpense}
    BY <2>1, <2>5
  <2> QED BY <2>6 DEF f
<1>7. {KnownRevenue(n)} = Settled(n.day)["revenue"]
  <2> DEFINE Q == {p \in P : p.cogs # Unknown /\ p.revenue # Unknown}
             f == [row \in Q |-> The(row.revenue)]
  <2>1. KnownRevenue(n) = SumOf(f)
    BY DEF KnownRevenue
  <2>2. SumOf(f) = Sum(f, Q)
    BY DEF SumOf, Sum
  <2>3. \A s \in N : ShownCogs(n, s) = {C[s]} /\ SkuRow(n, s).money["revenue"] = {R[s]}
    BY <1>3 DEF SkuKnown
  <2>4. Q = P
    <3> SUFFICES ASSUME NEW p \in P PROVE p.cogs # {} /\ p.revenue # {}
      BY DEF Unknown
    <3>1. PICK s \in N : p = ProductOf(n, s)
      BY <1>4
    <3> QED BY <1>5, <2>3, <3>1
  <2>5. \A s \in N : R[s] \in Int /\ f[ProductOf(n, s)] = R[s]
    BY <1>3, <1>5, <2>3, <2>4, TheIs
  <2> HIDE DEF Q, f
  <2>6. Sum(f, P) = Sum(R, N)
    BY <1>2, <2>5, ProductsAre
  <2>7. Settled(n.day)["revenue"] = {Sum(R, N)}
    BY <1>1, DayShown
  <2> QED BY <2>1, <2>2, <2>4, <2>6, <2>7
<1> QED BY <1>6, <1>7

(* The list of products agrees with the day.                                  *)
LEMMA ProductsAgree ==
  ASSUME Holds(ledger, taken)
  PROVE  ProductsAddUpToTheDay
<1> DEFINE products == _build_ozon_products(ledger)
           claim == SumOf([row \in products |-> The(row.margin)]) + ledger.day.unallocated - OzonExpense
<1> SUFFICES ASSUME NEW wb \in WbRows, wb # {}, ledger.mismatch = {0}, DayMargin(ledger) # {},
                    \A row \in products : row.margin # {}
             PROVE  /\ build_overview("all", TRUE, ledger, wb)["margin"] = Both(_wb_daily(wb)["margin"], {claim})
                    /\ build_overview("all", TRUE, ledger, wb)["known_cost_revenue"]
                         = build_overview("all", TRUE, ledger, wb)["revenue"]
  BY DEF ProductsAddUpToTheDay, Unknown
<1> DEFINE all == build_overview("all", TRUE, ledger, wb)
           own == OzonDay(ledger)
           wbDay == _wb_daily(wb)
<1>1. \A s \in Named(ledger) : SkuMargin(ledger, s) # {}
  <2>1. \A s \in Named(ledger) : ProductOf(ledger, s) \in products /\ ProductOf(ledger, s).margin = SkuMargin(ledger, s)
    BY DEF _build_ozon_products, ProductOf
  <2> QED BY <2>1
<1>2. DayMargin(ledger) = {claim} /\ {KnownRevenue(ledger)} = Settled(ledger.day)["revenue"]
  BY <1>1, ProductsTell
<1>3. own["revenue"] = Settled(ledger.day)["revenue"]
  BY DEF OzonDay, _replace_complete_day, Columns
<1>4. all["revenue"] = Both(wbDay["revenue"], own["revenue"])
  <2>1. "revenue" \in Columns /\ TRUE \in BOOLEAN
    BY DEF Columns
  <2>2. \A loaded \in BOOLEAN : build_overview("all", loaded, ledger, wb)["revenue"]
                                   = (IF loaded /\ wb # {} THEN Both(wbDay["revenue"], own["revenue"]) ELSE {})
    <3> HIDE DEF wbDay, own
    <3> QED BY <2>1, OverviewColumns DEF wbDay, own
  <2>3. all["revenue"] = (IF TRUE /\ wb # {} THEN Both(wbDay["revenue"], own["revenue"]) ELSE {})
    BY <2>2, Zenon
  <2> QED BY <2>3
<1>5. Both(wbDay["revenue"], own["revenue"]) # {}
  <2>1. "revenue" \in Columns /\ "revenue" \in WB_SHAPED_PNL_FIELDS
    BY DEF Columns, WB_SHAPED_PNL_FIELDS
  <2>2. wbDay["revenue"] \in Amount /\ wbDay["revenue"] # {} /\ own["revenue"] \in Amount /\ own["revenue"] # {}
    BY <1>2, <1>3, <2>1, WbRowsAre, ColumnsAre
  <2> HIDE DEF wbDay, own
  <2> QED BY <2>2, BothLaws
<1>6. \A f \in Profits : all[f] = Both(SavedProfit(wb)[f], KnownPart(OwnProfit(ledger)[f]))
  <2> SUFFICES ASSUME NEW f \in Profits PROVE all[f] = Both(SavedProfit(wb)[f], KnownPart(OwnProfit(ledger)[f]))
    OBVIOUS
  <2>1. all[f] = (IF TRUE /\ wb # {} /\ Both(wbDay["revenue"], own["revenue"]) # {}
                    THEN Both(SavedProfit(wb)[f], KnownPart(OwnProfit(ledger)[f])) ELSE {})
    BY OverviewProfits
  <2> QED BY <1>5, <2>1
<1> HIDE DEF all, own, claim, products
<1>7. all["margin"] = Both(wbDay["margin"], {claim})
  <2>1. SavedProfit(wb)["margin"] = wbDay["margin"] /\ OwnProfit(ledger)["margin"] = DayMargin(ledger) /\ "margin" \in Profits
    BY DEF SavedProfit, OwnProfit, Profits
  <2>2. KnownPart({claim}) = {claim}
    BY DEF KnownPart, Unknown
  <2> HIDE DEF wbDay
  <2> QED BY <1>2, <1>6, <2>1, <2>2
<1>8. all["known_cost_revenue"] = all["revenue"]
  <2>1. /\ SavedProfit(wb)["known_cost_revenue"] = wbDay["revenue"] /\ "known_cost_revenue" \in Profits
        /\ OwnProfit(ledger)["known_cost_revenue"] = {KnownRevenue(ledger)}
    BY DEF SavedProfit, OwnProfit, Profits
  <2>2. KnownPart({KnownRevenue(ledger)}) = {KnownRevenue(ledger)}
    BY DEF KnownPart, Unknown
  <2> HIDE DEF wbDay
  <2> QED BY <1>2, <1>3, <1>4, <1>6, <2>1, <2>2
<1> QED BY <1>7, <1>8 DEF all

(* The ledger and what is shown of it, in every reachable state.              *)
THEOREM OzonHolds == OzonSpec => []OzonReportInv
<1> DEFINE Inv == Holds(ledger, taken) /\ Cardinality(taken) <= MaxAccruals
<1>1. OzonInit => Inv
  <2> SUFFICES ASSUME OzonInit PROVE Inv
    OBVIOUS
  <2>1. taken = {} /\ ledger = EmptyLedger /\ Cardinality({}) = 0 /\ MaxAccruals \in Nat
    BY AccrualAssumption, FS_EmptySet DEF OzonInit
  <2> QED BY <2>1, HoldsOfNone
<1>2. Inv /\ [OzonNext]_ozonVars => Inv'
  <2> SUFFICES ASSUME Inv, [OzonNext]_ozonVars PROVE Inv'
    OBVIOUS
  <2>1. ASSUME Accrue PROVE Inv'
    <3>1. PICK a \in Accruals \ taken :
            Cardinality(taken) < MaxAccruals /\ taken' = taken \cup {a} /\ ledger' = Normalised(ledger, a)
      BY <2>1 DEF Accrue
    <3>2. Holds(Normalised(ledger, a), taken \cup {a})
      BY <3>1, HoldsGrow
    <3>3. Holds(ledger', taken')
      BY <3>1, <3>2
    <3>4. IsFiniteSet(taken)
      BY DEF Holds
    <3>5. Cardinality(taken') = Cardinality(taken) + 1 /\ Cardinality(taken) \in Nat
      BY <3>1, <3>4, FS_AddElement, FS_CardinalityType
    <3>6. Cardinality(taken') <= MaxAccruals
      <4>1. MaxAccruals \in Nat
        BY AccrualAssumption
      <4> QED BY <3>1, <3>5, <4>1
    <3> QED BY <3>3, <3>6
  <2>2. CASE UNCHANGED ozonVars
    BY <2>2 DEF ozonVars
  <2> QED BY <2>1, <2>2 DEF OzonNext
<1>3. Inv => OzonReportInv
  <2> SUFFICES ASSUME Inv PROVE OzonReportInv
    OBVIOUS
  <2>1. OzonTypeOK /\ MismatchesDoNotCancel /\ DayProfitIsCertain /\ SkuProfitIsItsOwn
    BY TypesHold, NothingCancels, DayIsCertain, ClaimsAreOwn
  <2>2. ShownMarginsAgree /\ OrderDoesNotMatter /\ CombinedIsBoth /\ ProductsAddUpToTheDay
    BY MarginsAgree, OrderIsFree, BothAreCombined, ProductsAgree
  <2> QED BY <2>1, <2>2 DEF OzonReportInv, OzonMoneyInv
<1> QED BY <1>1, <1>2, <1>3, PTL DEF OzonSpec

================================================================================
