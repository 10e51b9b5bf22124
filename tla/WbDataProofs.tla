------------------------------ MODULE WbDataProofs ------------------------------
(******************************************************************************)
(* The data of one WB seller: the repair of missing days, the funnel's year,  *)
(* calls of WB, the figures of a day and the plan of a month, for calendars,  *)
(* years, batches and reports of any length and any number of requests,       *)
(* chains, clicks, workers and faults.                                        *)
(******************************************************************************)
EXTENDS FinanceRepair, FunnelYear, PlanFact, WbClient, DailyFigures, SumTheorems

--------------------------------------------------------------------------------
(* What a row of finance_missing_sync_state promises.  What makes it          *)
(* inductive: from the answer of WB to the end of the step the days being     *)
(* served are loaded, or fell to the error that was swallowed.                *)

Statuses == {"none", "queued", "running", "complete"}

ServingIsARange == pc # "idle" => serving \in Ranges

ServingIsLoaded ==
  pc \in {"ads", "save"} => Days(serving) \cap HasSales \subseteq present \cup lost

RepairIInv == RepairInv /\ ServingIsARange /\ ServingIsLoaded

--------------------------------------------------------------------------------
(* There are finitely many ranges, and a set of some is not empty from one on. *)
LEMMA RangesAreFinite ==
  /\ IsFiniteSet(Ranges)
  /\ \A R \in SUBSET Ranges : Cardinality(R) \in Nat /\ (R # {} => Cardinality(R) >= 1)
<1>1. IsFiniteSet(1..MaxDay)
  BY FS_Interval, DaysAssumption
<1>2. IsFiniteSet((1..MaxDay) \X (1..MaxDay))
  BY <1>1, FS_Product
<1>3. IsFiniteSet(Ranges)
  BY <1>2, FS_Subset DEF Ranges
<1>4. ASSUME NEW R \in SUBSET Ranges
      PROVE Cardinality(R) \in Nat /\ (R # {} => Cardinality(R) >= 1)
  <2>1. IsFiniteSet(R) /\ Cardinality(R) \in Nat
    BY <1>3, FS_Subset, FS_CardinalityType
  <2>2. R # {} => Cardinality(R) # 0
    BY <2>1, FS_EmptySet
  <2> QED BY <2>1, <2>2
<1> QED BY <1>3, <1>4

(* A hole that is cut to its newest days is a range of the calendar still.    *)
LEMMA TrimIsARange ==
  ASSUME NEW h \in Ranges
  PROVE  Trim(h) \in Ranges
<1>1. h[1] \in 1..MaxDay /\ h[2] \in 1..MaxDay /\ h[1] <= h[2] /\ MaxHole \in Nat \ {0} /\ MaxDay \in Nat
  BY DaysAssumption DEF Ranges
<1>2. CASE h[2] - h[1] + 1 > MaxHole
  <2>1. h[2] - MaxHole + 1 \in 1..MaxDay /\ h[2] - MaxHole + 1 <= h[2]
    BY <1>1, <1>2
  <2> QED BY <1>1, <1>2, <2>1 DEF Trim, Ranges
<1>3. CASE ~(h[2] - h[1] + 1 > MaxHole)
  BY <1>3 DEF Trim
<1> QED BY <1>2, <1>3

(* What may be repaired are ranges.                                           *)
LEMMA EligibleAreRanges == Eligible \subseteq Ranges
BY TrimIsARange DEF Eligible, Holes

(* The days of a range are days of the calendar.                              *)
LEMMA DaysOfARange ==
  ASSUME NEW r \in Ranges
  PROVE  Days(r) \subseteq 1..MaxDay
BY DaysAssumption DEF Days, Ranges

(* A write leaves statuses statuses, and completes no row but those written.  *)
LEMMA WriteKeeps ==
  ASSUME TypeOK, NEW rs, NEW s \in Statuses, Write(rs, s)
  PROVE  /\ row' \in [Ranges -> Statuses] /\ stale' \in [Ranges -> BOOLEAN]
         /\ \A r \in Ranges : row'[r] = "complete" => row[r] = "complete" \/ (r \in rs /\ s = "complete")
<1>1. row \in [Ranges -> Statuses] /\ stale \in [Ranges -> BOOLEAN]
  BY DEF TypeOK, Statuses
<1>2. row' \in [Ranges -> Statuses]
  BY <1>1 DEF Write
<1>3. stale' = [r \in Ranges |-> stale[r] /\ (r \in rs => row[r] = s)]
  BY DEF Write
<1>4. \A r \in Ranges : (stale[r] /\ (r \in rs => row[r] = s)) \in BOOLEAN
  OBVIOUS
<1>5. stale' \in [Ranges -> BOOLEAN]
  BY <1>3, <1>4
<1> QED BY <1>2, <1>5 DEF Write

(* A fault is counted up to the bound.                                        *)
LEMMA FaultsStayBounded ==
  ASSUME TypeOK, NEW n \in Nat, Faults(n)
  PROVE  faults' \in 0..MaxFaults
BY DaysAssumption DEF TypeOK, Faults

(* A read publishes ranges and queues rows; it completes nothing.             *)
LEMMA ReadTailKeeps ==
  ASSUME TypeOK, NEW r \in Ranges, ReadTail(r)
  PROVE  /\ row' \in [Ranges -> Statuses] /\ stale' \in [Ranges -> BOOLEAN]
         /\ inbox' \subseteq Ranges /\ faults' \in 0..MaxFaults
         /\ \A g \in Ranges : row'[g] = "complete" => row[g] = "complete"
<1>1. /\ row' \in [Ranges -> Statuses] /\ stale' \in [Ranges -> BOOLEAN]
      /\ \A g \in Ranges : row'[g] = "complete" => row[g] = "complete"
  <2>1. CASE row[r] = "running"
    BY <2>1 DEF ReadTail, progress, TypeOK, Statuses
  <2>2. CASE row[r] # "running"
    <3>1. Write({r}, "queued") /\ "queued" \in Statuses
      BY <2>2 DEF ReadTail, Statuses
    <3> QED BY <3>1, WriteKeeps
  <2> QED BY <2>1, <2>2
<1>2. inbox' \subseteq Ranges /\ faults' \in 0..MaxFaults
  BY FaultsStayBounded DEF ReadTail, PublishTail, Fault, TypeOK
<1> QED BY <1>1, <1>2

(* Reading the holes keeps the types and completes no row.                    *)
LEMMA ReadHolesKeeps ==
  ASSUME TypeOK, ReadHoles
  PROVE  /\ row' \in [Ranges -> Statuses] /\ stale' \in [Ranges -> BOOLEAN]
         /\ inbox' \subseteq Ranges /\ faults' \in 0..MaxFaults
         /\ \A g \in Ranges : row'[g] = "complete" => row[g] = "complete"
<1>1. PICK tried \in SUBSET Eligible :
        /\ tried # {} /\ Write(tried, "queued")
        /\ \/ /\ \E oldest \in tried : inbox' = inbox \cup {oldest}
              /\ Faults(Cardinality(tried) - 1)
           \/ inbox' = inbox /\ Faults(Cardinality(tried))
  BY DEF ReadHoles
<1>2. tried \subseteq Ranges
  BY EligibleAreRanges
<1>3. Cardinality(tried) \in Nat /\ Cardinality(tried) - 1 \in Nat
  BY <1>1, <1>2, RangesAreFinite
<1>4. inbox' \subseteq Ranges
  BY <1>1, <1>2 DEF TypeOK
<1>5. faults' \in 0..MaxFaults
  BY <1>1, <1>3, FaultsStayBounded
<1>6. "queued" \in Statuses
  BY DEF Statuses
<1> QED BY <1>1, <1>4, <1>5, <1>6, WriteKeeps

--------------------------------------------------------------------------------
(* A repair starts with nothing queued and nothing served.                    *)
LEMMA RepairInit == Init => RepairIInv
<1> SUFFICES ASSUME Init PROVE RepairIInv
  OBVIOUS
<1>1. through \in 1..MaxDay /\ present \subseteq HasSales /\ lost \subseteq 1..MaxDay
  BY DEF Init
<1>2. row \in [Ranges -> Statuses] /\ stale \in [Ranges -> BOOLEAN]
  BY DEF Init, Statuses
<1>3. faults \in 0..MaxFaults /\ requests \in 0..MaxRequests
  BY DaysAssumption DEF Init
<1>4. TypeOK
  BY <1>1, <1>2, <1>3 DEF Init, TypeOK, Statuses
<1> QED BY <1>4 DEF Init, RepairIInv, RepairInv, CompleteRowsAreLoaded, ServingIsARange, ServingIsLoaded

(* Every step of a repair keeps it.                                           *)
LEMMA RepairStep == RepairIInv /\ [Next]_vars => RepairIInv'
<1> SUFFICES ASSUME RepairIInv, [Next]_vars PROVE RepairIInv'
  OBVIOUS
<1> USE DEF RepairIInv, RepairInv
<1>0. row \in [Ranges -> Statuses] /\ stale \in [Ranges -> BOOLEAN]
  BY DEF TypeOK, Statuses
<1>1. CASE DashboardRead
  <2>1. /\ row' \in [Ranges -> Statuses] /\ stale' \in [Ranges -> BOOLEAN]
        /\ inbox' \subseteq Ranges /\ faults' \in 0..MaxFaults
        /\ \A g \in Ranges : row'[g] = "complete" => row[g] = "complete"
    BY <1>1, ReadTailKeeps, ReadHolesKeeps DEF DashboardRead
  <2>2. UNCHANGED <<through, present, orchestrator, lost, requests>>
    BY <1>1 DEF DashboardRead
  <2> QED BY <2>1, <2>2 DEF TypeOK, Statuses, orchestrator, CompleteRowsAreLoaded, ServingIsARange, ServingIsLoaded
<1>2. ASSUME NEW r \in ManualRanges, ManualKick(r) PROVE RepairIInv'
  BY <1>2, DaysAssumption DEF ManualKick, TypeOK, progress, orchestrator, CompleteRowsAreLoaded, ServingIsARange, ServingIsLoaded
<1>3. CASE RecentAsked
  <2>1. Recent \in Ranges
    BY DaysAssumption DEF Recent, Ranges, TypeOK
  <2>2. Write({Recent}, "running") /\ "running" \in Statuses
    BY <1>3 DEF RecentAsked, Statuses
  <2>3. /\ row' \in [Ranges -> Statuses] /\ stale' \in [Ranges -> BOOLEAN]
        /\ \A g \in Ranges : row'[g] = "complete" => row[g] = "complete"
    BY <2>2, WriteKeeps
  <2>4. inbox' \subseteq Ranges /\ faults' \in 0..MaxFaults /\ requests' \in 0..MaxRequests
    BY <1>3, <2>1, FaultsStayBounded, DaysAssumption DEF RecentAsked, PublishTail, Fault, TypeOK
  <2>5. UNCHANGED <<through, present, orchestrator, lost>>
    BY <1>3 DEF RecentAsked
  <2> QED BY <2>3, <2>4, <2>5 DEF TypeOK, Statuses, orchestrator, CompleteRowsAreLoaded, ServingIsARange, ServingIsLoaded
<1>4. ASSUME NEW r \in inbox, Deliver(r) PROVE RepairIInv'
  BY <1>4 DEF Deliver, TypeOK, progress, CompleteRowsAreLoaded, ServingIsARange, ServingIsLoaded
<1>5. CASE StepStarts
  <2>1. Write({intent}, "running") /\ "running" \in Statuses
    BY <1>5 DEF StepStarts, Statuses
  <2>2. /\ row' \in [Ranges -> Statuses] /\ stale' \in [Ranges -> BOOLEAN]
        /\ \A g \in Ranges : row'[g] = "complete" => row[g] = "complete"
    BY <2>1, WriteKeeps
  <2>3. pc' = "sales" /\ serving' \in Ranges
    BY <1>5 DEF StepStarts, TypeOK
  <2> QED BY <1>5, <2>2, <2>3 DEF StepStarts, TypeOK, Statuses, CompleteRowsAreLoaded, ServingIsARange, ServingIsLoaded
<1>6. CASE SalesAnswered
  <2>1. Write({serving}, "complete") /\ "complete" \in Statuses
    BY <1>6 DEF SalesAnswered, Statuses
  <2>2. /\ row' \in [Ranges -> Statuses] /\ stale' \in [Ranges -> BOOLEAN]
        /\ \A g \in Ranges : row'[g] = "complete" => row[g] = "complete" \/ g = serving
    BY <2>1, WriteKeeps
  <2>3. present' = present \cup (Days(serving) \cap HasSales) /\ pc' = "ads"
        /\ UNCHANGED <<through, inbox, intent, halted, serving, lost, faults, requests>>
    BY <1>6 DEF SalesAnswered
  <2>4. serving \in Ranges
    BY <1>6 DEF SalesAnswered, ServingIsARange
  <2> QED BY <2>2, <2>3, <2>4 DEF TypeOK, Statuses, CompleteRowsAreLoaded, ServingIsARange, ServingIsLoaded
<1>7. CASE SalesSwallowed
  <2>1. serving \in Ranges
    BY <1>7 DEF SalesSwallowed, ServingIsARange
  <2>2. lost' = lost \cup Days(serving) /\ lost' \subseteq 1..MaxDay
    BY <1>7, <2>1, DaysOfARange DEF SalesSwallowed, TypeOK
  <2>3. faults' \in 0..MaxFaults
    BY <1>7, FaultsStayBounded DEF SalesSwallowed, Fault
  <2> QED BY <1>7, <2>1, <2>2, <2>3 DEF SalesSwallowed, progress, TypeOK, CompleteRowsAreLoaded, ServingIsARange, ServingIsLoaded
<1>8. CASE SalesRefused
  <2>1. faults' \in 0..MaxFaults
    BY <1>8, FaultsStayBounded DEF SalesRefused, Fault
  <2> QED BY <1>8, <2>1 DEF SalesRefused, progress, TypeOK, CompleteRowsAreLoaded, ServingIsARange, ServingIsLoaded
<1>9. CASE AdsDone
  <2>1. serving \in Ranges /\ Days(serving) \cap HasSales \subseteq present \cup lost
    BY <1>9 DEF AdsDone, ServingIsARange, ServingIsLoaded
  <2>2. row' \in [Ranges -> Statuses] /\ stale' \in [Ranges -> BOOLEAN]
    BY <1>0, <1>9 DEF AdsDone, Statuses
  <2>3. \A g \in Ranges : row'[g] = "complete" => row[g] = "complete" \/ g = serving
    BY <1>0, <1>9 DEF AdsDone
  <2> QED BY <1>9, <2>1, <2>2, <2>3 DEF AdsDone, TypeOK, Statuses, CompleteRowsAreLoaded, ServingIsARange, ServingIsLoaded
<1>10. CASE StepSaves
  BY <1>10 DEF StepSaves, progress, TypeOK, CompleteRowsAreLoaded, ServingIsARange, ServingIsLoaded
<1>11. CASE WorkerCrashes
  <2>1. faults' \in 0..MaxFaults
    BY <1>11, FaultsStayBounded DEF WorkerCrashes, Fault
  <2> QED BY <1>11, <2>1 DEF WorkerCrashes, progress, TypeOK, CompleteRowsAreLoaded, ServingIsARange, ServingIsLoaded
<1>12. CASE TenMinutesPass
  <2>1. stale' \in [Ranges -> BOOLEAN]
    BY <1>12 DEF TenMinutesPass
  <2> QED BY <1>12, <2>1 DEF TenMinutesPass, orchestrator, TypeOK, CompleteRowsAreLoaded, ServingIsARange, ServingIsLoaded
<1>13. CASE MidnightPasses
  BY <1>13, DaysAssumption DEF MidnightPasses, progress, orchestrator, TypeOK, CompleteRowsAreLoaded, ServingIsARange, ServingIsLoaded
<1>14. CASE UNCHANGED vars
  BY <1>14 DEF vars, progress, orchestrator, TypeOK, CompleteRowsAreLoaded, ServingIsARange, ServingIsLoaded
<1> QED BY <1>1, <1>2, <1>3, <1>4, <1>5, <1>6, <1>7, <1>8, <1>9, <1>10, <1>11, <1>12, <1>13, <1>14
         DEF Next, Step

(* A row says complete only of days that are loaded or fell to an error that  *)
(* sync_sales swallowed, whatever fails and whoever asks (tasks.py 1024-1069). *)
THEOREM RepairHolds == Spec => []RepairInv
<1>1. RepairIInv => RepairInv
  BY DEF RepairIInv
<1> QED BY RepairInit, RepairStep, <1>1, PTL DEF Spec

--------------------------------------------------------------------------------
(* The year of the funnel.  Nothing keeps two chains apart, so what makes it  *)
(* inductive holds of each chain alone: the days after the one a worker is at *)
(* are answered, whoever moves the row meanwhile; and messages and busy       *)
(* workers together are no more than the clicks.                              *)

BusyWorkers == {w \in FunnelWorkers : Busy(w)}
ChainsAreClicks == chains + Cardinality(BusyWorkers) <= clicks

DayStep == [pc : {"day", "end"}, day : FunnelDays, low : FunnelDays, high : FunnelDays]
StepType == ytdStep \in [FunnelWorkers -> {Resting, [pc |-> "plan"]} \cup DayStep]

(* Days after the one a worker is at are answered.                            *)
DaysBehindAreAnswered ==
  \A w \in FunnelWorkers :
    /\ ytdStep[w].pc = "day" => (ytdStep[w].day + 1) .. Yesterday \subseteq answered
    /\ ytdStep[w].pc = "end" => ytdStep[w].day .. Yesterday \subseteq answered

FunnelIInv == FunnelInv /\ StepType /\ ChainsAreClicks /\ DaysBehindAreAnswered

--------------------------------------------------------------------------------
(* A worker that begins is one more, one that rests is one less.              *)
LEMMA BusyCount ==
  /\ Cardinality(BusyWorkers) \in Nat
  /\ \A w \in FunnelWorkers : Busy(w) => Cardinality(BusyWorkers) >= 1
  /\ \A w \in FunnelWorkers \ BusyWorkers :
       Cardinality(BusyWorkers \cup {w}) = Cardinality(BusyWorkers) + 1
  /\ \A w \in BusyWorkers : Cardinality(BusyWorkers \ {w}) = Cardinality(BusyWorkers) - 1
<1>1. IsFiniteSet(BusyWorkers)
  BY FunnelYearAssumption, FS_Subset DEF BusyWorkers
<1>2. Cardinality(BusyWorkers) \in Nat
  BY <1>1, FS_CardinalityType
<1>3. BusyWorkers # {} => Cardinality(BusyWorkers) >= 1
  BY <1>1, <1>2, FS_EmptySet
<1> QED BY <1>1, <1>2, <1>3, FS_AddElement, FS_RemoveElement DEF BusyWorkers

(* A worker that begins is one busy worker more.                              *)
LEMMA BusyBegins ==
  ASSUME StepType, NEW w \in FunnelWorkers, NEW s \in {[pc |-> "plan"]} \cup DayStep,
         ytdStep' = [ytdStep EXCEPT ![w] = s]
  PROVE  BusyWorkers' = BusyWorkers \cup {w}
BY DEF StepType, BusyWorkers, Busy, Resting, DayStep

(* A worker that rests is one less.                                           *)
LEMMA BusyRests ==
  ASSUME StepType, NEW w \in FunnelWorkers, Rest(w)
  PROVE  BusyWorkers' = BusyWorkers \ {w}
BY DEF StepType, BusyWorkers, Busy, Rest

(* Chains, clicks and busy workers, each action by what it does to the three. *)
LEMMA ChainsStep ==
  ASSUME FunnelTypeOK, StepType, ChainsAreClicks, [FunnelNext]_funnelVars
  PROVE  /\ ChainsAreClicks' /\ StepType'
         /\ chains' \in 0..MaxClicks /\ clicks' \in 0..MaxClicks
<1>0. /\ chains \in Nat /\ clicks \in Nat /\ clicks <= MaxClicks /\ MaxClicks \in Nat
      /\ Cardinality(BusyWorkers) \in Nat /\ Cardinality(BusyWorkers)' \in Nat
      /\ Yesterday \in Nat \ {0} /\ FUNNEL_YTD_DAYS_PER_RUN \in Nat \ {0}
  <2>1. IsFiniteSet(BusyWorkers')
    BY FunnelYearAssumption, FS_Subset DEF BusyWorkers
  <2> QED BY <2>1, FS_CardinalityType, BusyCount, FunnelYearAssumption DEF FunnelTypeOK
<1> DEFINE Goal == /\ ChainsAreClicks' /\ StepType'
                   /\ chains' \in 0..MaxClicks /\ clicks' \in 0..MaxClicks
<1>1. CASE Click
  BY <1>0, <1>1 DEF Click, ChainsAreClicks, BusyWorkers, Busy, StepType
<1>2. ASSUME NEW w \in FunnelWorkers, NothingToAsk(w) PROVE Goal
  BY <1>0, <1>2 DEF NothingToAsk, ChainsAreClicks, BusyWorkers, Busy, StepType
<1>3. ASSUME NEW w \in FunnelWorkers, YtdBegins(w) PROVE Goal
  <2>1. Cardinality(BusyWorkers)' = Cardinality(BusyWorkers) + 1
    BY <1>3, BusyBegins, BusyCount DEF YtdBegins, BusyWorkers
  <2>2. StepType'
    BY <1>3 DEF YtdBegins, StepType
  <2> QED BY <1>0, <1>3, <2>1, <2>2 DEF YtdBegins, ChainsAreClicks
<1>4. ASSUME NEW w \in FunnelWorkers, Busy(w), Rest(w), chains' \in {chains, chains + 1}, UNCHANGED clicks
      PROVE Goal
  <2>1. Cardinality(BusyWorkers)' = Cardinality(BusyWorkers) - 1
    BY <1>4, BusyRests, BusyCount DEF BusyWorkers
  <2>2. StepType'
    BY <1>4 DEF Rest, StepType
  <2> QED BY <1>0, <1>4, <2>1, <2>2 DEF ChainsAreClicks
<1>5. ASSUME NEW w \in FunnelWorkers, Busy(w), NEW s \in DayStep,
             ytdStep' = [ytdStep EXCEPT ![w] = s], UNCHANGED <<chains, clicks>>
      PROVE Goal
  <2>1. BusyWorkers' = BusyWorkers
    BY <1>5, BusyBegins DEF BusyWorkers
  <2>2. StepType'
    BY <1>5 DEF StepType
  <2> QED BY <1>0, <1>5, <2>1, <2>2 DEF ChainsAreClicks
<1>6. ASSUME NEW w \in FunnelWorkers, YtdPlans(w) PROVE Goal
  <2>1. Busy(w)
    BY <1>6 DEF YtdPlans, Busy, Resting
  <2>2. CASE Cursor < 1
    BY <1>4, <1>6, <2>1, <2>2 DEF YtdPlans
  <2>3. CASE ~(Cursor < 1)
    <3>1. Cursor \in FunnelDays /\ Oldest(Cursor) \in FunnelDays
      <4>1. Cursor \in FunnelDays
        BY <1>0, <2>3 DEF Cursor, FunnelTypeOK, YtdRow, FunnelDays, NoDay
      <4>2. \A day \in FunnelDays : Oldest(day) \in FunnelDays
        BY <1>0 DEF Oldest, FunnelDays
      <4> QED BY <4>1, <4>2
    <3>2. [pc |-> "day", day |-> Cursor, low |-> Oldest(Cursor), high |-> Cursor] \in DayStep
      BY <3>1 DEF DayStep
    <3> QED BY <1>5, <1>6, <2>1, <2>3, <3>2 DEF YtdPlans
  <2> QED BY <2>2, <2>3
<1>7. ASSUME NEW w \in FunnelWorkers, DayIsServed(w) PROVE Goal
  <2>1. Busy(w) /\ ytdStep[w] \in DayStep
    BY <1>7 DEF DayIsServed, Busy, Resting, StepType
  <2>2. CASE ytdStep[w].day > ytdStep[w].low
    <3>1. [ytdStep[w] EXCEPT !.day = @ - 1] \in DayStep
      BY <1>0, <2>1, <2>2 DEF DayStep, FunnelDays
    <3> QED BY <1>5, <1>7, <2>1, <2>2, <3>1 DEF DayIsServed
  <2>3. CASE ~(ytdStep[w].day > ytdStep[w].low)
    <3>1. [ytdStep[w] EXCEPT !.pc = "end"] \in DayStep
      BY <2>1 DEF DayStep
    <3> QED BY <1>5, <1>7, <2>1, <2>3, <3>1 DEF DayIsServed
  <2> QED BY <2>2, <2>3
<1>8. ASSUME NEW w \in FunnelWorkers, BatchEnds(w) PROVE Goal
  BY <1>4, <1>8 DEF BatchEnds, Busy, Resting
<1>9. ASSUME NEW w \in FunnelWorkers, NEW code, YtdRefused(w, code) PROVE Goal
  BY <1>4, <1>9 DEF YtdRefused, Asking, Busy, Resting
<1>10. ASSUME NEW w \in FunnelWorkers, YtdFails(w) \/ YtdDies(w) PROVE Goal
  BY <1>4, <1>10 DEF YtdFails, YtdDies
<1>11. ASSUME UNCHANGED <<chains, clicks, ytdStep>> PROVE Goal
  BY <1>0, <1>11 DEF ChainsAreClicks, BusyWorkers, Busy, StepType
<1> QED BY <1>1, <1>2, <1>3, <1>6, <1>7, <1>8, <1>9, <1>10, <1>11
        DEF FunnelNext, YtdStep, YtdFaults, RepairsStuck, MinutesPass, CatalogueFills, funnelVars

--------------------------------------------------------------------------------
(* What is answered for stays so.                                             *)
LEMMA AnsweredGrows ==
  ASSUME [FunnelNext]_funnelVars
  PROVE  answered \subseteq answered'
BY DEF FunnelNext, YtdStep, YtdFaults, Click, RepairsStuck, MinutesPass, CatalogueFills, NothingToAsk,
       YtdBegins, YtdPlans, DayIsServed, BatchEnds, YtdRefused, YtdFails, YtdDies, funnelVars, funnelHistory

(* The row's date moves to a day that a worker has just served, or back to    *)
(* none; the row gets complete only where the year's first day is reached.    *)
LEMMA RowStep ==
  ASSUME FunnelTypeOK, [FunnelNext]_funnelVars
  PROVE  /\ \/ ytd'.last = ytd.last \/ ytd'.last = NoDay
            \/ \E w \in FunnelWorkers : DayIsServed(w) /\ ytd'.last = ytdStep[w].day
         /\ ytd'.status = "complete" => ytd.status = "complete" \/ ytd.last = 1
<1> USE DEF FunnelTypeOK, YtdRow, Update, NoDay
<1>1. ASSUME NEW w \in FunnelWorkers, NothingToAsk(w) PROVE ytd'.last = ytd.last /\ ytd'.status \in {"idle", ytd.status}
  BY <1>1 DEF NothingToAsk
<1>2. ASSUME NEW w \in FunnelWorkers, YtdBegins(w) PROVE ytd'.last \in {ytd.last, NoDay} /\ ytd'.status = "running"
  BY <1>2 DEF YtdBegins, AsFound
<1>3. ASSUME NEW w \in FunnelWorkers, YtdPlans(w)
      PROVE ytd'.last = ytd.last /\ (ytd'.status = "complete" => ytd.status = "complete" \/ ytd.last = 1)
  <2>1. CASE Cursor < 1
    <3>1. ytd.last = 1
      BY <2>1, FunnelYearAssumption DEF Cursor, FunnelDays
    <3> QED BY <1>3, <2>1, <3>1 DEF YtdPlans
  <2>2. CASE ~(Cursor < 1)
    BY <1>3, <2>2 DEF YtdPlans
  <2> QED BY <2>1, <2>2
<1>4. ASSUME NEW w \in FunnelWorkers, DayIsServed(w)
      PROVE ytd'.last = ytdStep[w].day /\ ytd'.status = ytd.status
  BY <1>4 DEF DayIsServed
<1>5. ASSUME NEW w \in FunnelWorkers, BatchEnds(w)
      PROVE ytd'.last = ytd.last /\ (ytd'.status = "complete" => ytd.status = "complete" \/ ytd.last = 1)
  BY <1>5 DEF BatchEnds
<1>6. ASSUME NEW w \in FunnelWorkers, NEW code, YtdRefused(w, code)
      PROVE ytd'.last = ytd.last /\ ytd'.status = "running"
  BY <1>6 DEF YtdRefused
<1>7. ASSUME NEW w \in FunnelWorkers, YtdFails(w) PROVE ytd'.last = ytd.last /\ ytd'.status = "error"
  BY <1>7 DEF YtdFails
<1>8. CASE RepairsStuck
  BY <1>8 DEF RepairsStuck
<1> QED BY <1>1, <1>2, <1>3, <1>4, <1>5, <1>6, <1>7, <1>8
        DEF FunnelNext, YtdStep, YtdFaults, Click, MinutesPass, CatalogueFills, YtdDies, funnelVars

(* No day is passed over, and the days after a worker's day are answered.     *)
LEMMA PassedStep ==
  ASSUME FunnelTypeOK, StepType, PassedFunnelDaysAreAnswered, DaysBehindAreAnswered,
         answered' \subseteq FunnelDays, [FunnelNext]_funnelVars
  PROVE  PassedFunnelDaysAreAnswered' /\ DaysBehindAreAnswered'
<1>0. Yesterday \in Nat \ {0} /\ answered \subseteq answered'
  BY FunnelYearAssumption, AnsweredGrows
<1>1. ASSUME NEW w \in FunnelWorkers, DayIsServed(w)
      PROVE ytdStep[w] \in DayStep /\ ytdStep[w].day .. Yesterday \subseteq answered'
  <2>1. ytdStep[w] \in DayStep /\ ytdStep[w].pc = "day"
    BY <1>1 DEF DayIsServed, Resting, StepType
  <2>2. (ytdStep[w].day + 1) .. Yesterday \subseteq answered /\ ytdStep[w].day \in answered'
    BY <1>1, <2>1 DEF DayIsServed, DaysBehindAreAnswered
  <2> QED BY <1>0, <2>1, <2>2 DEF DayStep, FunnelDays
<1>2. PassedFunnelDaysAreAnswered'
  <2>1. ytd'.last # NoDay => ytd'.last .. Yesterday \subseteq answered'
    BY <1>0, <1>1, RowStep DEF PassedFunnelDaysAreAnswered
  <2>2. ASSUME ytd'.status = "complete" PROVE answered' = FunnelDays
    <3>1. ytd.status = "complete" \/ ytd.last = 1
      BY <2>2, RowStep
    <3>2. FunnelDays \subseteq answered
      <4>1. CASE ytd.status = "complete"
        BY <4>1 DEF PassedFunnelDaysAreAnswered
      <4>2. CASE ytd.last = 1
        BY <4>2 DEF PassedFunnelDaysAreAnswered, FunnelDays, NoDay
      <4> QED BY <3>1, <4>1, <4>2
    <3> QED BY <1>0, <3>2
  <2> QED BY <2>1, <2>2 DEF PassedFunnelDaysAreAnswered
<1>3. DaysBehindAreAnswered'
  <2>1. SUFFICES ASSUME NEW w \in FunnelWorkers
                 PROVE  /\ ytdStep'[w].pc = "day" => (ytdStep'[w].day + 1) .. Yesterday \subseteq answered'
                        /\ ytdStep'[w].pc = "end" => ytdStep'[w].day .. Yesterday \subseteq answered'
    BY DEF DaysBehindAreAnswered
  <2>2. CASE ytdStep'[w] = ytdStep[w]
    BY <1>0, <2>2 DEF DaysBehindAreAnswered
  <2>3. CASE ytdStep'[w] \in {Resting, [pc |-> "plan"]}
    BY <2>3 DEF Resting
  <2>4. CASE YtdPlans(w)
    <3>1. CASE Cursor < 1
      BY <2>4, <3>1, <2>3 DEF YtdPlans, Rest, StepType
    <3>2. CASE ~(Cursor < 1)
      <4>1. ytdStep'[w] = [pc |-> "day", day |-> Cursor, low |-> Oldest(Cursor), high |-> Cursor]
        BY <2>4, <3>2 DEF YtdPlans, StepType
      <4>2. (Cursor + 1) .. Yesterday \subseteq answered
        BY <1>0 DEF Cursor, PassedFunnelDaysAreAnswered, FunnelTypeOK, YtdRow, NoDay, FunnelDays
      <4> QED BY <1>0, <4>1, <4>2
    <3> QED BY <3>1, <3>2
  <2>5. CASE DayIsServed(w)
    <3>1. ytdStep[w] \in DayStep /\ ytdStep[w].day .. Yesterday \subseteq answered' /\ ytdStep[w].pc = "day"
      BY <1>1, <2>5 DEF DayIsServed
    <3>2. CASE ytdStep[w].day > ytdStep[w].low
      <4>1. ytdStep'[w].pc = "day" /\ ytdStep'[w].day = ytdStep[w].day - 1
        BY <2>5, <3>1, <3>2 DEF DayIsServed, StepType, DayStep
      <4> QED BY <1>0, <3>1, <4>1 DEF DayStep, FunnelDays
    <3>3. CASE ~(ytdStep[w].day > ytdStep[w].low)
      <4>1. ytdStep'[w].pc = "end" /\ ytdStep'[w].day = ytdStep[w].day
        BY <2>5, <3>1, <3>3 DEF DayIsServed, StepType, DayStep
      <4> QED BY <3>1, <4>1
    <3> QED BY <3>2, <3>3
  <2>6. \/ ytdStep'[w] = ytdStep[w] \/ ytdStep'[w] \in {Resting, [pc |-> "plan"]}
        \/ YtdPlans(w) \/ DayIsServed(w)
    BY DEF FunnelNext, YtdStep, YtdFaults, Click, RepairsStuck, MinutesPass, CatalogueFills, NothingToAsk,
           YtdBegins, YtdPlans, DayIsServed, BatchEnds, YtdRefused, YtdFails, YtdDies, funnelVars, Rest, StepType
  <2> QED BY <2>2, <2>3, <2>4, <2>5, <2>6
<1> QED BY <1>2, <1>3

(* Whatever is written, the funnel has the best count told of.                *)
LEMMA BestStep ==
  ASSUME FunnelTypeOK, FunnelKeepsBest, [FunnelNext]_funnelVars
  PROVE  /\ FunnelKeepsBest'
         /\ funnel' \in [FunnelDays -> 0..MaxFigure]
<1>1. ASSUME NEW days, NEW v \in 0..MaxFigure, Upsert(days, v)
      PROVE funnel' = best' /\ funnel' \in [FunnelDays -> 0..MaxFigure]
  BY <1>1 DEF Upsert, FunnelTypeOK, FunnelKeepsBest
<1>2. (\A days : \A v \in 0..MaxFigure : ~Upsert(days, v)) => UNCHANGED <<funnel, best>>
  BY DEF FunnelNext, YtdStep, YtdFaults, Click, RepairsStuck, MinutesPass, CatalogueFills, NothingToAsk,
         YtdBegins, YtdPlans, DayIsServed, BatchEnds, YtdRefused, YtdFails, YtdDies, funnelVars, funnelHistory
<1> QED BY <1>1, <1>2 DEF FunnelKeepsBest, FunnelTypeOK

(* A chain that goes on running leaves a message behind; a worker that dies   *)
(* is remembered.                                                             *)
LEMMA RunningStep ==
  ASSUME FunnelTypeOK, StepType, RunningHasChain, [FunnelNext]_funnelVars
  PROVE  RunningHasChain'
<1>0. SUFFICES ASSUME ytd'.status = "running"
               PROVE  died' \/ chains' > 0 \/ \E w \in FunnelWorkers : ytdStep'[w] # Resting
  BY DEF RunningHasChain, Busy
<1> USE DEF FunnelTypeOK, YtdRow, Update, Busy
<1>a. chains \in Nat
  BY FunnelYearAssumption
<1>1. ASSUME NEW w \in FunnelWorkers, YtdBegins(w) PROVE ytdStep'[w] # Resting
  BY <1>1 DEF YtdBegins, Resting, StepType
<1>2. ASSUME NEW w \in FunnelWorkers, DayIsServed(w) PROVE ytdStep'[w] # Resting
  <2>1. ytdStep[w] \in DayStep
    BY <1>2 DEF DayIsServed, Resting, StepType
  <2>2. ytdStep'[w] \in {[ytdStep[w] EXCEPT !.day = @ - 1], [ytdStep[w] EXCEPT !.pc = "end"]}
    BY <1>2 DEF DayIsServed, StepType
  <2>3. ytdStep'[w].pc \in {"day", "end"}
    BY <2>1, <2>2 DEF DayStep
  <2> QED BY <2>3 DEF Resting
<1>3. ASSUME NEW w \in FunnelWorkers, YtdPlans(w) PROVE ytdStep'[w] # Resting
  <2>1. ~(Cursor < 1)
    BY <1>0, <1>3 DEF YtdPlans
  <2>2. ytdStep'[w].pc = "day"
    BY <1>3, <2>1 DEF YtdPlans, StepType
  <2> QED BY <2>2 DEF Resting
<1>4. ASSUME NEW w \in FunnelWorkers, BatchEnds(w) PROVE chains' > 0
  <2>1. CASE ytd.last = 1
    <3>1. ytd' = [ytd EXCEPT !.status = "complete", !.marker = NoMarker]
      BY <1>4, <2>1 DEF BatchEnds
    <3> QED BY <1>0, <3>1
  <2>2. CASE ytd.last # 1
    BY <1>a, <1>4, <2>2 DEF BatchEnds
  <2> QED BY <2>1, <2>2
<1>5. ASSUME NEW w \in FunnelWorkers, NEW code, YtdRefused(w, code) PROVE chains' > 0
  BY <1>a, <1>5 DEF YtdRefused
<1>6. ASSUME NEW w \in FunnelWorkers, YtdFails(w) PROVE FALSE
  BY <1>0, <1>6 DEF YtdFails
<1>7. ASSUME NEW w \in FunnelWorkers, YtdDies(w) PROVE died'
  BY <1>7 DEF YtdDies
<1>8. ASSUME NEW w \in FunnelWorkers, NothingToAsk(w)
      PROVE died' \/ chains' > 0 \/ \E g \in FunnelWorkers : ytdStep'[g] # Resting
  <2>1. CASE IsComplete(AsFound)
    BY <1>0, <1>8, <2>1 DEF NothingToAsk, IsComplete, AsFound
  <2>2. CASE ~IsComplete(AsFound)
    BY <1>0, <1>8, <2>2 DEF NothingToAsk
  <2> QED BY <2>1, <2>2
<1>9. CASE RepairsStuck
  BY <1>0, <1>9 DEF RepairsStuck
<1>10. CASE Click
  BY <1>0, <1>a, <1>10 DEF Click, RunningHasChain, funnelHistory
<1>11. CASE MinutesPass \/ CatalogueFills \/ UNCHANGED funnelVars
  BY <1>0, <1>11 DEF MinutesPass, CatalogueFills, RunningHasChain, funnelHistory, funnelVars
<1> QED BY <1>1, <1>2, <1>3, <1>4, <1>5, <1>6, <1>7, <1>8, <1>9, <1>10, <1>11
        DEF FunnelNext, YtdStep, YtdFaults

--------------------------------------------------------------------------------
(* What is left of the types: the row with its marker, and the histories.     *)
LEMMA RowTypeStep ==
  ASSUME FunnelTypeOK, StepType, [FunnelNext]_funnelVars
  PROVE  ytd' \in YtdRow /\ age' \in {"fresh", "old", "stuck"}
<1>0. /\ ytd \in YtdRow /\ age \in {"fresh", "old", "stuck"}
      /\ NoMarker \in Markers /\ "retry_scheduled" \in Markers /\ "text" \in Markers
  BY DEF FunnelTypeOK, Markers
<1>1. \A s \in {"idle", "running", "complete", "error"}, m \in Markers :
        /\ [ytd EXCEPT !.status = s] \in YtdRow /\ [ytd EXCEPT !.status = s, !.marker = m] \in YtdRow
  BY <1>0 DEF YtdRow
<1>2. ASSUME NEW new \in YtdRow, Update(new) PROVE ytd' \in YtdRow /\ age' \in {"fresh", "old", "stuck"}
  BY <1>0, <1>2 DEF Update
<1>3. ASSUME NEW w \in FunnelWorkers, NothingToAsk(w)
      PROVE ytd' \in YtdRow /\ age' \in {"fresh", "old", "stuck"}
  BY <1>0, <1>1, <1>2, <1>3 DEF NothingToAsk
<1>4. ASSUME NEW w \in FunnelWorkers, YtdBegins(w)
      PROVE ytd' \in YtdRow /\ age' \in {"fresh", "old", "stuck"}
  <2>1. AsFound \in YtdRow
    BY <1>0 DEF AsFound, YtdRow
  <2>2. [AsFound EXCEPT !.status = "running"] \in YtdRow
    BY <2>1 DEF YtdRow
  <2> QED BY <1>2, <1>4, <2>2 DEF YtdBegins
<1>5. ASSUME NEW w \in FunnelWorkers, YtdPlans(w) \/ BatchEnds(w) \/ YtdFails(w)
      PROVE ytd' \in YtdRow /\ age' \in {"fresh", "old", "stuck"}
  BY <1>0, <1>1, <1>2, <1>5 DEF YtdPlans, BatchEnds, YtdFails
<1>6. ASSUME NEW w \in FunnelWorkers, DayIsServed(w)
      PROVE ytd' \in YtdRow /\ age' \in {"fresh", "old", "stuck"}
  <2>1. ytdStep[w].day \in FunnelDays
    BY <1>6 DEF DayIsServed, Resting, StepType, DayStep
  <2>2. [ytd EXCEPT !.last = ytdStep[w].day, !.marker = NoMarker] \in YtdRow
    BY <1>0, <2>1 DEF YtdRow
  <2> QED BY <1>6, <2>2 DEF DayIsServed
<1>7. ASSUME NEW w \in FunnelWorkers, NEW code \in FUNNEL_YTD_HTTP_RETRY_CODES, YtdRefused(w, code)
      PROVE ytd' \in YtdRow /\ age' \in {"fresh", "old", "stuck"}
  <2>1. code \in Markers
    BY DEF Markers
  <2> QED BY <1>1, <1>2, <1>7, <2>1 DEF YtdRefused
<1>8. CASE RepairsStuck
  BY <1>0, <1>1, <1>2, <1>8 DEF RepairsStuck
<1>9. CASE MinutesPass
  BY <1>0, <1>9 DEF MinutesPass
<1> QED BY <1>0, <1>3, <1>4, <1>5, <1>6, <1>7, <1>8, <1>9
        DEF FunnelNext, YtdStep, YtdFaults, Click, CatalogueFills, YtdDies, funnelVars

(* The types of the histories, the faults and the catalogue.                  *)
LEMMA HistoryTypeStep ==
  ASSUME FunnelTypeOK, StepType, [FunnelNext]_funnelVars
  PROVE  /\ catalogue' \in BOOLEAN /\ died' \in BOOLEAN /\ funnelFaults' \in 0..FunnelFaults
         /\ answered' \subseteq FunnelDays /\ unshown' \subseteq FunnelDays
<1>0. FunnelFaults \in Nat
  BY FunnelYearAssumption
<1>1. funnelFaults' \in 0..FunnelFaults
  <2>1. FunnelFault => funnelFaults' \in 0..FunnelFaults
    BY <1>0 DEF FunnelFault, FunnelTypeOK
  <2>2. FunnelFault \/ UNCHANGED funnelFaults
    BY DEF FunnelNext, YtdStep, YtdFaults, Click, RepairsStuck, MinutesPass, CatalogueFills, NothingToAsk,
       YtdBegins, YtdPlans, DayIsServed, BatchEnds, YtdRefused, YtdFails, YtdDies, funnelVars
  <2> QED BY <2>1, <2>2 DEF FunnelTypeOK
<1>2. catalogue' \in BOOLEAN /\ died' \in BOOLEAN
  BY DEF FunnelTypeOK, FunnelNext, YtdStep, YtdFaults, Click, RepairsStuck, MinutesPass, CatalogueFills,
     NothingToAsk, YtdBegins, YtdPlans, DayIsServed, BatchEnds, YtdRefused, YtdFails, YtdDies, funnelVars,
     funnelHistory
<1>3. answered' \subseteq FunnelDays
  <2>1. ASSUME NEW w \in FunnelWorkers, DayIsServed(w) PROVE answered' \subseteq FunnelDays
    <3>1. ytdStep[w].day \in FunnelDays
      BY <2>1 DEF DayIsServed, Resting, StepType, DayStep
    <3> QED BY <2>1, <3>1 DEF DayIsServed, FunnelTypeOK
  <2> QED BY <2>1 DEF FunnelTypeOK, FunnelNext, YtdStep, YtdFaults, Click, RepairsStuck, MinutesPass,
      CatalogueFills, NothingToAsk, YtdBegins, YtdPlans, BatchEnds, YtdRefused, YtdFails, YtdDies, funnelVars,
      funnelHistory
<1>4. unshown' \subseteq FunnelDays
  BY DEF FunnelTypeOK, Changed, FunnelNext, YtdStep, YtdFaults, Click, RepairsStuck, MinutesPass,
     CatalogueFills, NothingToAsk, YtdBegins, YtdPlans, DayIsServed, BatchEnds, YtdRefused, YtdFails, YtdDies,
     funnelVars, funnelHistory
<1> QED BY <1>1, <1>2, <1>3, <1>4

(* A batch lies between its ends: its day only comes down to its lowest.      *)
LEMMA BatchStep ==
  ASSUME FunnelTypeOK, StepType, [FunnelNext]_funnelVars, NEW w \in FunnelWorkers
  PROVE  ytdStep'[w] \in DayStep =>
           ytdStep'[w].low <= ytdStep'[w].day /\ ytdStep'[w].day <= ytdStep'[w].high
<1>0. /\ Yesterday \in Nat \ {0} /\ FUNNEL_YTD_DAYS_PER_RUN \in Nat \ {0}
      /\ ytdStep[w] \in DayStep => ytdStep[w].low <= ytdStep[w].day /\ ytdStep[w].day <= ytdStep[w].high
  BY FunnelYearAssumption DEF FunnelTypeOK, DayStep, Resting
<1>1. CASE ytdStep'[w] = ytdStep[w]
  BY <1>0, <1>1
<1>2. CASE ytdStep'[w] \in {Resting, [pc |-> "plan"]}
  BY <1>2 DEF Resting, DayStep
<1>3. CASE YtdPlans(w)
  <2>1. CASE Cursor < 1
    BY <1>2, <1>3, <2>1 DEF YtdPlans, Rest, StepType
  <2>2. CASE ~(Cursor < 1)
    <3>1. ytdStep'[w] = [pc |-> "day", day |-> Cursor, low |-> Oldest(Cursor), high |-> Cursor]
      BY <1>3, <2>2 DEF YtdPlans, StepType
    <3>2. Cursor \in Nat /\ Oldest(Cursor) <= Cursor
      BY <1>0, <2>2 DEF Cursor, Oldest, FunnelTypeOK, YtdRow, FunnelDays, NoDay
    <3> QED BY <3>1, <3>2
  <2> QED BY <2>1, <2>2
<1>4. CASE DayIsServed(w)
  <2>1. ytdStep[w] \in DayStep
    BY <1>4 DEF DayIsServed, Resting, StepType
  <2>2. CASE ytdStep[w].day > ytdStep[w].low
    <3>1. ytdStep'[w] = [ytdStep[w] EXCEPT !.day = @ - 1]
      BY <1>4, <2>2 DEF DayIsServed, StepType
    <3> QED BY <1>0, <2>1, <2>2, <3>1 DEF DayStep, FunnelDays
  <2>3. CASE ~(ytdStep[w].day > ytdStep[w].low)
    <3>1. ytdStep'[w] = [ytdStep[w] EXCEPT !.pc = "end"]
      BY <1>4, <2>3 DEF DayIsServed, StepType
    <3> QED BY <1>0, <2>1, <3>1 DEF DayStep, FunnelDays
  <2> QED BY <2>2, <2>3
<1>5. \/ ytdStep'[w] = ytdStep[w] \/ ytdStep'[w] \in {Resting, [pc |-> "plan"]}
      \/ YtdPlans(w) \/ DayIsServed(w)
  BY DEF FunnelNext, YtdStep, YtdFaults, Click, RepairsStuck, MinutesPass, CatalogueFills, NothingToAsk,
         YtdBegins, YtdPlans, DayIsServed, BatchEnds, YtdRefused, YtdFails, YtdDies, funnelVars, Rest, StepType
<1> QED BY <1>1, <1>2, <1>3, <1>4, <1>5

(* The types of the year, whatever step is taken.                             *)
LEMMA FunnelTypeStep ==
  ASSUME FunnelIInv, [FunnelNext]_funnelVars
  PROVE  FunnelTypeOK' /\ StepType' /\ ChainsAreClicks'
<1>1. FunnelTypeOK /\ StepType /\ ChainsAreClicks /\ FunnelKeepsBest
  BY DEF FunnelIInv, FunnelInv
<1>2. /\ ytd' \in YtdRow /\ age' \in {"fresh", "old", "stuck"}
      /\ funnel' \in [FunnelDays -> 0..MaxFigure] /\ best' \in [FunnelDays -> 0..MaxFigure]
      /\ chains' \in 0..MaxClicks /\ clicks' \in 0..MaxClicks /\ StepType' /\ ChainsAreClicks'
  BY <1>1, RowTypeStep, BestStep, ChainsStep DEF FunnelKeepsBest
<1>3. \A w \in FunnelWorkers :
        \/ ytdStep'[w] \in {Resting, [pc |-> "plan"]}
        \/ /\ ytdStep'[w] \in [pc : {"day", "end"}, day : FunnelDays, low : FunnelDays, high : FunnelDays]
           /\ ytdStep'[w].low <= ytdStep'[w].day /\ ytdStep'[w].day <= ytdStep'[w].high
  BY <1>1, <1>2, BatchStep DEF StepType, DayStep
<1> QED BY <1>1, <1>2, <1>3, HistoryTypeStep DEF FunnelTypeOK

(* A year starts with nothing answered and nobody busy.                       *)
LEMMA FunnelStart == FunnelInit => FunnelIInv
<1> SUFFICES ASSUME FunnelInit PROVE FunnelIInv
  OBVIOUS
<1>0. /\ {MaxFigure, MaxClicks, FunnelFaults} \subseteq Nat
      /\ \A w \in FunnelWorkers : ytdStep[w] = Resting
  BY FunnelYearAssumption DEF FunnelInit
<1>1. ytd \in YtdRow
  BY DEF FunnelInit, YtdRow, Markers
<1>2. funnel \in [FunnelDays -> 0..MaxFigure] /\ best = funnel
  BY <1>0 DEF FunnelInit
<1>3. FunnelTypeOK
  <2>1. chains \in 0..MaxClicks /\ clicks \in 0..MaxClicks /\ funnelFaults \in 0..FunnelFaults
    BY <1>0 DEF FunnelInit
  <2>2. /\ age \in {"fresh", "old", "stuck"} /\ catalogue \in BOOLEAN /\ died \in BOOLEAN
        /\ answered \subseteq FunnelDays /\ unshown \subseteq FunnelDays
    BY DEF FunnelInit
  <2> QED BY <1>0, <1>1, <1>2, <2>1, <2>2 DEF FunnelTypeOK
<1>4. StepType /\ DaysBehindAreAnswered
  BY <1>0 DEF FunnelInit, StepType, DaysBehindAreAnswered, Resting
<1>5. ChainsAreClicks
  <2>1. BusyWorkers = {}
    BY <1>0 DEF BusyWorkers, Busy
  <2> QED BY <2>1, FS_EmptySet DEF ChainsAreClicks, FunnelInit
<1>6. PassedFunnelDaysAreAnswered /\ FunnelKeepsBest /\ RunningHasChain
  BY <1>2 DEF FunnelInit, PassedFunnelDaysAreAnswered, FunnelKeepsBest, RunningHasChain
<1> QED BY <1>3, <1>4, <1>5, <1>6 DEF FunnelIInv, FunnelInv

(* No day of the year is passed over, no fuller answer is lost, and a row     *)
(* that says running has a chain behind it (tasks.py, sync_funnel_ytd_step).  *)
THEOREM FunnelHolds == FunnelSpec => []FunnelInv
<1>1. FunnelIInv /\ [FunnelNext]_funnelVars => FunnelIInv'
  <2> SUFFICES ASSUME FunnelIInv, [FunnelNext]_funnelVars PROVE FunnelIInv'
    OBVIOUS
  <2>1. FunnelTypeOK /\ StepType /\ PassedFunnelDaysAreAnswered /\ DaysBehindAreAnswered
        /\ FunnelKeepsBest /\ RunningHasChain
    BY DEF FunnelIInv, FunnelInv
  <2>2. FunnelTypeOK' /\ StepType' /\ ChainsAreClicks'
    BY FunnelTypeStep
  <2>3. answered' \subseteq FunnelDays
    BY <2>2 DEF FunnelTypeOK
  <2>4. PassedFunnelDaysAreAnswered' /\ DaysBehindAreAnswered'
    BY <2>1, <2>3, PassedStep
  <2>5. FunnelKeepsBest' /\ RunningHasChain'
    BY <2>1, BestStep, RunningStep
  <2> QED BY <2>2, <2>4, <2>5 DEF FunnelIInv, FunnelInv
<1>2. FunnelIInv => FunnelInv
  BY DEF FunnelIInv
<1> QED BY FunnelStart, <1>1, <1>2, PTL DEF FunnelSpec

--------------------------------------------------------------------------------
(* The plan of the month and what its figures say of it.                      *)

(* The days of a month up to one of them.                                     *)
LEMMA DaysAreCounted ==
  ASSUME NEW n \in Nat
  PROVE  IsFiniteSet(1..n) /\ Cardinality(1..n) = n
<1>1. 1 \in Int /\ n \in Int
  OBVIOUS
<1>2. IsFiniteSet(1..n) /\ Cardinality(1..n) = IF 1 > n THEN 0 ELSE n - 1 + 1
  BY <1>1, FS_Interval
<1> QED BY <1>2

(* A set of days of the month has a size.                                     *)
LEMMA SomeDays ==
  ASSUME NEW days \in SUBSET MonthDays
  PROVE  IsFiniteSet(days) /\ Cardinality(days) \in Nat
BY DaysAreCounted, FS_Subset, FS_CardinalityType, PlanFactAssumption DEF MonthDays

(* How many days have passed, and how many have not.                          *)
LEMMA PassedAndRemaining ==
  ASSUME today \in 0..MonthLen + 1
  PROVE  /\ MonthLen \in Nat /\ MonthLen >= 1 /\ RemainingDays \in Nat /\ PassedDays \in Int
         /\ today = 0 => PassedDays <= 0
         /\ today >= 1 => /\ PassedDays \in Nat /\ PassedDays + RemainingDays = MonthLen
                          /\ {d \in MonthDays : d < today} = 1..PassedDays
         /\ today > MonthLen => PassedDays = MonthLen /\ RemainingDays = 0
         /\ {d \in MonthDays : d < today} = 1..(IF today - 1 < MonthLen THEN today - 1 ELSE MonthLen)
<1>1. MonthLen \in Nat /\ MonthLen >= 1
  BY PlanFactAssumption
<1>2. PICK t \in Nat, n \in Nat : t = today /\ n = MonthLen /\ t <= n + 1 /\ n >= 1
  BY <1>1
<1>3. {d \in MonthDays : d < today} = 1..(IF t - 1 < n THEN t - 1 ELSE n)
  BY <1>2 DEF MonthDays
<1>4. PassedDays = IF t - 1 < n THEN t - 1 ELSE n
  BY <1>2 DEF PassedDays
<1>5. RemainingDays \in Nat
  BY SomeDays DEF RemainingDays
<1>6. ASSUME today >= 1 PROVE PassedDays \in Nat /\ PassedDays + RemainingDays = MonthLen
  <2>1. PassedDays \in Nat /\ PassedDays <= n
    BY <1>2, <1>4, <1>6
  <2> DEFINE P == {d \in MonthDays : d < today}
             R == {d \in MonthDays : d >= today}
  <2>2. P \cup R = 1..n /\ P \cap R = {} /\ IsFiniteSet(P) /\ IsFiniteSet(R)
    BY <1>2, SomeDays DEF MonthDays
  <2>3. P = 1..PassedDays
    BY <1>3, <1>4
  <2>4. Cardinality(P) = PassedDays
    BY <2>1, <2>3, DaysAreCounted
  <2> HIDE DEF P, R
  <2>5. Cardinality(P \cup R) = Cardinality(P) + Cardinality(R) - Cardinality(P \cap R)
    BY <2>2, FS_Union
  <2>6. Cardinality(P \cap R) = 0 /\ Cardinality(P \cup R) = n
    BY <2>2, DaysAreCounted, FS_EmptySet
  <2>7. RemainingDays = Cardinality(R)
    BY DEF RemainingDays, R
  <2> QED BY <1>2, <1>5, <2>1, <2>4, <2>5, <2>6, <2>7
<1>7. ASSUME today > MonthLen PROVE PassedDays = MonthLen /\ RemainingDays = 0
  <2>1. PassedDays = n
    BY <1>2, <1>4, <1>7
  <2> QED BY <1>2, <1>5, <1>6, <1>7, <2>1
<1>8. PassedDays \in Int /\ (today = 0 => PassedDays <= 0)
  BY <1>2, <1>4
<1>9. today >= 1 => {d \in MonthDays : d < today} = 1..PassedDays
  BY <1>3, <1>4
<1> QED BY <1>1, <1>2, <1>3, <1>5, <1>6, <1>7, <1>8, <1>9

(* What a day comes to: its row, or nothing.                                  *)
LEMMA DayIsItsRow ==
  ASSUME PlanTypeOK, NEW d \in MonthDays, NEW m \in PnlMetrics
  PROVE  /\ pnl[d] = {} => DayFigure(m, d) = 0
         /\ \A r \in PnlFigures : pnl[d] = {r} => DayFigure(m, d) = FigureOf(r, m) /\ FigureOf(r, m) \in Int
         /\ DayFigure(m, d) \in Int
<1>1. pnl[d] = {} => DayFigure(m, d) = 0
  BY SumOfNone DEF DayFigure, Sum
<1>2. ASSUME NEW r \in PnlFigures, pnl[d] = {r} PROVE DayFigure(m, d) = FigureOf(r, m) /\ FigureOf(r, m) \in Int
  <2>1. r \in [revenue : Int, commission : Int, tax : Int]
    BY PlanFactAssumption
  <2>2. FigureOf(r, m) \in Int
    BY <2>1 DEF FigureOf, PnlMetrics
  <2> DEFINE f == [x \in {r} |-> FigureOf(x, m)]
  <2>3. f[r] = FigureOf(r, m)
    OBVIOUS
  <2>4. DayFigure(m, d) = Sum(f, {r})
    BY <1>2 DEF DayFigure, Sum
  <2> HIDE DEF f
  <2> QED BY <2>2, <2>3, <2>4, SumOfOne
<1>3. pnl[d] = {} \/ \E r \in PnlFigures : pnl[d] = {r}
  BY DEF PlanTypeOK
<1> QED BY <1>1, <1>2, <1>3

(* Over some days margins are revenues less costs; equal days are their number; *)
(* days without a row are nothing.                                            *)
LEMMA OverDaysAddsUp ==
  ASSUME PlanTypeOK, NEW days \in SUBSET MonthDays
  PROVE  /\ \A m \in PnlMetrics : OverDays(m, days) \in Int
         /\ OverDays("margin", days) = OverDays("revenue", days) - OverDays("commission", days) - OverDays("tax", days)
<1> DEFINE f(m) == [d \in days |-> DayFigure(m, d)]
<1>1. IsFiniteSet(days)
  BY SomeDays
<1>2. ASSUME NEW m \in PnlMetrics PROVE OverDays(m, days) = Sum(f(m), days) /\ Sum(f(m), days) \in Int
  <2>1. OverDays(m, days) = Sum(f(m), days)
    BY DEF OverDays, Sum
  <2>2. \A d \in days : f(m)[d] \in Int
    BY DayIsItsRow
  <2> HIDE DEF f
  <2> QED BY <1>1, <2>1, <2>2, SumIsInt
<1>3. ASSUME NEW d \in MonthDays
      PROVE  DayFigure("margin", d) = DayFigure("revenue", d) - DayFigure("commission", d) - DayFigure("tax", d)
  <2>1. {"margin", "revenue", "commission", "tax"} \subseteq PnlMetrics
    BY DEF PnlMetrics
  <2>2. CASE pnl[d] = {}
    <3>1. \A m \in PnlMetrics : DayFigure(m, d) = 0
      BY <2>2, DayIsItsRow
    <3> QED BY <2>1, <3>1
  <2>3. ASSUME NEW r \in PnlFigures, pnl[d] = {r}
        PROVE  DayFigure("margin", d) = DayFigure("revenue", d) - DayFigure("commission", d) - DayFigure("tax", d)
    <3>1. \A m \in PnlMetrics : DayFigure(m, d) = FigureOf(r, m)
      BY <2>3, DayIsItsRow
    <3>2. FigureOf(r, "margin") = FigureOf(r, "revenue") - FigureOf(r, "commission") - FigureOf(r, "tax")
      BY DEF FigureOf
    <3> QED BY <2>1, <3>1, <3>2
  <2> QED BY <2>2, <2>3 DEF PlanTypeOK
<1> DEFINE g == [d \in days |-> DayFigure("commission", d) + DayFigure("tax", d)]
<1>4. Sum(g, days) = Sum(f("commission"), days) + Sum(f("tax"), days)
  <2>1. \A d \in days : /\ f("commission")[d] \in Int /\ f("tax")[d] \in Int
                        /\ g[d] = f("commission")[d] + f("tax")[d]
    BY DayIsItsRow DEF PnlMetrics
  <2> HIDE DEF f, g
  <2> QED BY <1>1, <2>1, SumOfSums
<1>5. Sum(f("revenue"), days) = Sum(f("margin"), days) + Sum(g, days)
  <2>1. \A d \in days : /\ f("margin")[d] \in Int /\ g[d] \in Int
                        /\ f("revenue")[d] = f("margin")[d] + g[d]
    <3> SUFFICES ASSUME NEW d \in days
                 PROVE  /\ f("margin")[d] \in Int /\ g[d] \in Int
                        /\ f("revenue")[d] = f("margin")[d] + g[d]
      OBVIOUS
    <3>1. PICK a \in Int, b \in Int, c \in Int, e \in Int :
             /\ a = DayFigure("margin", d) /\ b = DayFigure("revenue", d)
             /\ c = DayFigure("commission", d) /\ e = DayFigure("tax", d)
      BY DayIsItsRow DEF PnlMetrics
    <3>2. a = b - c - e
      BY <1>3, <3>1
    <3>3. f("margin")[d] = a /\ g[d] = c + e /\ f("revenue")[d] = b
      BY <3>1
    <3> HIDE DEF f, g
    <3> QED BY <3>2, <3>3
  <2> HIDE DEF f, g
  <2> QED BY <1>1, <2>1, SumOfSums
<1> HIDE DEF f, g
<1>6. {"margin", "revenue", "commission", "tax"} \subseteq PnlMetrics
  BY DEF PnlMetrics
<1>7. PICK a \in Int, b \in Int, c \in Int, e \in Int :
             /\ a = OverDays("margin", days) /\ b = OverDays("revenue", days)
             /\ c = OverDays("commission", days) /\ e = OverDays("tax", days)
             /\ a = Sum(f("margin"), days) /\ b = Sum(f("revenue"), days)
             /\ c = Sum(f("commission"), days) /\ e = Sum(f("tax"), days)
  BY <1>2, <1>6
<1>8. b = a + (c + e)
  BY <1>4, <1>5, <1>7
<1>9. a = b - c - e
  BY <1>8
<1> QED BY <1>2, <1>7, <1>9

(* Days that earned the same earn it as often as they are many.               *)
LEMMA OverEqualDays ==
  ASSUME PlanTypeOK, NEW days \in SUBSET MonthDays, NEW m \in PnlMetrics
  PROVE  /\ (\A d \in days : pnl[d] = {}) => OverDays(m, days) = 0
         /\ \A r \in PnlFigures : (\A d \in days : pnl[d] = {r}) =>
              FigureOf(r, m) \in Int /\ OverDays(m, days) = FigureOf(r, m) * Cardinality(days)
<1> DEFINE f == [d \in days |-> DayFigure(m, d)]
<1>1. IsFiniteSet(days) /\ Cardinality(days) \in Nat /\ OverDays(m, days) = Sum(f, days)
  BY SomeDays DEF OverDays, Sum
<1>2. ASSUME \A d \in days : pnl[d] = {} PROVE OverDays(m, days) = 0
  <2>1. \A d \in days : f[d] = 0
    BY <1>2, DayIsItsRow
  <2> HIDE DEF f
  <2>2. Sum(f, days) = 0 * Cardinality(days)
    BY <1>1, <2>1, SumOfEquals
  <2> QED BY <1>1, <2>2
<1>3. ASSUME NEW r \in PnlFigures, \A d \in days : pnl[d] = {r}
      PROVE  FigureOf(r, m) \in Int /\ OverDays(m, days) = FigureOf(r, m) * Cardinality(days)
  <2>1. FigureOf(r, m) \in Int
    BY PlanFactAssumption DEF FigureOf, PnlMetrics
  <2>2. \A d \in days : f[d] = FigureOf(r, m)
    BY <1>3, DayIsItsRow
  <2> HIDE DEF f
  <2>3. Sum(f, days) = FigureOf(r, m) * Cardinality(days)
    BY <1>1, <2>1, <2>2, SumOfEquals
  <2> QED BY <1>1, <2>1, <2>3
<1> QED BY <1>2, <1>3

(* The days before today, read in one way or the other.                       *)
LEMMA FactOfPassedDays ==
  ASSUME PlanTypeOK, NEW m \in PnlMetrics
  PROVE  FactToYesterday(m) = OverDays(m, {d \in MonthDays : d < today})
BY PassedAndRemaining DEF PlanTypeOK, FactToYesterday, PnlMetrics

(* What a forecast is made of.                                                *)
LEMMA ForecastIs ==
  ASSUME PlanTypeOK, NEW m \in PnlMetrics
  PROVE  LET fact == OverDays(m, {d \in MonthDays : d < today})
             f == _forecast_total_for_month(m)
         IN /\ PassedDays <= 0 => f[1] = fact /\ f[2] = 1
            /\ PassedDays > 0 => f[1] = fact * PassedDays + fact * RemainingDays /\ f[2] = PassedDays
<1>1. today \in 0..MonthLen + 1
  BY DEF PlanTypeOK
<1>2. PassedDays \in Int /\ (PassedDays > 0 => today # 0)
  BY <1>1, PassedAndRemaining
<1>3. FactToYesterday(m) = OverDays(m, {d \in MonthDays : d < today})
  BY FactOfPassedDays
<1> QED BY <1>2, <1>3 DEF _forecast_total_for_month

(* The forecast at an even pace is the plan of the days that passed.          *)
LEMMA ForecastsFit == PlanTypeOK => ForecastsAddUp
<1> SUFFICES ASSUME PlanTypeOK PROVE ForecastsAddUp
  OBVIOUS
<1> DEFINE passed == {d \in MonthDays : d < today}
           f(m) == _forecast_total_for_month(m)
<1>1. passed \in SUBSET MonthDays /\ today \in 0..MonthLen + 1
  BY DEF PlanTypeOK
<1>2. {"margin", "revenue", "commission", "tax"} \subseteq PnlMetrics
  BY DEF PnlMetrics
<1>3. PICK a \in Int, b \in Int, c \in Int, e \in Int :
             /\ a = OverDays("margin", passed) /\ b = OverDays("revenue", passed)
             /\ c = OverDays("commission", passed) /\ e = OverDays("tax", passed)
  BY <1>1, <1>2, OverDaysAddsUp
<1>4. a = b - c - e
  BY <1>1, <1>3, OverDaysAddsUp
<1>5. PICK p \in Int, r \in Int : p = PassedDays /\ r = RemainingDays
  BY <1>1, PassedAndRemaining
<1>6. CASE p <= 0
  <2>1. \A m \in PnlMetrics : f(m)[1] = OverDays(m, passed) /\ f(m)[2] = 1
    BY <1>5, <1>6, ForecastIs
  <2> HIDE DEF f, passed
  <2>2. f("margin")[1] = f("revenue")[1] - f("commission")[1] - f("tax")[1]
    BY <1>2, <1>3, <1>4, <2>1
  <2>3. \A m \in PnlMetrics : f(m)[2] = f("margin")[2]
    BY <1>2, <2>1
  <2> QED BY <2>2, <2>3 DEF ForecastsAddUp, f
<1>7. CASE p > 0
  <2>1. \A m \in PnlMetrics : f(m)[1] = OverDays(m, passed) * p + OverDays(m, passed) * r /\ f(m)[2] = p
    BY <1>5, <1>7, ForecastIs
  <2> HIDE DEF f, passed
  <2>2. a * p + a * r = (b * p + b * r) - (c * p + c * r) - (e * p + e * r)
    <3>1. a * p = b * p - c * p - e * p
      BY <1>4
    <3>2. a * r = b * r - c * r - e * r
      BY <1>4
    <3>3. PICK ap \in Int, bp \in Int, cp \in Int, ep \in Int, ar \in Int, br \in Int, cr \in Int, er \in Int :
            /\ ap = a * p /\ bp = b * p /\ cp = c * p /\ ep = e * p
            /\ ar = a * r /\ br = b * r /\ cr = c * r /\ er = e * r
      OBVIOUS
    <3>4. ap = bp - cp - ep /\ ar = br - cr - er
      BY <3>1, <3>2, <3>3
    <3>5. ap + ar = (bp + br) - (cp + cr) - (ep + er)
      BY <3>4
    <3> QED BY <3>3, <3>5
  <2>3. f("margin")[1] = f("revenue")[1] - f("commission")[1] - f("tax")[1]
    <3>1. /\ f("margin")[1] = a * p + a * r /\ f("revenue")[1] = b * p + b * r
          /\ f("commission")[1] = c * p + c * r /\ f("tax")[1] = e * p + e * r
      BY <1>2, <1>3, <2>1
    <3> QED BY <2>2, <3>1
  <2>4. \A m \in PnlMetrics : f(m)[2] = f("margin")[2]
    BY <1>2, <2>1
  <2> QED BY <2>3, <2>4 DEF ForecastsAddUp, f
<1> QED BY <1>6, <1>7

(* The passed days and the pace on the days that remain make up the forecast. *)
LEMMA PaceGoesOn == PlanTypeOK => PastAndPace
<1> SUFFICES ASSUME PlanTypeOK, NEW m \in PnlMetrics
             PROVE  LET f == _forecast_total_for_month(m) IN
                    /\ today > MonthLen => f[1] = Fact(m) * f[2]
                    /\ \A r \in PnlFigures :
                         today > 1 /\ (\A d \in MonthDays : d < today => pnl[d] = {r})
                           => f[1] = FigureOf(r, m) * MonthLen * f[2]
  BY DEF PastAndPace
<1> DEFINE f == _forecast_total_for_month(m)
           passed == {d \in MonthDays : d < today}
<1>1. passed \in SUBSET MonthDays /\ today \in 0..MonthLen + 1
  BY DEF PlanTypeOK
<1>2. PICK p \in Int, r \in Int, n \in Nat : p = PassedDays /\ r = RemainingDays /\ n = MonthLen /\ n >= 1
  BY <1>1, PassedAndRemaining
<1>3. PICK a \in Int : a = OverDays(m, passed)
  BY <1>1, OverDaysAddsUp
<1>4. ASSUME p > 0 PROVE f[1] = a * p + a * r /\ f[2] = p
  BY <1>2, <1>3, <1>4, ForecastIs
<1> HIDE DEF f
<1>5. ASSUME today > MonthLen PROVE f[1] = Fact(m) * f[2]
  <2>1. p = n /\ r = 0 /\ p > 0 /\ today >= 1
    BY <1>1, <1>2, <1>5, PassedAndRemaining
  <2>2. passed = MonthDays
    BY <1>1, <1>2, <2>1, PassedAndRemaining DEF MonthDays
  <2>3. Fact(m) = a
    BY <1>3, <2>2 DEF Fact, PnlMetrics
  <2>4. a * p + a * 0 = a * p
    OBVIOUS
  <2> QED BY <1>4, <2>1, <2>3, <2>4
<1>6. ASSUME NEW fig \in PnlFigures, today > 1, \A d \in MonthDays : d < today => pnl[d] = {fig}
      PROVE  f[1] = FigureOf(fig, m) * MonthLen * f[2]
  <2>1. p \in Nat /\ p + r = n /\ passed = 1..p
    BY <1>1, <1>2, <1>6, PassedAndRemaining
  <2>2. p > 0
    <3>1. 1 \in MonthDays /\ 1 < today
      BY <1>1, <1>2, <1>6 DEF MonthDays
    <3>2. 1 \in 1..p
      BY <2>1, <3>1
    <3> QED BY <2>1, <3>2
  <2>3. Cardinality(passed) = p
    BY <2>1, DaysAreCounted
  <2>4. PICK g \in Int : g = FigureOf(fig, m) /\ a = g * p
    <3>1. \A d \in passed : pnl[d] = {fig}
      BY <1>6
    <3> HIDE DEF passed
    <3> QED BY <1>1, <1>3, <1>6, <2>3, <3>1, OverEqualDays
  <2>5. a * p + a * r = a * n
    BY <2>1
  <2>6. g * p * n = g * n * p
    OBVIOUS
  <2> QED BY <1>2, <1>4, <2>2, <2>4, <2>5, <2>6
<1> QED BY <1>5, <1>6 DEF f

(* Days that have not passed forecast nothing.                                *)
LEMMA NothingYetIsNothing == PlanTypeOK => OnlyPassedDaysForecast
<1> SUFFICES ASSUME PlanTypeOK, \A d \in MonthDays : d < today => pnl[d] = {},
                    NEW m \in PnlMetrics \cup {"orders_sum"}
             PROVE  _forecast_total_for_month(m)[1] = 0
  BY DEF OnlyPassedDaysForecast
<1> DEFINE passed == {d \in MonthDays : d < today}
<1>1. passed \in SUBSET MonthDays /\ today \in 0..MonthLen + 1 /\ \A d \in passed : pnl[d] = {}
  BY DEF PlanTypeOK
<1>2. FactToYesterday(m) = 0
  <2>1. CASE m \in PnlMetrics
    <3> HIDE DEF passed
    <3>1. OverDays(m, passed) = 0
      BY <1>1, <2>1, OverEqualDays
    <3> QED BY <2>1, <3>1, FactOfPassedDays DEF passed
  <2>2. CASE m = "orders_sum"
    <3>1. {d \in passed : pnl[d] # {}} = {}
      BY <1>1
    <3>2. FactToYesterday(m) = OrdersOver({})
      BY <2>2, <3>1 DEF FactToYesterday
    <3> QED BY <3>2, SumOfNone DEF OrdersOver, Sum
  <2> QED BY <2>1, <2>2
<1>3. PassedDays \in Int /\ RemainingDays \in Int
  BY <1>1, PassedAndRemaining
<1>4. 0 * PassedDays + 0 * RemainingDays = 0
  BY <1>3
<1> QED BY <1>2, <1>4 DEF _forecast_total_for_month

(* The types and the planned sums, through writes, days and saves.            *)
LEMMA PlanStep ==
  PlanTypeOK /\ PlannedSumsAgree /\ [PlanNext]_planVars => PlanTypeOK' /\ PlannedSumsAgree'
<1> SUFFICES ASSUME PlanTypeOK, PlannedSumsAgree, [PlanNext]_planVars
             PROVE  PlanTypeOK' /\ PlannedSumsAgree'
  OBVIOUS
<1>0. MaxWrites \in Nat /\ MonthLen \in Nat
  BY PlanFactAssumption
<1>1. CASE RowIsWritten
  <2>1. writes' \in 0..MaxWrites
    BY <1>0, <1>1 DEF RowIsWritten, PlanTypeOK
  <2>2. pnl' \in [MonthDays -> {{}} \cup {{r} : r \in PnlFigures}] /\ orders' \in [MonthDays -> OrderSums \cup {0}]
    BY <1>1 DEF RowIsWritten, PlanTypeOK
  <2> QED BY <1>1, <2>1, <2>2 DEF RowIsWritten, PlanTypeOK, PlannedSumsAgree
<1>2. CASE DayPasses
  <2>1. today' \in 0..MonthLen + 1
    BY <1>0, <1>2 DEF DayPasses, PlanTypeOK
  <2> QED BY <1>2, <2>1 DEF DayPasses, PlanTypeOK, PlannedSumsAgree
<1>3. CASE PlanIsSaved
  <2>1. PICK values \in Plans :
          /\ plan' = [k \in DOMAIN plan \cup DOMAIN Derived(values) |->
                        IF k \in DOMAIN Derived(values) THEN Derived(values)[k] ELSE plan[k]]
          /\ savedApart' = IF {"revenue", "commission_pct"} \subseteq DOMAIN values THEN FALSE
                           ELSE savedApart \/ DOMAIN values # {}
    BY <1>3 DEF PlanIsSaved
  <2>2. DOMAIN values \subseteq PlanMetrics
    BY PlanFactAssumption
  <2>3. writes' \in 0..MaxWrites /\ UNCHANGED <<today, pnl, orders>>
    BY <1>0, <1>3 DEF PlanIsSaved, PlanTypeOK
  <2>4. CASE {"revenue", "commission_pct"} \subseteq DOMAIN values
    <3> DEFINE all == [k \in DOMAIN values \cup {"commission"} |->
                         IF k = "commission" THEN (values["revenue"] * values["commission_pct"]) \div 100
                         ELSE values[k]]
    <3>1. Derived(values) = all
      BY <2>4 DEF Derived
    <3>2. /\ DOMAIN all \subseteq PlanMetrics
          /\ {"revenue", "commission_pct", "commission"} \subseteq DOMAIN all
          /\ all["commission"] = (all["revenue"] * all["commission_pct"]) \div 100
      BY <2>2, <2>4 DEF PlanMetrics
    <3> HIDE DEF all
    <3>3. /\ DOMAIN plan' \subseteq PlanMetrics
          /\ "commission" \in DOMAIN plan' /\ plan'["commission"] = all["commission"]
          /\ plan'["revenue"] = all["revenue"] /\ plan'["commission_pct"] = all["commission_pct"]
      BY <2>1, <3>1, <3>2 DEF PlanTypeOK
    <3> QED BY <2>3, <3>2, <3>3 DEF PlanTypeOK, PlannedSumsAgree
  <2>5. CASE ~({"revenue", "commission_pct"} \subseteq DOMAIN values)
    <3>1. Derived(values) = values
      BY <2>5 DEF Derived
    <3>2. DOMAIN plan' \subseteq PlanMetrics
      BY <2>1, <2>2, <3>1 DEF PlanTypeOK
    <3>3. ASSUME ~savedApart', {"revenue", "commission_pct"} \subseteq DOMAIN plan'
          PROVE  /\ "commission" \in DOMAIN plan'
                 /\ plan'["commission"] = (plan'["revenue"] * plan'["commission_pct"]) \div 100
      <4>1. ~savedApart /\ DOMAIN values = {}
        BY <2>1, <2>5, <3>3
      <4>2. DOMAIN plan' = DOMAIN plan /\ \A k \in DOMAIN plan : plan'[k] = plan[k]
        BY <2>1, <3>1, <4>1
      <4> QED BY <3>3, <4>1, <4>2 DEF PlannedSumsAgree
    <3> QED BY <2>3, <3>2, <3>3 DEF PlanTypeOK, PlannedSumsAgree
  <2> QED BY <2>4, <2>5
<1>4. CASE UNCHANGED planVars
  BY <1>4 DEF planVars, PlanTypeOK, PlannedSumsAgree
<1> QED BY <1>1, <1>2, <1>3, <1>4 DEF PlanNext

(* A month starts with a plan and no figures.                                 *)
LEMMA PlanStart == PlanInit => PlanTypeOK /\ PlannedSumsAgree
<1> SUFFICES ASSUME PlanInit PROVE PlanTypeOK /\ PlannedSumsAgree
  OBVIOUS
<1>1. DOMAIN plan = {} /\ writes = 0 /\ today \in 0..MonthLen /\ MaxWrites \in Nat /\ MonthLen \in Nat
  BY PlanFactAssumption DEF PlanInit
<1>2. today \in 0..MonthLen + 1 /\ writes \in 0..MaxWrites
  BY <1>1
<1>3. pnl \in [MonthDays -> {{}} \cup {{r} : r \in PnlFigures}] /\ orders \in [MonthDays -> OrderSums \cup {0}]
  BY DEF PlanInit
<1> QED BY <1>1, <1>2, <1>3 DEF PlanTypeOK, PlannedSumsAgree

(* Whatever rows, plans and days come, the forecasts of a month fit together, *)
(* a month that is over forecasts what it came to, and days that are not over *)
(* forecast nothing.                                                          *)
THEOREM PlanHolds == PlanSpec => []PlanFactInv
<1>1. PlanTypeOK /\ PlannedSumsAgree => PlanFactInv
  BY ForecastsFit, PaceGoesOn, NothingYetIsNothing DEF PlanFactInv
<1> QED BY <1>1, PlanStart, PlanStep, PTL DEF PlanSpec

--------------------------------------------------------------------------------
(* Calls of Wildberries and what a returned one has gathered.                 *)

(* What a call has gathered, and what it still has to ask for.                *)
HistoryCalls ==
  [op : {"history"}, pc : {"ask", "returned", "raised"}, wait : BOOLEAN,
   left : SUBSET Nms, rows : SUBSET Nms, tries : Nat]
ProductsCalls ==
  [op : {"products"}, pc : {"ask", "returned", "raised"},
   asked : SUBSET Nms, rows : SUBSET Nms, tries : Nat, most : {1, FUNNEL_CHUNK_MAX_ATTEMPTS}]
SalesCalls ==
  [op : {"sales"}, pc : {"ask", "returned", "raised"}, source : {"finance_api", "statistics_api"},
   after : 0..ReportLen, rows : SUBSET (1..ReportLen)]
AdRows == [update : {u.id : u \in Updates}, nm : Nms \cup {NoNm}, spend : Int]
AdsCalls == [op : {"ads"}, pc : {"ask", "returned", "raised", "nothing"}, rows : SUBSET AdRows]
NoCalls == [op : {"none"}, pc : {"returned"}]
CallOK == call \in HistoryCalls \cup ProductsCalls \cup SalesCalls \cup AdsCalls \cup NoCalls

(* Each way of asking keeps something between its answers: an article that    *)
(* was asked for is there, left to ask for or not told of, and the rows of a  *)
(* report go from its first to the one asked after.                           *)
HistoryGoesOn ==
  call.op = "history" =>
    /\ call.rows = (Nms \ call.left) \ untold /\ untold \cap call.left = {}
    /\ call.pc = "returned" => call.left = {}
    /\ ~odd => call.tries < FUNNEL_CHUNK_MAX_ATTEMPTS /\ (~call.wait => call.tries = 0)
ProductsGoOn ==
  call.op = "products" =>
    /\ call.pc = "returned" => call.rows = call.asked \ untold
    /\ call.tries < call.most
SalesGoOn ==
  call.op = "sales" =>
    /\ call.rows = (1..call.after) \ NoDateRows
    /\ call.pc = "returned" => untold = (call.after + 1)..ReportLen
ClientIInv == CallOK /\ odd \in BOOLEAN /\ HistoryGoesOn /\ ProductsGoOn /\ SalesGoOn /\ SpendIsKept

(* A page of the report is what follows, up to its length or the end.         *)
LEMMA PageIs ==
  ASSUME NEW a \in 0..ReportLen, NEW k \in 0..PageLimit, NEW page,
         page = FirstOf(k, (a + 1)..ReportLen)
  PROVE  \E m \in a..ReportLen :
           /\ page = (a + 1)..m
           /\ PageIsLast(page) /\ k = PageLimit => m = ReportLen
           /\ ~PageIsLast(page) => k = PageLimit
           /\ page = {} => m = a
           /\ page # {} => Max(page) = m
<1>1. PICK n \in Nat, l \in Nat, z \in Nat : n = ReportLen /\ l = k /\ z = PageLimit /\ l <= z /\ z > 0
  BY WbClientAssumption
<1>2. a \in Nat /\ a <= n
  BY <1>1
<1>3. ASSUME NEW x \in (a + 1)..n
      PROVE  Cardinality({y \in (a + 1)..n : y < x}) = x - 1 - a
  <2>1. {y \in (a + 1)..n : y < x} = (a + 1)..(x - 1)
    BY <1>2, <1>3
  <2>2. PICK b \in Int, c \in Int : b = a + 1 /\ c = x - 1 /\ b <= c + 1
    BY <1>2, <1>3
  <2>3. Cardinality(b..c) = IF b > c THEN 0 ELSE c - b + 1
    BY FS_Interval
  <2>4. (IF b > c THEN 0 ELSE c - b + 1) = x - 1 - a
    BY <1>2, <1>3, <2>2
  <2> QED BY <2>1, <2>2, <2>3, <2>4
<1>4. PICK m \in a..n : m = IF a + l < n THEN a + l ELSE n
  BY <1>1, <1>2
<1>5. page = {x \in (a + 1)..n : x - 1 - a < l}
  BY <1>1, <1>3 DEF FirstOf
<1>6. page = (a + 1)..m
  <2>1. m \in Int /\ \A x \in Int : (x \in (a + 1)..n /\ x - 1 - a < l) <=> x \in (a + 1)..m
    BY <1>1, <1>2, <1>4
  <2>2. (a + 1)..n \subseteq Int /\ (a + 1)..m \subseteq Int
    OBVIOUS
  <2> QED BY <1>5, <2>1, <2>2
<1>7. Cardinality(page) = m - a
  <2>1. a + 1 \in Int /\ m \in Int
    BY <1>2, <1>4
  <2>2. Cardinality((a + 1)..m) = IF a + 1 > m THEN 0 ELSE m - (a + 1) + 1
    BY <2>1, FS_Interval
  <2> QED BY <1>2, <1>4, <1>6, <2>2
<1>8. (PageIsLast(page) <=> m - a < z) /\ (l = z /\ m - a < z => m = n) /\ m - a <= l
  <2>1. PageIsLast(page) <=> m - a < z
    BY <1>1, <1>7 DEF PageIsLast
  <2> QED BY <1>1, <1>2, <1>4, <2>1
<1>9. page = {} => m = a
  <2>1. m = a \/ a + 1 \in page
    BY <1>2, <1>4, <1>6
  <2> QED BY <2>1
<1>10. page # {} => Max(page) = m
  <2>1. page # {} => m \in page /\ \A y \in page : y \in Int /\ m >= y
    BY <1>2, <1>4, <1>6
  <2>2. page # {} => \A x \in page : (\A y \in page : x >= y) => x = m
    BY <2>1
  <2> QED BY <2>1, <2>2 DEF Max
<1>11. PageIsLast(page) /\ k = PageLimit => m = n
  BY <1>1, <1>8
<1>12. ~PageIsLast(page) => k = PageLimit
  BY <1>1, <1>2, <1>4, <1>8
<1> QED BY <1>1, <1>4, <1>6, <1>9, <1>10, <1>11, <1>12

(* The parts of a spend add up to it.                                         *)
LEMMA PartsAddUp ==
  ASSUME NEW u \in Updates, NEW nms, nms \in {{}, Campaigns[u.campaign]}
  PROVE  /\ Split(u, nms) \subseteq AdRows
         /\ \A r \in Split(u, nms) : r.update = u.id
         /\ Sum([r \in Split(u, nms) |-> r.spend], Split(u, nms)) = u.sum
<1>0. u.sum \in Nat /\ u.campaign \in DOMAIN Campaigns /\ nms \subseteq Nms /\ IsFiniteSet(nms)
  BY WbClientAssumption, FS_Subset, FS_EmptySet
<1> DEFINE f == [r \in Split(u, nms) |-> r.spend]
<1>1. CASE nms = {}
  <2>1. Split(u, nms) = {AdRow(u, NoNm, u.sum)}
    BY <1>1 DEF Split
  <2>2. f[AdRow(u, NoNm, u.sum)] = u.sum
    BY <2>1 DEF AdRow
  <2>3. AdRow(u, NoNm, u.sum) \in AdRows /\ AdRow(u, NoNm, u.sum).update = u.id
    BY <1>0 DEF AdRow, AdRows
  <2> HIDE DEF f
  <2>4. Sum(f, {AdRow(u, NoNm, u.sum)}) = u.sum
    <3>1. PICK r : r = AdRow(u, NoNm, u.sum) /\ f[r] = u.sum
      BY <2>2
    <3>2. f[r] \in Int
      BY <1>0, <3>1
    <3> QED BY <3>1, <3>2, SumOfOne
  <2> QED BY <2>1, <2>3, <2>4 DEF f
<1>2. CASE nms # {}
  <2> DEFINE q == u.sum \div Cardinality(nms)
             R == {AdRow(u, nm, q) : nm \in nms}
             g == [nm \in nms |-> AdRow(u, nm, q)]
  <2>1. Split(u, nms) = R
    BY <1>2 DEF Split
  <2>2. u.sum % Cardinality(nms) = 0
    BY <1>2, WbClientAssumption
  <2>3. PICK k \in Nat : k = Cardinality(nms) /\ k > 0
    BY <1>0, <1>2, FS_CardinalityType, FS_EmptySet
  <2>4. q \in Int /\ q * k = u.sum
    BY <1>0, <2>2, <2>3
  <2>5. R \subseteq AdRows /\ \A r \in R : r.update = u.id /\ r.spend = q
    BY <1>0, <2>4 DEF AdRow, AdRows
  <2> HIDE DEF q
  <2>6. g \in Bijection(nms, R)
    BY DEF AdRow, Bijection, Injection, Surjection, IsInjective
  <2>7. IsFiniteSet(R) /\ Cardinality(R) = k
    BY <1>0, <2>3, <2>6, FS_Bijection DEF ExistsBijection
  <2>8. \A r \in R : f[r] = q
    BY <2>1, <2>5
  <2> HIDE DEF f, R
  <2>9. Sum(f, R) = q * Cardinality(R)
    BY <2>4, <2>7, <2>8, SumOfEquals
  <2> QED BY <2>1, <2>4, <2>5, <2>7, <2>9 DEF f
<1> QED BY <1>1, <1>2

(* A call begins with nothing gathered.                                       *)
LEMMA CallBegins ==
  ASSUME FunnelBegins \/ ProductsBegin \/ SalesBegin \/ AdsBegin
  PROVE  ClientIInv'
<1>0. FUNNEL_CHUNK_MAX_ATTEMPTS \in Nat /\ FUNNEL_CHUNK_MAX_ATTEMPTS > 0 /\ 0 \in 0..ReportLen
      /\ FirstOf(FUNNEL_CHUNK_SIZE, Nms) \subseteq Nms
  BY WbClientAssumption DEF FirstOf
<1>1. ASSUME FunnelBegins PROVE ClientIInv'
  <2>1. PICK wait \in BOOLEAN :
          /\ call' = [op |-> "history", pc |-> "ask", wait |-> wait, left |-> Nms, rows |-> {}, tries |-> 0]
          /\ odd' = FALSE /\ untold' = {}
    BY <1>1 DEF FunnelBegins, Begins
  <2> QED BY <1>0, <2>1 DEF ClientIInv, CallOK, HistoryCalls, HistoryGoesOn, ProductsGoOn, SalesGoOn, SpendIsKept, Returned
<1>2. ASSUME ProductsBegin PROVE ClientIInv'
  <2>1. PICK asked \in SUBSET Nms, most \in {1, FUNNEL_CHUNK_MAX_ATTEMPTS} :
          /\ call' = [op |-> "products", pc |-> "ask", rows |-> {}, tries |-> 0, asked |-> asked, most |-> most]
          /\ odd' = FALSE
    BY <1>0, <1>2 DEF ProductsBegin, Begins
  <2>2. call' \in ProductsCalls
    BY <2>1 DEF ProductsCalls
  <2>3. call'.op = "products" /\ call'.pc = "ask" /\ call'.tries = 0 /\ call'.most = most
    BY <2>1
  <2>4. most > 0
    BY <1>0
  <2> QED BY <2>1, <2>2, <2>3, <2>4 DEF ClientIInv, CallOK, HistoryGoesOn, ProductsGoOn, SalesGoOn, SpendIsKept, Returned
<1>3. ASSUME SalesBegin PROVE ClientIInv'
  <2>1. PICK source \in {"finance_api", "statistics_api"} :
          /\ call' = [op |-> "sales", pc |-> "ask", source |-> source, after |-> 0, rows |-> {}]
          /\ odd' = FALSE
    BY <1>3 DEF SalesBegin, Begins
  <2>2. call'.rows = (1..call'.after) \ NoDateRows
    BY <2>1
  <2> QED BY <1>0, <2>1, <2>2 DEF ClientIInv, CallOK, SalesCalls, HistoryGoesOn, ProductsGoOn, SalesGoOn, SpendIsKept, Returned
<1>4. ASSUME AdsBegin PROVE ClientIInv'
  BY <1>4 DEF AdsBegin, Begins, ClientIInv, CallOK, AdsCalls, HistoryGoesOn, ProductsGoOn,
              SalesGoOn, SpendIsKept, Returned
<1> QED BY <1>1, <1>2, <1>3, <1>4

(* A call that raises has lost nothing that it promised.                      *)
LEMMA CallRaises ==
  ASSUME ClientIInv, Raised, UNCHANGED <<odd, untold>>, call.op # "none"
  PROVE  ClientIInv'
<1>1. CallOK'
  <2>1. call.op \in {"history", "products", "sales", "ads"}
    BY DEF ClientIInv, CallOK, HistoryCalls, ProductsCalls, SalesCalls, AdsCalls, NoCalls
  <2>2. CASE call.op = "history"
    BY <2>2 DEF ClientIInv, CallOK, Raised, HistoryCalls, ProductsCalls, SalesCalls, AdsCalls, NoCalls
  <2>3. CASE call.op = "products"
    BY <2>3 DEF ClientIInv, CallOK, Raised, HistoryCalls, ProductsCalls, SalesCalls, AdsCalls, NoCalls
  <2>4. CASE call.op = "sales"
    BY <2>4 DEF ClientIInv, CallOK, Raised, HistoryCalls, ProductsCalls, SalesCalls, AdsCalls, NoCalls
  <2>5. CASE call.op = "ads"
    BY <2>5 DEF ClientIInv, CallOK, Raised, HistoryCalls, ProductsCalls, SalesCalls, AdsCalls, NoCalls
  <2> QED BY <2>1, <2>2, <2>3, <2>4, <2>5
<1>2. call'.op = call.op /\ call'.pc = "raised"
  BY DEF ClientIInv, CallOK, Raised, HistoryCalls, ProductsCalls, SalesCalls, AdsCalls, NoCalls
<1>3. call.op \in {"history", "products"} => call'.tries = call.tries
  BY DEF ClientIInv, CallOK, Raised, HistoryCalls, ProductsCalls, SalesCalls, AdsCalls, NoCalls
<1>6. call.op = "products" => call'.most = call.most
  BY DEF ClientIInv, CallOK, Raised, HistoryCalls, ProductsCalls, SalesCalls, AdsCalls, NoCalls
<1>4. call.op = "history" => call'.rows = call.rows /\ call'.left = call.left /\ call'.wait = call.wait
  BY DEF ClientIInv, CallOK, Raised, HistoryCalls, ProductsCalls, SalesCalls, AdsCalls, NoCalls
<1>5. call.op = "sales" => call'.rows = call.rows /\ call'.after = call.after
  BY DEF ClientIInv, CallOK, Raised, HistoryCalls, ProductsCalls, SalesCalls, AdsCalls, NoCalls
<1> QED BY <1>1, <1>2, <1>3, <1>4, <1>5, <1>6 DEF ClientIInv, HistoryGoesOn, ProductsGoOn, SalesGoOn, SpendIsKept, Returned

(* What is known of a call under way.                                         *)
LEMMA AskedIs ==
  ASSUME ClientIInv, NEW op \in {"history", "products", "sales", "ads"}, Asked(op)
  PROVE  /\ call.op = op /\ call.pc = "ask"
         /\ op = "history" => call \in HistoryCalls
         /\ op = "products" => call \in ProductsCalls
         /\ op = "sales" => call \in SalesCalls
         /\ op = "ads" => call \in AdsCalls
BY DEF ClientIInv, CallOK, Asked, HistoryCalls, ProductsCalls, SalesCalls, AdsCalls, NoCalls

(* A chunk of the funnel, and what is left of it.                             *)
LEMMA HistoryStep ==
  ASSUME ClientIInv, HistoryAnswered \/ HistoryRefused \/ HistoryAnsweredOddly
  PROVE  ClientIInv'
<1>0. /\ FUNNEL_CHUNK_MAX_ATTEMPTS \in Nat /\ FUNNEL_CHUNK_MAX_ATTEMPTS > 0 /\ NoNm \notin Nms
      /\ call.op = "history" /\ call.pc = "ask" /\ call \in HistoryCalls
  <2>1. Asked("history")
    BY DEF HistoryAnswered, HistoryRefused, HistoryAnsweredOddly
  <2> QED BY <2>1, WbClientAssumption, AskedIs DEF NoNm
<1>1. ASSUME HistoryAnswered PROVE ClientIInv'
  <2> DEFINE chunk == FirstOf(FUNNEL_CHUNK_SIZE, call.left)
             left == call.left \ chunk
  <2>1. chunk \subseteq call.left /\ call.left \subseteq Nms
    BY <1>0 DEF FirstOf, HistoryCalls
  <2>2. PICK entries \in SUBSET (chunk \cup {NoNm}) :
          /\ call' = [call EXCEPT !.rows = @ \cup Parsed(entries), !.left = left, !.tries = 0,
                                  !.pc = IF left = {} THEN "returned" ELSE "ask"]
          /\ untold' = untold \cup (chunk \ entries)
    BY <1>1 DEF HistoryAnswered
  <2> HIDE DEF chunk
  <2>3. Parsed(entries) = chunk \cap entries
    BY <1>0, <2>1, <2>2 DEF Parsed
  <2>4. /\ call'.op = "history" /\ call'.rows = call.rows \cup (chunk \cap entries) /\ call'.left = left
        /\ call'.tries = 0 /\ call'.pc = IF left = {} THEN "returned" ELSE "ask"
    BY <1>0, <2>2, <2>3 DEF HistoryCalls
  <2>5. call' \in HistoryCalls
    BY <1>0, <2>1, <2>2, <2>3 DEF HistoryCalls
  <2>6. call'.rows = (Nms \ call'.left) \ untold' /\ untold' \cap call'.left = {}
    <3>1. call.rows = (Nms \ call.left) \ untold /\ untold \cap call.left = {}
      BY <1>0 DEF ClientIInv, HistoryGoesOn
    <3> QED BY <2>1, <2>2, <2>4, <3>1
  <2>7. odd' = odd
    BY <1>1 DEF HistoryAnswered
  <2> QED BY <1>0, <2>4, <2>5, <2>6, <2>7
          DEF ClientIInv, CallOK, HistoryGoesOn, ProductsGoOn, SalesGoOn, SpendIsKept, Returned
<1>2. ASSUME HistoryRefused PROVE ClientIInv'
  <2>1. odd' = odd /\ untold' = untold
    BY <1>2 DEF HistoryRefused, AsBefore
  <2>2. CASE Raised
    BY <1>0, <2>1, <2>2, CallRaises
  <2>3. CASE ~Raised
    <3>1. /\ call.tries + 1 < FUNNEL_CHUNK_MAX_ATTEMPTS /\ call.wait
          /\ call' = [call EXCEPT !.tries = call.tries + 1]
      BY <1>0, <1>2, <2>3 DEF HistoryRefused, HistoryCalls
    <3>2. call' \in HistoryCalls
      BY <1>0, <3>1 DEF HistoryCalls
    <3>3. /\ call'.op = "history" /\ call'.rows = call.rows /\ call'.left = call.left /\ call'.wait = call.wait
          /\ call'.tries = call.tries + 1 /\ call'.pc = call.pc
      BY <1>0, <3>1 DEF HistoryCalls
    <3> QED BY <1>0, <2>1, <3>1, <3>2, <3>3
            DEF ClientIInv, CallOK, HistoryGoesOn, ProductsGoOn, SalesGoOn, SpendIsKept, Returned
  <2> QED BY <2>2, <2>3
<1>3. ASSUME HistoryAnsweredOddly PROVE ClientIInv'
  <2>1. odd' = TRUE /\ untold' = untold /\ call' = [call EXCEPT !.tries = @ + 1]
    BY <1>3 DEF HistoryAnsweredOddly
  <2>2. call' \in HistoryCalls
    BY <1>0, <2>1 DEF HistoryCalls
  <2>3. call'.op = "history" /\ call'.rows = call.rows /\ call'.left = call.left /\ call'.pc = call.pc
    BY <1>0, <2>1 DEF HistoryCalls
  <2> QED BY <1>0, <2>1, <2>2, <2>3
          DEF ClientIInv, CallOK, HistoryGoesOn, ProductsGoOn, SalesGoOn, SpendIsKept, Returned
<1> QED BY <1>1, <1>2, <1>3

(* The products of one day.                                                   *)
LEMMA ProductsStep ==
  ASSUME ClientIInv, ProductsAnswered \/ ProductsRefused
  PROVE  ClientIInv'
<1>0. /\ FUNNEL_CHUNK_MAX_ATTEMPTS \in Nat /\ NoNm \notin Nms
      /\ call.op = "products" /\ call.pc = "ask" /\ call \in ProductsCalls /\ odd' = odd
  BY WbClientAssumption, AskedIs DEF ProductsAnswered, ProductsRefused, NoNm, AsBefore
<1>1. ASSUME ProductsAnswered PROVE ClientIInv'
  <2>1. PICK entries \in SUBSET (call.asked \cup {NoNm}) :
          /\ call' = [call EXCEPT !.rows = Parsed(entries), !.pc = "returned"]
          /\ untold' = call.asked \ entries
    BY <1>1 DEF ProductsAnswered
  <2>2. Parsed(entries) = call.asked \cap entries
    BY <1>0, <2>1 DEF Parsed, ProductsCalls
  <2>3. call' \in ProductsCalls
    BY <1>0, <2>1, <2>2 DEF ProductsCalls
  <2>4. /\ call'.op = "products" /\ call'.pc = "returned" /\ call'.rows = call.asked \cap entries
        /\ call'.tries = call.tries /\ call'.asked = call.asked /\ call'.most = call.most
    BY <1>0, <2>1, <2>2 DEF ProductsCalls
  <2> QED BY <1>0, <2>1, <2>3, <2>4
          DEF ClientIInv, CallOK, HistoryGoesOn, ProductsGoOn, SalesGoOn, SpendIsKept, Returned
<1>2. ASSUME ProductsRefused PROVE ClientIInv'
  <2>0. untold' = untold
    BY <1>2 DEF ProductsRefused, AsBefore
  <2>1. CASE Raised
    BY <1>0, <2>0, <2>1, CallRaises
  <2>2. CASE ~Raised
    <3>1. /\ ~(call.tries + 1 >= call.most)
          /\ call' = [call EXCEPT !.tries = call.tries + 1]
      BY <1>0, <1>2, <2>2 DEF ProductsRefused, ProductsCalls
    <3>2. call' \in ProductsCalls
      BY <1>0, <3>1 DEF ProductsCalls
    <3>3. /\ call'.op = "products" /\ call'.asked = call.asked /\ call'.most = call.most
          /\ call'.tries = call.tries + 1 /\ call'.pc = "ask" /\ call.most \in Nat /\ call.tries \in Nat
      BY <1>0, <3>1 DEF ProductsCalls
    <3> QED BY <1>0, <2>0, <3>1, <3>2, <3>3
            DEF ClientIInv, CallOK, HistoryGoesOn, ProductsGoOn, SalesGoOn, SpendIsKept, Returned
  <2> QED BY <2>1, <2>2
<1> QED BY <1>1, <1>2

(* A page of the report of sales, or its end.                                 *)
LEMMA SalesStep ==
  ASSUME ClientIInv, SalesPage \/ SalesEnd \/ SalesRefused429
  PROVE  ClientIInv'
<1>0. call.op = "sales" /\ call.pc = "ask" /\ call \in SalesCalls /\ ReportLen \in Nat /\ odd' = odd
  BY WbClientAssumption, AskedIs DEF SalesPage, SalesEnd, SalesRefused429, AsBefore
<1>1. ASSUME SalesPage PROVE ClientIInv'
  <2>1. PICK a \in 0..ReportLen : a = call.after
    BY <1>0 DEF SalesCalls
  <2>2. PICK n \in 0..PageLimit, lastHasId \in BOOLEAN :
          LET page == FirstOf(n, (a + 1)..ReportLen)
              after == IF page = {} THEN call.after ELSE Max(page) IN
          /\ call' = [call EXCEPT !.rows = @ \cup (page \ NoDateRows), !.after = after,
                       !.pc = IF PageIsLast(page) \/ ~lastHasId THEN "returned" ELSE "ask"]
          /\ untold' = IF n < PageLimit \/ ~lastHasId THEN (after + 1)..ReportLen ELSE {}
    BY <1>1, <2>1 DEF SalesPage
  <2>3. PICK page :
          LET after == IF page = {} THEN call.after ELSE Max(page) IN
          /\ page = FirstOf(n, (a + 1)..ReportLen)
          /\ call' = [call EXCEPT !.rows = @ \cup (page \ NoDateRows), !.after = after,
                       !.pc = IF PageIsLast(page) \/ ~lastHasId THEN "returned" ELSE "ask"]
          /\ untold' = IF n < PageLimit \/ ~lastHasId THEN (after + 1)..ReportLen ELSE {}
    BY <2>2
  <2>4. PICK m \in a..ReportLen :
          /\ page = (a + 1)..m
          /\ PageIsLast(page) /\ n = PageLimit => m = ReportLen
          /\ ~PageIsLast(page) => n = PageLimit
          /\ page = {} => m = a
          /\ page # {} => Max(page) = m
    BY <2>3, PageIs
  <2>5. (IF page = {} THEN call.after ELSE Max(page)) = m
    BY <2>1, <2>4
  <2> DEFINE last == IF PageIsLast(page) \/ ~lastHasId THEN "returned" ELSE "ask"
  <2>6. /\ call' = [call EXCEPT !.rows = call.rows \cup (page \ NoDateRows), !.after = m, !.pc = last]
        /\ untold' = IF n < PageLimit \/ ~lastHasId THEN (m + 1)..ReportLen ELSE {}
    BY <1>0, <2>3, <2>5 DEF SalesCalls
  <2>7. a \in Nat /\ m \in 0..ReportLen /\ page \subseteq 1..ReportLen /\ 1..m = (1..a) \cup page
    BY <1>0, <2>1, <2>4
  <2>8. call' \in SalesCalls
    BY <1>0, <2>6, <2>7 DEF SalesCalls
  <2>9. /\ call'.op = "sales" /\ call'.rows = call.rows \cup (page \ NoDateRows) /\ call'.after = m
        /\ call'.pc = last
    BY <1>0, <2>6 DEF SalesCalls
  <2>10. call'.rows = (1..m) \ NoDateRows
    BY <1>0, <2>1, <2>7, <2>9 DEF ClientIInv, SalesGoOn
  <2>11. call'.pc = "returned" => untold' = (m + 1)..ReportLen
    <3>1. CASE n < PageLimit \/ ~lastHasId
      BY <2>6, <3>1
    <3>2. CASE ~(n < PageLimit \/ ~lastHasId)
      <4>1. n = PageLimit
        BY <3>2, WbClientAssumption
      <4>2. call'.pc = "returned" => m = ReportLen
        BY <2>4, <2>9, <3>2, <4>1
      <4>3. (ReportLen + 1)..ReportLen = {}
        BY <1>0
      <4> QED BY <2>6, <3>2, <4>2, <4>3
    <3> QED BY <3>1, <3>2
  <2> QED BY <1>0, <2>8, <2>9, <2>10, <2>11
          DEF ClientIInv, CallOK, HistoryGoesOn, ProductsGoOn, SalesGoOn, SpendIsKept, Returned
<1>2. ASSUME SalesEnd PROVE ClientIInv'
  <2>1. CASE Raised /\ untold' = untold
    BY <1>0, <2>1, CallRaises
  <2>2. CASE call' = [call EXCEPT !.pc = "returned"] /\ untold' = (call.after + 1)..ReportLen
    <3>1. call' \in SalesCalls
      BY <1>0, <2>2 DEF SalesCalls
    <3>2. call'.op = "sales" /\ call'.rows = call.rows /\ call'.after = call.after
      BY <1>0, <2>2 DEF SalesCalls
    <3> QED BY <1>0, <2>2, <3>1, <3>2
            DEF ClientIInv, CallOK, HistoryGoesOn, ProductsGoOn, SalesGoOn, SpendIsKept, Returned
  <2> QED BY <1>2, <2>1, <2>2 DEF SalesEnd
<1>3. ASSUME SalesRefused429 PROVE ClientIInv'
  BY <1>0, <1>3, CallRaises DEF SalesRefused429, AsBefore
<1> QED BY <1>1, <1>2, <1>3

(* The charges, split: of each the parts are its own.                         *)
LEMMA AdsStep ==
  ASSUME ClientIInv, AdsAnswered \/ AdsRefused
  PROVE  ClientIInv'
<1>0. call.op = "ads" /\ call.pc = "ask" /\ call \in AdsCalls /\ odd' = odd
  BY AskedIs DEF AdsAnswered, AdsRefused, AsBefore
<1>1. ASSUME AdsAnswered PROVE ClientIInv'
  <2>1. PICK refused \in SUBSET DOMAIN Campaigns, charged \in SUBSET Updates :
          /\ call' = [call EXCEPT !.pc = "returned",
                        !.rows = UNION {Split(u, ArticlesOf(u.campaign, refused)) : u \in {v \in charged : v.within}}]
          /\ untold' = {u.id : u \in Updates \ charged}
    BY <1>1 DEF AdsAnswered
  <2> DEFINE parts(u) == Split(u, ArticlesOf(u.campaign, refused))
             rows == UNION {parts(u) : u \in {v \in charged : v.within}}
             counts(u) == u.within /\ u \in charged
  <2>2. ASSUME NEW u \in Updates
        PROVE  /\ parts(u) \subseteq AdRows /\ \A r \in parts(u) : r.update = u.id
               /\ Sum([r \in parts(u) |-> r.spend], parts(u)) = u.sum
    <3>1. ArticlesOf(u.campaign, refused) \in {{}, Campaigns[u.campaign]}
      BY DEF ArticlesOf
    <3> QED BY <3>1, PartsAddUp
  <2> HIDE DEF parts
  <2>3. rows \subseteq AdRows
    BY <2>2
  <2>4. call' = [call EXCEPT !.pc = "returned", !.rows = rows]
    BY <2>1 DEF parts
  <2>5. ASSUME NEW u \in Updates
        PROVE  {r \in rows : r.update = u.id} = IF counts(u) THEN parts(u) ELSE {}
    <3>1. \A v \in Updates : v.id = u.id => v = u
      BY WbClientAssumption
    <3> QED BY <2>2, <3>1
  <2>9. ASSUME NEW u \in Updates
        PROVE  counts(u) <=> u.within /\ u.id \notin untold'
    BY <2>1, WbClientAssumption
  <2> HIDE DEF rows, counts
  <2>6. call' \in AdsCalls /\ call'.op = "ads" /\ call'.rows = rows
    BY <1>0, <2>3, <2>4 DEF AdsCalls
  <2>7. ASSUME NEW u \in Updates
        PROVE  SumFunctionOnSet([r \in RowsOf(u)' |-> r.spend], RowsOf(u)')
                 = IF u.within /\ u.id \notin untold' THEN u.sum ELSE 0
    <3>1. RowsOf(u)' = IF counts(u) THEN parts(u) ELSE {}
      BY <2>5, <2>6 DEF RowsOf
    <3>2. Sum([r \in {} |-> r.spend], {}) = 0
      BY SumOfNone
    <3> QED BY <2>2, <2>9, <3>1, <3>2 DEF Sum
  <2>8. SpendIsKept'
    BY <2>7 DEF SpendIsKept
  <2> QED BY <1>0, <2>6, <2>8 DEF ClientIInv, CallOK, HistoryGoesOn, ProductsGoOn, SalesGoOn
<1>2. ASSUME AdsRefused PROVE ClientIInv'
  <2>1. PICK last \in {"raised", "nothing"} : call' = [call EXCEPT !.pc = last]
    BY <1>2 DEF AdsRefused
  <2>2. call' \in AdsCalls /\ call'.op = "ads" /\ call'.pc # "returned"
    BY <1>0, <2>1 DEF AdsCalls
  <2> QED BY <1>0, <2>2
          DEF ClientIInv, CallOK, HistoryGoesOn, ProductsGoOn, SalesGoOn, SpendIsKept, Returned
<1> QED BY <1>1, <1>2

(* A caller of the client gets all the rows that Wildberries told of or none, *)
(* spends that add up, and an answer after a bounded number of tries, for any *)
(* articles, reports, campaigns, short answers and refusals.                  *)
THEOREM ClientHolds == WbClientSpec => []WbClientInv
<1>1. WbClientInit => ClientIInv
  <2> SUFFICES ASSUME WbClientInit PROVE ClientIInv
    OBVIOUS
  <2>1. call = [op |-> "none", pc |-> "returned"] /\ odd = FALSE
    BY DEF WbClientInit
  <2>2. call \in NoCalls /\ call.op = "none"
    BY <2>1 DEF NoCalls
  <2> QED BY <2>1, <2>2
          DEF ClientIInv, CallOK, HistoryGoesOn, ProductsGoOn, SalesGoOn, SpendIsKept, Returned
<1>2. ClientIInv /\ [WbClientNext]_wbClientVars => ClientIInv'
  <2> SUFFICES ASSUME ClientIInv, [WbClientNext]_wbClientVars PROVE ClientIInv'
    OBVIOUS
  <2>1. ASSUME CallIsForbidden PROVE ClientIInv'
    <3>1. call.op # "none" /\ Raised /\ UNCHANGED <<odd, untold>>
      BY <2>1 DEF CallIsForbidden, Asked, AsBefore
    <3> QED BY <3>1, CallRaises
  <2>2. ASSUME UNCHANGED wbClientVars PROVE ClientIInv'
    BY <2>2 DEF wbClientVars, ClientIInv, CallOK, HistoryGoesOn, ProductsGoOn, SalesGoOn, SpendIsKept, Returned, RowsOf
  <2> QED BY <2>1, <2>2, CallBegins, HistoryStep, ProductsStep, SalesStep, AdsStep DEF WbClientNext
<1>3. ClientIInv => WbClientInv
  <2> SUFFICES ASSUME ClientIInv PROVE WbClientInv
    OBVIOUS
  <2>1. ASSUME Returned("sales") PROVE call.rows = ReportRows \ untold
    <3>1. PICK n \in Nat, a \in Nat : n = ReportLen /\ a = call.after /\ a <= n
      BY <2>1, WbClientAssumption
      DEF Returned, ClientIInv, CallOK, HistoryCalls, ProductsCalls, SalesCalls, AdsCalls, NoCalls
    <3>2. 1..a = (1..n) \ ((a + 1)..n)
      BY <3>1
    <3> QED BY <2>1, <3>1, <3>2 DEF Returned, ClientIInv, SalesGoOn, ReportRows
  <2>3. ReturnedCallHasAllTold
    BY <2>1 DEF ClientIInv, HistoryGoesOn, ProductsGoOn, ReturnedCallHasAllTold, Returned
  <2>2. TriesAreBounded
    BY WbClientAssumption DEF ClientIInv, HistoryGoesOn, ProductsGoOn, TriesAreBounded,
       CallOK, HistoryCalls, ProductsCalls, SalesCalls, AdsCalls, NoCalls
  <2> QED BY <2>2, <2>3 DEF ClientIInv, WbClientInv
<1> QED BY <1>1, <1>2, <1>3, PTL DEF WbClientSpec

--------------------------------------------------------------------------------
(* The day, its inputs, and the two tables that workers make of them.         *)

(* What is imported and entered, and the jobs that make tables of it.         *)
CostTables == UNION {[D -> Costs \cup {0}] : D \in SUBSET Articles}
InputSets ==
  [sales : SalesReports \cup {{}}, ads : AdReports \cup {<< >>}, cost : CostTables,
   expenses : Seq(ExpenseSums), rate : TaxRates \cup {TAX_RATE},
   ordered : {o \in SUBSET Articles : IsFiniteSet(o)}]
Working == {"reads", "deletes", "waits", "commits"}
Imports == [pc : {"articles", "queue_pnl", "queue_sku"}]
Recalcs ==
  [pc : Working, table : Tables, in : InputSets, older : SUBSET FigureWorkers,
   overtaken : BOOLEAN, blind : BOOLEAN]
Jobs == {NoJob} \cup Imports \cup Recalcs
RowsHaveKeys ==
  /\ \A r, s \in tables["pnl"] : r = s
  /\ \A r, s \in tables["sku"] : r.nm = s.nm => r = s
ValuesOK ==
  /\ inputs \in InputSets /\ job \in [FigureWorkers -> Jobs]
  /\ tables = [t \in Tables |-> tables[t]] /\ RowsHaveKeys
  /\ todo \in [Tables -> Nat] /\ unsure \subseteq Tables
  /\ events \in 0..MaxEvents /\ figureFaults \in 0..FigureFaults

(* Of two workers that build one table the one began before the other.        *)
OneIsOlder ==
  \A t \in Tables :
    /\ \A v \in OnTable(t) : job[v].older \subseteq OnTable(t) /\ v \notin job[v].older
    /\ \A v, w \in OnTable(t) : v # w => (v \in job[w].older <=> w \notin job[v].older)
    /\ \A u, v, w \in OnTable(t) : u \in job[v].older /\ v \in job[w].older => u \in job[w].older

(* One at a time has written and not committed, and no key refuses it.        *)
OneCommits ==
  \A t \in Tables :
    /\ \A v, w \in At(t, "commits") : v = w
    /\ \A w \in At(t, "commits") : KeysOf(t, Unseen(w)) \cap KeysOf(t, Own(w)) = {}

(* What a worker has read is what the inputs say.                             *)
SameEntries(a, b) ==
  /\ \A nm \in Articles \cup {NoArticle} : CostOf(a, nm) = CostOf(b, nm)
  /\ a.expenses = b.expenses /\ a.rate = b.rate
SameImports(a, b) == a.sales = b.sales /\ a.ads = b.ads /\ a.ordered = b.ordered
Fresh(w) ==
  /\ SameEntries(job[w].in, inputs)
  /\ job[w].pc # "reads" => SameImports(job[w].in, inputs)

(* A table that should be current is, and what may write it later is fresh or *)
(* known to be late; or a worker with fresh inputs will make it so, and those *)
(* that are not fresh began before it.                                        *)
OneWillShow(t) ==
  \E w \in OnTable(t) :
    /\ Fresh(w) /\ ~job[w].overtaken
    /\ \A v \in OnTable(t) : Fresh(v) \/ v \in job[w].older
Shown(t) ==
  /\ tables[t] = Built(t, inputs)
  /\ \A v \in OnTable(t) : Fresh(v) \/ job[v].overtaken
Promised == \A t \in Tables : todo[t] = 0 /\ t \notin unsure => OneWillShow(t) \/ Shown(t)

FiguresIInv == ValuesOK /\ OneIsOlder /\ OneCommits /\ Promised

--------------------------------------------------------------------------------
(* The kinds of jobs, told apart by their fields.                             *)
LEMMA JobKinds ==
  ASSUME NEW j \in Jobs
  PROVE  /\ "table" \in DOMAIN j <=> j \in Recalcs
         /\ "older" \in DOMAIN j <=> j \in Recalcs
         /\ j.pc \in Working <=> j \in Recalcs
         /\ j.pc \in {"articles", "queue_pnl", "queue_sku"} <=> j \in Imports
         /\ j = NoJob <=> j.pc = "idle"
<1>1. CASE j = NoJob
  BY <1>1 DEF NoJob, Recalcs, Imports, Working
<1>2. CASE j \in Imports
  BY <1>2 DEF NoJob, Recalcs, Imports, Working
<1>3. CASE j \in Recalcs
  BY <1>3 DEF NoJob, Recalcs, Imports, Working
<1> QED BY <1>1, <1>2, <1>3 DEF Jobs

(* Who builds a table.                                                        *)
LEMMA WhoBuilds ==
  ASSUME job \in [FigureWorkers -> Jobs], NEW t \in Tables, NEW v \in FigureWorkers
  PROVE  v \in OnTable(t) <=> job[v] \in Recalcs /\ job[v].table = t
BY JobKinds DEF OnTable

(* A step in which w's job becomes another and w does not change tables.      *)
LEMMA OthersStay ==
  ASSUME job \in [FigureWorkers -> Jobs], NEW w \in FigureWorkers, NEW j \in Jobs, Becomes(w, j)
  PROVE  /\ job' \in [FigureWorkers -> Jobs] /\ job'[w] = j
         /\ \A v \in FigureWorkers \ {w} : job'[v] = job[v]
BY DEF Becomes

(* The jobs when w has left.                                                  *)
LEMMA WhenOneLeaves ==
  ASSUME job \in [FigureWorkers -> Jobs], NEW w \in FigureWorkers
  PROVE  /\ Without(w) \in [FigureWorkers -> Jobs] /\ Without(w)[w] = NoJob
         /\ \A v \in FigureWorkers \ {w} :
              IF job[v] \in Recalcs
                THEN Without(w)[v] \in Recalcs /\ Without(w)[v] = [job[v] EXCEPT !.older = job[v].older \ {w}]
                ELSE Without(w)[v] = job[v]
<1>1. ASSUME NEW v \in FigureWorkers \ {w}, job[v] \in Recalcs
      PROVE  Without(w)[v] \in Recalcs /\ Without(w)[v] = [job[v] EXCEPT !.older = job[v].older \ {w}]
  <2>1. Without(w)[v] = [job[v] EXCEPT !.older = job[v].older \ {w}]
    BY <1>1, JobKinds DEF Without
  <2> QED BY <1>1, <2>1 DEF Recalcs
<1>2. ASSUME NEW v \in FigureWorkers \ {w}, job[v] \notin Recalcs PROVE Without(w)[v] = job[v]
  BY <1>2, JobKinds DEF Without
<1>3. Without(w)[w] = NoJob
  BY DEF Without
<1>4. \A v \in FigureWorkers : Without(w)[v] \in Jobs
  BY <1>1, <1>2, <1>3 DEF Jobs
<1>5. Without(w) = [v \in FigureWorkers |-> Without(w)[v]]
  BY DEF Without
<1> QED BY <1>1, <1>2, <1>3, <1>4, <1>5

(* What may be written into the inputs leaves them inputs.                    *)
LEMMA InputsMayChange ==
  ASSUME NEW in \in InputSets
  PROVE  /\ \A report \in SalesReports : [in EXCEPT !.sales = report] \in InputSets
         /\ \A report \in AdReports : [in EXCEPT !.ads = report] \in InputSets
         /\ \A cost \in CostTables : [in EXCEPT !.cost = cost] \in InputSets
         /\ \A expenses \in Seq(ExpenseSums) : [in EXCEPT !.expenses = expenses] \in InputSets
         /\ \A rate \in TaxRates : [in EXCEPT !.rate = rate] \in InputSets
         /\ \A nm \in Articles : [in EXCEPT !.ordered = @ \cup {nm}] \in InputSets
<1>1. ASSUME NEW nm \in Articles PROVE in.ordered \cup {nm} \in {o \in SUBSET Articles : IsFiniteSet(o)}
  BY FS_AddElement DEF InputSets
<1> QED BY <1>1 DEF InputSets

(* New articles cost nothing yet, known ones what is entered.                 *)
LEMMA CostsMayChange ==
  ASSUME NEW in \in InputSets
  PROVE  /\ \A nm \in DOMAIN in.cost, c \in Costs : [in.cost EXCEPT ![nm] = c] \in CostTables
         /\ \A nms \in SUBSET Articles :
              [nm \in DOMAIN in.cost \cup nms |-> IF nm \in DOMAIN in.cost THEN in.cost[nm] ELSE 0] \in CostTables
<1>1. PICK D \in SUBSET Articles : in.cost \in [D -> Costs \cup {0}]
  BY DEF InputSets, CostTables
<1>2. ASSUME NEW nm \in DOMAIN in.cost, NEW c \in Costs PROVE [in.cost EXCEPT ![nm] = c] \in CostTables
  <2>1. [in.cost EXCEPT ![nm] = c] \in [D -> Costs \cup {0}]
    BY <1>1
  <2> QED BY <2>1 DEF CostTables
<1>3. ASSUME NEW nms \in SUBSET Articles
      PROVE  [nm \in DOMAIN in.cost \cup nms |-> IF nm \in DOMAIN in.cost THEN in.cost[nm] ELSE 0] \in CostTables
  <2> DEFINE more == [nm \in DOMAIN in.cost \cup nms |-> IF nm \in DOMAIN in.cost THEN in.cost[nm] ELSE 0]
  <2>1. DOMAIN in.cost = D
    BY <1>1
  <2>2. more \in [D \cup nms -> Costs \cup {0}]
    BY <1>1, <2>1
  <2>3. D \cup nms \in SUBSET Articles
    OBVIOUS
  <2> HIDE DEF more
  <2> QED BY <2>2, <2>3 DEF CostTables, more
<1> QED BY <1>2, <1>3

(* What is sold or advertised has an article, or none.                        *)
LEMMA SoldAreArticles ==
  ASSUME NEW in \in InputSets
  PROVE  /\ {r.nm : r \in in.sales} \cup DOMAIN in.ads \subseteq Articles \cup {NoArticle}
         /\ IsFiniteSet(in.sales) /\ IsFiniteSet(DOMAIN in.ads) /\ IsFiniteSet(in.ordered)
<1>1. in.sales \in SalesReports \cup {{}} /\ in.ads \in AdReports \cup {<< >>} /\ IsFiniteSet(in.ordered)
  BY DEF InputSets
<1>2. DOMAIN << >> = {}
  OBVIOUS
<1>3. {r.nm : r \in in.sales} \subseteq Articles \cup {NoArticle}
  BY <1>1 DEF Articles
<1>4. DOMAIN in.ads \subseteq Articles \cup {NoArticle}
  BY <1>1, <1>2 DEF Articles
<1>5. IsFiniteSet(in.sales) /\ IsFiniteSet(DOMAIN in.ads)
  BY <1>1, <1>2, FS_EmptySet, DailyFiguresAssumption
<1> QED BY <1>1, <1>3, <1>4, <1>5

(* The steps that change the inputs, or only what is queued.                  *)
Changes(w) == ImportStores(w) \/ ArticlesEnsured(w) \/ QueueRecalculation(w)
Saves == CostIsSaved \/ ExpenseIsCreated \/ ExpenseIsUpdated \/ TaxRateIsSaved \/ FunnelIsWritten

(* What is saved leaves the inputs as they should be, and is saved as such.   *)
LEMMA SavedInputs ==
  ASSUME inputs \in InputSets, Saves
  PROVE  inputs' \in InputSets /\ Saved
<1>1. ASSUME CostIsSaved PROVE inputs' \in InputSets /\ Saved
  <2>1. PICK nm \in DOMAIN inputs.cost, c \in Costs : inputs' = [inputs EXCEPT !.cost[nm] = c]
    BY <1>1 DEF CostIsSaved
  <2>2. inputs' = [inputs EXCEPT !.cost = [inputs.cost EXCEPT ![nm] = c]]
    BY <2>1
  <2> QED BY <1>1, <2>2, InputsMayChange, CostsMayChange DEF CostIsSaved
<1>2. ASSUME ExpenseIsCreated PROVE inputs' \in InputSets /\ Saved
  <2>1. PICK x \in ExpenseSums : inputs' = [inputs EXCEPT !.expenses = Append(@, x)]
    BY <1>2 DEF ExpenseIsCreated
  <2>2. inputs' = [inputs EXCEPT !.expenses = Append(inputs.expenses, x)]
    BY <2>1
  <2>3. Append(inputs.expenses, x) \in Seq(ExpenseSums)
    BY DEF InputSets
  <2> QED BY <1>2, <2>2, <2>3, InputsMayChange DEF ExpenseIsCreated
<1>3. ASSUME ExpenseIsUpdated PROVE inputs' \in InputSets /\ Saved
  <2>1. PICK i \in DOMAIN inputs.expenses :
          \/ \E x \in ExpenseSums : inputs' = [inputs EXCEPT !.expenses[i] = x]
          \/ inputs' = [inputs EXCEPT !.expenses = RemoveAt(@, i)]
    BY <1>3 DEF ExpenseIsUpdated
  <2>2. inputs.expenses \in Seq(ExpenseSums) /\ i \in 1..Len(inputs.expenses)
    BY <2>1 DEF InputSets
  <2>3. ASSUME NEW x \in ExpenseSums, inputs' = [inputs EXCEPT !.expenses[i] = x] PROVE inputs' \in InputSets
    <3>1. inputs' = [inputs EXCEPT !.expenses = [inputs.expenses EXCEPT ![i] = x]]
      BY <2>3
    <3>2. [inputs.expenses EXCEPT ![i] = x] \in Seq(ExpenseSums)
      BY <2>2
    <3> QED BY <3>1, <3>2, InputsMayChange
  <2>4. ASSUME inputs' = [inputs EXCEPT !.expenses = RemoveAt(@, i)] PROVE inputs' \in InputSets
    <3>1. inputs' = [inputs EXCEPT !.expenses = RemoveAt(inputs.expenses, i)]
      BY <2>4
    <3>2. RemoveAt(inputs.expenses, i) \in Seq(ExpenseSums)
      BY <2>2 DEF RemoveAt
    <3> QED BY <3>1, <3>2, InputsMayChange
  <2> QED BY <1>3, <2>1, <2>3, <2>4 DEF ExpenseIsUpdated
<1>4. ASSUME TaxRateIsSaved PROVE inputs' \in InputSets /\ Saved
  BY <1>4, InputsMayChange DEF TaxRateIsSaved
<1>5. ASSUME FunnelIsWritten PROVE inputs' \in InputSets /\ Saved
  BY <1>5, InputsMayChange DEF FunnelIsWritten
<1> QED BY <1>1, <1>2, <1>3, <1>4, <1>5 DEF Saves

--------------------------------------------------------------------------------
(* What is built depends on the costs of articles, not on which are known.    *)
LEMMA FiguresAgain ==
  ASSUME NEW a \in InputSets, NEW b \in InputSets, SameEntries(a, b), NEW rows \in SUBSET a.sales,
         NEW spend, NEW expenses
  PROVE  Figures(a, rows, spend, expenses) = Figures(b, rows, spend, expenses)
<1>1. \A r \in rows : CostOf(a, r.nm) = CostOf(b, r.nm)
  BY SoldAreArticles DEF SameEntries
<1>2. [r \in rows |-> SignOf(r) * CostOf(a, r.nm) * r.quantity] = [r \in rows |-> SignOf(r) * CostOf(b, r.nm) * r.quantity]
  BY <1>1
<1>3. a.rate = b.rate
  BY DEF SameEntries
<1> QED BY <1>2, <1>3 DEF Figures

(* Inputs that say the same make the same rows.                               *)
LEMMA BuiltAgain ==
  ASSUME NEW a \in InputSets, NEW b \in InputSets, SameEntries(a, b), SameImports(a, b), NEW t
  PROVE  Built(t, a) = Built(t, b)
<1>1. a.sales = b.sales /\ a.ads = b.ads /\ a.ordered = b.ordered /\ a.expenses = b.expenses
  BY DEF SameEntries, SameImports
<1>2. PnlOf(a) = PnlOf(b)
  <2>1. \A spend, expenses : Figures(a, a.sales, spend, expenses) = Figures(b, b.sales, spend, expenses)
    BY <1>1, FiguresAgain
  <2> QED BY <1>1, <2>1 DEF PnlOf
<1>3. SkuOf(a) = SkuOf(b)
  <2> DEFINE rowFor(in, nm) == [nm |-> nm, orders |-> IF nm \in in.ordered THEN 1 ELSE 0,
               figures |-> Figures(in, {r \in in.sales : r.nm = nm}, SpendOf(in.ads, {nm}), 0)]
             nms == ({r.nm : r \in a.sales} \ {NoArticle}) \cup (DOMAIN a.ads \ {NoArticle}) \cup a.ordered
  <2>1. ASSUME NEW nm PROVE rowFor(a, nm) = rowFor(b, nm)
    <3>1. {r \in a.sales : r.nm = nm} \in SUBSET a.sales
      OBVIOUS
    <3>2. Figures(a, {r \in a.sales : r.nm = nm}, SpendOf(a.ads, {nm}), 0)
            = Figures(b, {r \in a.sales : r.nm = nm}, SpendOf(a.ads, {nm}), 0)
      BY <3>1, FiguresAgain
    <3> QED BY <1>1, <3>2
  <2>2. SkuOf(a) = {rowFor(a, nm) : nm \in nms}
    BY DEF SkuOf
  <2>3. SkuOf(b) = {rowFor(b, nm) : nm \in nms}
    BY <1>1 DEF SkuOf
  <2> HIDE DEF rowFor, nms
  <2> QED BY <2>1, <2>2, <2>3
<1> QED BY <1>2, <1>3 DEF Built

(* A day has one row of each key.                                             *)
LEMMA BuiltHasKeys ==
  ASSUME NEW in
  PROVE  /\ \A r, s \in Built("pnl", in) : r = s
         /\ \A r, s \in Built("sku", in) : r.nm = s.nm => r = s
<1>1. \A r, s \in Built("pnl", in) : r = s
  BY DEF Built, PnlOf
<1>2. \A r, s \in SkuOf(in) : r.nm = s.nm => r = s
  <2> DEFINE rowFor(nm) == [nm |-> nm, orders |-> IF nm \in in.ordered THEN 1 ELSE 0,
               figures |-> Figures(in, {r \in in.sales : r.nm = nm}, SpendOf(in.ads, {nm}), 0)]
  <2>0. \A nm : rowFor(nm).nm = nm
    OBVIOUS
  <2>1. ASSUME NEW r \in SkuOf(in) PROVE r = rowFor(r.nm)
    <3>1. PICK nm : r = rowFor(nm)
      BY DEF SkuOf
    <3> QED BY <2>0, <3>1
  <2> HIDE DEF rowFor
  <2> QED BY <2>1
<1> QED BY <1>1, <1>2 DEF Built

(* Rows with different keys may be in one table.                              *)
LEMMA TogetherHaveKeys ==
  ASSUME NEW t \in Tables, NEW in, NEW rows, KeysOf(t, rows) \cap KeysOf(t, Built(t, in)) = {},
         t = "pnl" => \A r, s \in rows : r = s,
         t = "sku" => \A r, s \in rows : r.nm = s.nm => r = s
  PROVE  /\ t = "pnl" => \A r, s \in Built(t, in) \cup rows : r = s
         /\ t = "sku" => \A r, s \in Built(t, in) \cup rows : r.nm = s.nm => r = s
<1>1. CASE t = "pnl"
  <2>1. rows = {} \/ Built(t, in) = {}
    BY <1>1 DEF KeysOf
  <2> QED BY <1>1, <2>1, BuiltHasKeys
<1>2. CASE t = "sku"
  <2>1. \A r \in rows, s \in Built(t, in) : r.nm # s.nm
    <3>1. KeysOf(t, rows) = {r.nm : r \in rows} /\ KeysOf(t, Built(t, in)) = {r.nm : r \in Built(t, in)}
      BY <1>2 DEF KeysOf
    <3> QED BY <3>1
  <2> QED BY <1>2, <2>1, BuiltHasKeys
<1> QED BY <1>1, <1>2 DEF Tables

--------------------------------------------------------------------------------
(* A worker begins with what it reads first.                                  *)
LEMMA BeginsIs ==
  ASSUME ValuesOK, NEW w \in FigureWorkers, RecalcBegins(w)
  PROVE  \E t \in Tables :
           /\ todo[t] > 0 /\ todo' = [todo EXCEPT ![t] = todo[t] - 1]
           /\ job[w] = NoJob /\ job' \in [FigureWorkers -> Jobs] /\ job'[w] \in Recalcs
           /\ job'[w] = [pc |-> "reads", table |-> t, in |-> inputs, older |-> OnTable(t),
                         overtaken |-> FALSE, blind |-> FALSE]
           /\ \A v \in FigureWorkers \ {w} : job'[v] = job[v]
<1> DEFINE j(t) == [pc |-> "reads", table |-> t, in |-> inputs, older |-> OnTable(t),
                    overtaken |-> FALSE, blind |-> FALSE]
<1>1. PICK t \in Tables : todo[t] > 0 /\ todo' = [todo EXCEPT ![t] = todo[t] - 1] /\ Becomes(w, j(t))
  BY DEF RecalcBegins, ValuesOK
<1>2. OnTable(t) \subseteq FigureWorkers
  BY DEF OnTable
<1>3. j(t) \in Recalcs
  BY <1>2 DEF ValuesOK, Recalcs, Working
<1>4. j(t) \in Jobs
  BY <1>3 DEF Jobs
<1>5. job[w] = NoJob
  BY DEF RecalcBegins
<1> HIDE DEF j
<1>6. job' \in [FigureWorkers -> Jobs] /\ job'[w] = j(t) /\ \A v \in FigureWorkers \ {w} : job'[v] = job[v]
  BY <1>1, <1>4, OthersStay DEF ValuesOK
<1> QED BY <1>1, <1>3, <1>5, <1>6 DEF j

(* It reads the rest.                                                         *)
LEMMA ReadsIs ==
  ASSUME ValuesOK, NEW w \in FigureWorkers, RecalcReads(w)
  PROVE  /\ job[w] \in Recalcs /\ job[w].pc = "reads"
         /\ job' \in [FigureWorkers -> Jobs] /\ job'[w] \in Recalcs
         /\ job'[w].pc = "deletes" /\ job'[w].table = job[w].table /\ job'[w].older = job[w].older
         /\ job'[w].overtaken = job[w].overtaken /\ job'[w].blind = job[w].blind
         /\ SameImports(job'[w].in, inputs) /\ job'[w].in.cost = job[w].in.cost
         /\ job'[w].in.expenses = job[w].in.expenses /\ job'[w].in.rate = job[w].in.rate
         /\ \A v \in FigureWorkers \ {w} : job'[v] = job[v]
<1> DEFINE in == [job[w].in EXCEPT !.sales = inputs.sales, !.ads = inputs.ads, !.ordered = inputs.ordered]
           j == [job[w] EXCEPT !.pc = "deletes", !.in = in]
<1>1. job[w] \in Recalcs /\ job[w].pc = "reads" /\ inputs \in InputSets
  BY JobKinds DEF RecalcReads, ValuesOK, Working
<1>2. in \in InputSets /\ SameImports(in, inputs) /\ in.cost = job[w].in.cost
      /\ in.expenses = job[w].in.expenses /\ in.rate = job[w].in.rate
  BY <1>1 DEF Recalcs, InputSets, SameImports
<1>3. Becomes(w, j)
  BY <1>1 DEF RecalcReads, Recalcs, InputSets
<1> HIDE DEF in
<1>4. j \in Recalcs /\ j.pc = "deletes" /\ j.table = job[w].table /\ j.older = job[w].older
      /\ j.overtaken = job[w].overtaken /\ j.blind = job[w].blind /\ j.in = in
  BY <1>1, <1>2 DEF Recalcs, Working
<1> HIDE DEF j
<1>5. job' \in [FigureWorkers -> Jobs] /\ job'[w] = j /\ \A v \in FigureWorkers \ {w} : job'[v] = job[v]
  BY <1>3, <1>4, OthersStay DEF ValuesOK, Jobs
<1> QED BY <1>1, <1>2, <1>4, <1>5

(* It waits, writes, or is refused by a key.                                  *)
LEMMA WritesIs ==
  ASSUME ValuesOK, NEW w \in FigureWorkers, RecalcWrites(w)
  PROVE  /\ job[w] \in Recalcs /\ job[w].pc \in {"deletes", "waits"}
         /\ \/ /\ unsure' = unsure /\ job' \in [FigureWorkers -> Jobs] /\ job'[w] \in Recalcs
               /\ job'[w].table = job[w].table /\ job'[w].older = job[w].older /\ job'[w].in = job[w].in
               /\ job'[w].overtaken = job[w].overtaken /\ job'[w].blind = job[w].blind
               /\ \/ job'[w].pc = "waits"
                  \/ /\ job'[w].pc = "commits" /\ At(job[w].table, "commits") = {}
                     /\ KeysOf(job[w].table, Unseen(w)) \cap KeysOf(job[w].table, Own(w)) = {}
               /\ \A v \in FigureWorkers \ {w} : job'[v] = job[v]
            \/ /\ job' = Without(w)
               /\ unsure' = IF job[w].overtaken THEN unsure ELSE unsure \cup {job[w].table}
<1>1. job[w] \in Recalcs /\ job[w].pc \in {"deletes", "waits"}
  BY JobKinds DEF RecalcWrites, ValuesOK, Working
<1>2. ASSUME NEW place \in {"waits", "commits"}, Becomes(w, [job[w] EXCEPT !.pc = place])
      PROVE  /\ job' \in [FigureWorkers -> Jobs] /\ job'[w] \in Recalcs
             /\ job'[w].table = job[w].table /\ job'[w].older = job[w].older /\ job'[w].in = job[w].in
             /\ job'[w].overtaken = job[w].overtaken /\ job'[w].blind = job[w].blind
             /\ job'[w].pc = place /\ \A v \in FigureWorkers \ {w} : job'[v] = job[v]
  <2> DEFINE j == [job[w] EXCEPT !.pc = place]
  <2>1. j \in Recalcs /\ j.pc = place /\ j.table = job[w].table /\ j.older = job[w].older /\ j.in = job[w].in
        /\ j.overtaken = job[w].overtaken /\ j.blind = job[w].blind
    BY <1>1 DEF Recalcs, Working
  <2>2. Becomes(w, j)
    BY <1>2
  <2> HIDE DEF j
  <2>3. job' \in [FigureWorkers -> Jobs] /\ job'[w] = j /\ \A v \in FigureWorkers \ {w} : job'[v] = job[v]
    BY <2>1, <2>2, OthersStay DEF ValuesOK, Jobs
  <2> QED BY <2>1, <2>3
<1> QED BY <1>1, <1>2 DEF RecalcWrites

(* It commits and leaves.                                                     *)
LEMMA CommitsIs ==
  ASSUME ValuesOK, NEW w \in FigureWorkers, RecalcCommits(w)
  PROVE  LET t == job[w].table IN
         /\ job[w] \in Recalcs /\ w \in At(t, "commits") /\ t \in Tables
         /\ tables' = [tables EXCEPT ![t] = Own(w) \cup Unseen(w)]
         /\ unsure' = IF job[w].overtaken \/ Unseen(w) # {} THEN unsure \cup {t} ELSE unsure
         /\ job' \in [FigureWorkers -> Jobs] /\ job'[w] = NoJob
         /\ \A v \in FigureWorkers \ {w} :
              IF job[v] \in Recalcs
                THEN /\ job'[v] \in Recalcs /\ job'[v].pc = job[v].pc /\ job'[v].table = job[v].table
                     /\ job'[v].in = job[v].in /\ job'[v].older = job[v].older \ {w}
                     /\ job[v].overtaken => job'[v].overtaken
                     /\ job[v].table = t /\ v \in job[w].older => job'[v].overtaken
                     /\ v \notin job[w].older => job'[v].overtaken = job[v].overtaken
                     /\ job[v].table # t => job'[v].overtaken = job[v].overtaken /\ job'[v].blind = job[v].blind
                ELSE job'[v] = job[v]
<1> DEFINE t == job[w].table
<1>1. job[w] \in Recalcs /\ job[w].pc = "commits"
  BY JobKinds DEF RecalcCommits, ValuesOK, Working
<1>2. t \in Tables /\ job \in [FigureWorkers -> Jobs]
  BY <1>1 DEF Recalcs, ValuesOK
<1>3. w \in OnTable(t) /\ w \in At(t, "commits")
  BY <1>1, <1>2, WhoBuilds DEF At
<1>4. /\ tables' = [tables EXCEPT ![t] = Own(w) \cup Unseen(w)]
      /\ unsure' = IF job[w].overtaken \/ Unseen(w) # {} THEN unsure \cup {t} ELSE unsure
      /\ job' = [v \in FigureWorkers |->
           IF v \in OnTable(t) \ {w}
             THEN [Without(w)[v] EXCEPT !.overtaken = @ \/ v \in job[w].older, !.blind = @ \/ v \in At(t, "waits")]
           ELSE Without(w)[v]]
  BY DEF RecalcCommits
<1>5. ASSUME NEW v \in FigureWorkers \ {w}, job[v] \in Recalcs
      PROVE  /\ job'[v] \in Recalcs /\ job'[v].pc = job[v].pc /\ job'[v].table = job[v].table
             /\ job'[v].in = job[v].in /\ job'[v].older = job[v].older \ {w}
             /\ job[v].overtaken => job'[v].overtaken
             /\ job[v].table = t /\ v \in job[w].older => job'[v].overtaken
             /\ v \notin job[w].older => job'[v].overtaken = job[v].overtaken
             /\ job[v].table # t => job'[v].overtaken = job[v].overtaken /\ job'[v].blind = job[v].blind
  <2>1. Without(w)[v] \in Recalcs /\ Without(w)[v] = [job[v] EXCEPT !.older = job[v].older \ {w}]
    BY <1>2, <1>5, WhenOneLeaves
  <2>2. PICK x \in Recalcs : x = Without(w)[v]
    BY <2>1
  <2>3. /\ x.pc = job[v].pc /\ x.table = job[v].table /\ x.in = job[v].in /\ x.older = job[v].older \ {w}
        /\ x.overtaken = job[v].overtaken /\ x.blind = job[v].blind
    BY <1>5, <2>1, <2>2 DEF Recalcs
  <2>4. PICK over \in BOOLEAN, blind \in BOOLEAN :
           over = (x.overtaken \/ v \in job[w].older) /\ blind = (x.blind \/ v \in At(t, "waits"))
    OBVIOUS
  <2>5. CASE v \in OnTable(t)
    <3>1. job'[v] = [x EXCEPT !.overtaken = over, !.blind = blind]
      BY <1>4, <2>2, <2>4, <2>5
    <3>2. job'[v] \in Recalcs /\ job'[v].pc = x.pc /\ job'[v].table = x.table /\ job'[v].in = x.in
          /\ job'[v].older = x.older /\ job'[v].overtaken = over
      BY <3>1 DEF Recalcs
    <3>3. x.overtaken \in BOOLEAN
      BY DEF Recalcs
    <3>4. job[v].table = t
      BY <1>2, <2>5, WhoBuilds
    <3> HIDE DEF t
    <3> QED BY <2>3, <2>4, <3>2, <3>3, <3>4
  <2>6. CASE v \notin OnTable(t)
    <3>1. job'[v] = x
      BY <1>4, <2>2, <2>6
    <3>2. job[v].table # t
      BY <1>2, <1>5, <2>6, WhoBuilds
    <3> QED BY <2>3, <3>1, <3>2
  <2> QED BY <2>5, <2>6
<1>6. ASSUME NEW v \in FigureWorkers \ {w}, job[v] \notin Recalcs PROVE job'[v] = job[v]
  <2>1. v \notin OnTable(t)
    BY <1>2, <1>6, WhoBuilds
  <2> QED BY <1>2, <1>4, <1>6, <2>1, WhenOneLeaves
<1>7. job'[w] = NoJob
  BY <1>2, <1>4, WhenOneLeaves
<1>8. \A v \in FigureWorkers : job'[v] \in Jobs
  BY <1>2, <1>5, <1>6, <1>7 DEF Jobs
<1>9. job' \in [FigureWorkers -> Jobs]
  BY <1>4, <1>8
<1> QED BY <1>1, <1>2, <1>3, <1>4, <1>5, <1>6, <1>7, <1>9

(* It leaves without a commit.                                                *)
LEMMA LeavesIs ==
  ASSUME ValuesOK, NEW w \in FigureWorkers, job' = Without(w)
  PROVE  /\ job' \in [FigureWorkers -> Jobs] /\ job'[w] = NoJob
         /\ \A v \in FigureWorkers \ {w} :
              IF job[v] \in Recalcs
                THEN /\ job'[v] \in Recalcs /\ job'[v].pc = job[v].pc /\ job'[v].table = job[v].table
                     /\ job'[v].in = job[v].in /\ job'[v].older = job[v].older \ {w}
                     /\ job'[v].overtaken = job[v].overtaken /\ job'[v].blind = job[v].blind
                ELSE job'[v] = job[v]
<1>1. ASSUME NEW v \in FigureWorkers \ {w}, job[v] \in Recalcs
      PROVE  /\ job'[v] \in Recalcs /\ job'[v].pc = job[v].pc /\ job'[v].table = job[v].table
             /\ job'[v].in = job[v].in /\ job'[v].older = job[v].older \ {w}
             /\ job'[v].overtaken = job[v].overtaken /\ job'[v].blind = job[v].blind
  <2>1. job'[v] \in Recalcs /\ job'[v] = [job[v] EXCEPT !.older = job[v].older \ {w}]
    BY <1>1, WhenOneLeaves DEF ValuesOK
  <2> QED BY <1>1, <2>1 DEF Recalcs
<1> QED BY <1>1, WhenOneLeaves DEF ValuesOK

(* What changes the inputs or queues leaves those who build tables alone.     *)
LEMMA ChangesAre ==
  ASSUME ValuesOK, (\E w \in FigureWorkers : Changes(w)) \/ AskForRecalculation \/ Saves
  PROVE  /\ inputs' \in InputSets /\ tables' = tables
         /\ job' \in [FigureWorkers -> Jobs]
         /\ \A v \in FigureWorkers : /\ job[v] \in Recalcs <=> job'[v] \in Recalcs
                                     /\ job[v] \in Recalcs => job'[v] = job[v]
<1>0. inputs \in InputSets /\ job \in [FigureWorkers -> Jobs]
  BY DEF ValuesOK
<1>1. ASSUME NEW w \in FigureWorkers, Changes(w)
      PROVE  /\ inputs' \in InputSets /\ tables' = tables
             /\ job[w] \notin Recalcs /\ \E j \in {NoJob} \cup Imports : Becomes(w, j)
  <2>1. ASSUME ImportStores(w)
        PROVE  inputs' \in InputSets /\ job[w] = NoJob /\ Becomes(w, [pc |-> "articles"]) /\ tables' = tables
    BY <1>0, <2>1, InputsMayChange DEF ImportStores
  <2>2. ASSUME ArticlesEnsured(w)
        PROVE  /\ inputs' \in InputSets /\ job[w].pc = "articles" /\ Becomes(w, [pc |-> "queue_pnl"])
               /\ tables' = tables
    <3> DEFINE nms == ({r.nm : r \in inputs.sales} \cup DOMAIN inputs.ads) \ {NoArticle}
    <3>1. nms \in SUBSET Articles
      BY <1>0, SoldAreArticles
    <3>2. inputs' = [inputs EXCEPT !.cost =
             [nm \in DOMAIN inputs.cost \cup nms |-> IF nm \in DOMAIN inputs.cost THEN inputs.cost[nm] ELSE 0]]
      BY <2>2 DEF ArticlesEnsured
    <3> HIDE DEF nms
    <3>3. inputs' \in InputSets
      BY <1>0, <3>1, <3>2, CostsMayChange, InputsMayChange
    <3> QED BY <2>2, <3>3 DEF ArticlesEnsured
  <2>3. ASSUME QueueRecalculation(w)
        PROVE  /\ inputs' = inputs /\ tables' = tables /\ job[w].pc \in {"queue_pnl", "queue_sku"}
               /\ Becomes(w, [pc |-> "queue_sku"]) \/ Becomes(w, NoJob)
    BY <2>3 DEF QueueRecalculation
  <2>4. /\ [pc |-> "articles"] \in Imports /\ [pc |-> "queue_pnl"] \in Imports /\ [pc |-> "queue_sku"] \in Imports
    BY DEF Imports
  <2>5. job[w].pc \in {"articles", "queue_pnl", "queue_sku"} \/ job[w] = NoJob => job[w] \notin Recalcs
    BY <1>0, JobKinds DEF Imports, Recalcs, NoJob, Working
  <2> QED BY <1>0, <1>1, <2>1, <2>2, <2>3, <2>4, <2>5 DEF Changes
<1>2. ASSUME NEW w \in FigureWorkers, Changes(w)
      PROVE  /\ job' \in [FigureWorkers -> Jobs]
             /\ \A v \in FigureWorkers : /\ job[v] \in Recalcs <=> job'[v] \in Recalcs
                                         /\ job[v] \in Recalcs => job'[v] = job[v]
  <2>1. PICK j \in {NoJob} \cup Imports : Becomes(w, j) /\ job[w] \notin Recalcs
    BY <1>1, <1>2
  <2>2. j \in Jobs /\ j \notin Recalcs
    BY DEF Jobs, NoJob, Imports, Recalcs, Working
  <2>3. job' \in [FigureWorkers -> Jobs] /\ job'[w] = j /\ \A v \in FigureWorkers \ {w} : job'[v] = job[v]
    BY <1>0, <2>1, <2>2, OthersStay
  <2> QED BY <2>1, <2>2, <2>3
<1>3. ASSUME AskForRecalculation PROVE inputs' = inputs /\ tables' = tables /\ job' = job
  BY <1>3 DEF AskForRecalculation
<1>4. ASSUME Saves PROVE inputs' \in InputSets /\ tables' = tables /\ job' = job
  BY <1>0, <1>4, SavedInputs DEF Saved
<1> QED BY <1>0, <1>1, <1>2, <1>3, <1>4

(* Values keep their types, and rows their keys.                              *)
LEMMA ValuesStep ==
  ASSUME ValuesOK, OneCommits, [FiguresNext]_figureVars
  PROVE  ValuesOK'
<1>0. /\ MaxEvents \in Nat /\ FigureFaults \in Nat /\ todo \in [Tables -> Nat] /\ unsure \subseteq Tables
      /\ events \in 0..MaxEvents /\ figureFaults \in 0..FigureFaults
  BY DailyFiguresAssumption DEF ValuesOK
<1>1. ASSUME (\E w \in FigureWorkers : Changes(w)) \/ AskForRecalculation \/ Saves PROVE ValuesOK'
  <2>1. /\ todo' \in [Tables -> Nat] /\ unsure' \subseteq Tables /\ events' \in 0..MaxEvents
        /\ figureFaults' = figureFaults
    <3>1. Event => events' \in 0..MaxEvents
      BY <1>0 DEF Event
    <3>2. ASSUME NEW t \in Tables, Enqueued(t) PROVE todo' \in [Tables -> Nat]
      BY <1>0, <3>2 DEF Enqueued
    <3>3. Unread \subseteq Tables /\ "pnl" \in Tables /\ "sku" \in Tables
      BY DEF Unread, Tables
    <3>4. ASSUME NEW w \in FigureWorkers, Changes(w)
          PROVE  /\ todo' \in [Tables -> Nat] /\ unsure' \subseteq Tables /\ events' \in 0..MaxEvents
                 /\ figureFaults' = figureFaults
      BY <1>0, <3>1, <3>2, <3>3, <3>4 DEF Changes, ImportStores, ArticlesEnsured, QueueRecalculation
    <3>5. ASSUME AskForRecalculation
          PROVE  /\ todo' \in [Tables -> Nat] /\ unsure' \subseteq Tables /\ events' \in 0..MaxEvents
                 /\ figureFaults' = figureFaults
      BY <1>0, <3>1, <3>5 DEF AskForRecalculation
    <3>6. ASSUME Saves
          PROVE  /\ todo' \in [Tables -> Nat] /\ unsure' \subseteq Tables /\ events' \in 0..MaxEvents
                 /\ figureFaults' = figureFaults
      BY <1>0, <3>1, <3>3, <3>6, SavedInputs DEF Saved, ValuesOK
    <3> QED BY <1>1, <3>4, <3>5, <3>6
  <2> QED BY <1>0, <1>1, <2>1, ChangesAre DEF ValuesOK, RowsHaveKeys
<1>2. ASSUME NEW w \in FigureWorkers, RecalcBegins(w) PROVE ValuesOK'
  <2>1. PICK t \in Tables :
          todo[t] > 0 /\ todo' = [todo EXCEPT ![t] = todo[t] - 1] /\ job' \in [FigureWorkers -> Jobs]
    BY <1>2, BeginsIs
  <2>2. todo' \in [Tables -> Nat]
    BY <1>0, <2>1
  <2> QED BY <1>2, <2>1, <2>2 DEF RecalcBegins, ValuesOK, RowsHaveKeys
<1>3. ASSUME NEW w \in FigureWorkers, RecalcReads(w) PROVE ValuesOK'
  BY <1>3, ReadsIs DEF RecalcReads, ValuesOK, RowsHaveKeys
<1>4. ASSUME NEW w \in FigureWorkers, RecalcWrites(w) PROVE ValuesOK'
  <2>1. job[w].table \in Tables
    BY <1>4, WritesIs DEF Recalcs
  <2>2. job' \in [FigureWorkers -> Jobs] /\ unsure' \subseteq Tables
    BY <1>0, <1>4, <2>1, WritesIs, LeavesIs
  <2> QED BY <1>4, <2>2 DEF RecalcWrites, ValuesOK, RowsHaveKeys
<1>5. ASSUME NEW w \in FigureWorkers, RecalcCommits(w) PROVE ValuesOK'
  <2>1. PICK t \in Tables :
          /\ t = job[w].table /\ w \in At(t, "commits") /\ job' \in [FigureWorkers -> Jobs]
          /\ tables' = [tables EXCEPT ![t] = Own(w) \cup Unseen(w)]
          /\ unsure' \in {unsure, unsure \cup {t}}
    BY <1>5, CommitsIs
  <2>2. KeysOf(t, Unseen(w)) \cap KeysOf(t, Own(w)) = {}
    BY <2>1 DEF OneCommits
  <2>3. Own(w) = Built(t, job[w].in) /\ Unseen(w) \in {{}, tables[t]}
    BY <2>1 DEF Own, Unseen
  <2>4. /\ t = "pnl" => \A r, s \in Unseen(w) : r = s
        /\ t = "sku" => \A r, s \in Unseen(w) : r.nm = s.nm => r = s
    BY <2>3 DEF ValuesOK, RowsHaveKeys
  <2>5. /\ t = "pnl" => \A r, s \in Own(w) \cup Unseen(w) : r = s
        /\ t = "sku" => \A r, s \in Own(w) \cup Unseen(w) : r.nm = s.nm => r = s
    BY <2>2, <2>3, <2>4, TogetherHaveKeys
  <2>6. tables' = [s \in Tables |-> IF s = t THEN Own(w) \cup Unseen(w) ELSE tables[s]]
    BY <2>1 DEF ValuesOK
  <2>7. "pnl" \in Tables /\ "sku" \in Tables
    BY DEF Tables
  <2>8. tables' = [s \in Tables |-> tables'[s]] /\ RowsHaveKeys'
    BY <2>5, <2>6, <2>7 DEF ValuesOK, RowsHaveKeys
  <2> QED BY <1>0, <1>5, <2>1, <2>8 DEF RecalcCommits, ValuesOK
<1>6. ASSUME NEW w \in FigureWorkers, FigureWorkerDies(w) PROVE ValuesOK'
  <2>1. job' \in [FigureWorkers -> Jobs]
    BY <1>6, LeavesIs DEF FigureWorkerDies
  <2>2. unsure' \subseteq Tables
    <3>1. "table" \in DOMAIN job[w] => job[w].table \in Tables
      BY JobKinds DEF ValuesOK, Recalcs
    <3> QED BY <1>0, <1>6, <3>1 DEF FigureWorkerDies
  <2>3. figureFaults' \in 0..FigureFaults
    BY <1>0, <1>6 DEF FigureWorkerDies
  <2> QED BY <1>6, <2>1, <2>2, <2>3 DEF FigureWorkerDies, ValuesOK, RowsHaveKeys
<1>7. ASSUME UNCHANGED figureVars PROVE ValuesOK'
  BY <1>7 DEF figureVars, ValuesOK, RowsHaveKeys
<1> QED BY <1>1, <1>2, <1>3, <1>4, <1>5, <1>6, <1>7 DEF FiguresNext, Changes, Saves

--------------------------------------------------------------------------------
(* Who builds a table after a step.                                           *)
LEMMA WhoBuildsNext ==
  ASSUME job' \in [FigureWorkers -> Jobs], NEW t \in Tables, NEW v \in FigureWorkers
  PROVE  v \in OnTable(t)' <=> job'[v] \in Recalcs /\ job'[v].table = t
BY JobKinds DEF OnTable

(* As long as nobody begins or leaves, the order is what it was.              *)
LEMMA OrderStays ==
  ASSUME job \in [FigureWorkers -> Jobs], job' \in [FigureWorkers -> Jobs], OneIsOlder,
         \A v \in FigureWorkers :
           /\ job[v] \in Recalcs <=> job'[v] \in Recalcs
           /\ job[v] \in Recalcs => job'[v].table = job[v].table /\ job'[v].older = job[v].older
  PROVE  OneIsOlder' /\ \A t \in Tables : OnTable(t)' = OnTable(t)
<1>1. ASSUME NEW t \in Tables PROVE OnTable(t)' = OnTable(t)
  <2>1. OnTable(t) \subseteq FigureWorkers /\ OnTable(t)' \subseteq FigureWorkers
    BY DEF OnTable
  <2> QED BY <2>1, WhoBuilds, WhoBuildsNext
<1>2. ASSUME NEW t \in Tables, NEW v \in OnTable(t) PROVE job'[v].older = job[v].older
  <2>1. v \in FigureWorkers
    BY DEF OnTable
  <2> QED BY <1>2, <2>1, WhoBuilds
<1> QED BY <1>1, <1>2 DEF OneIsOlder

(* Who begins is younger than those who build the table already.              *)
LEMMA OrderGrows ==
  ASSUME job \in [FigureWorkers -> Jobs], job' \in [FigureWorkers -> Jobs], OneIsOlder,
         NEW w \in FigureWorkers, NEW t \in Tables, job[w] = NoJob,
         job'[w] \in Recalcs, job'[w].table = t, job'[w].older = OnTable(t),
         \A v \in FigureWorkers \ {w} : job'[v] = job[v]
  PROVE  /\ OneIsOlder' /\ OnTable(t)' = OnTable(t) \cup {w} /\ w \notin OnTable(t)
         /\ \A s \in Tables \ {t} : OnTable(s)' = OnTable(s)
<1>1. job[w] \notin Recalcs
  BY DEF NoJob, Recalcs, Working
<1>2. \A s \in Tables : OnTable(s) \subseteq FigureWorkers /\ OnTable(s)' \subseteq FigureWorkers /\ w \notin OnTable(s)
  BY <1>1, WhoBuilds DEF OnTable
<1>3. OnTable(t)' = OnTable(t) \cup {w}
  BY <1>2, WhoBuilds, WhoBuildsNext
<1>4. ASSUME NEW s \in Tables \ {t} PROVE OnTable(s)' = OnTable(s)
  <2>1. ASSUME NEW v \in FigureWorkers PROVE v \in OnTable(s)' <=> v \in OnTable(s)
    <3>1. CASE v = w
      BY <1>2, <3>1, WhoBuildsNext
    <3>2. CASE v # w
      BY <3>2, WhoBuilds, WhoBuildsNext
    <3> QED BY <3>1, <3>2
  <2> QED BY <1>2, <2>1
<1>5. \A s \in Tables : \A v \in OnTable(s) : job'[v] = job[v]
  BY <1>2
<1>6. \A s \in Tables \ {t} :
        /\ \A v \in OnTable(s)' : job'[v].older \subseteq OnTable(s)' /\ v \notin job'[v].older
        /\ \A u, v \in OnTable(s)' : u # v => (u \in job'[v].older <=> v \notin job'[u].older)
        /\ \A x, u, v \in OnTable(s)' : x \in job'[u].older /\ u \in job'[v].older => x \in job'[v].older
  BY <1>4, <1>5 DEF OneIsOlder
<1>7. /\ \A v \in OnTable(t)' : job'[v].older \subseteq OnTable(t)' /\ v \notin job'[v].older
      /\ \A u, v \in OnTable(t)' : u # v => (u \in job'[v].older <=> v \notin job'[u].older)
      /\ \A x, u, v \in OnTable(t)' : x \in job'[u].older /\ u \in job'[v].older => x \in job'[v].older
  BY <1>2, <1>3, <1>5 DEF OneIsOlder
<1> QED BY <1>2, <1>3, <1>4, <1>6, <1>7 DEF OneIsOlder

(* Who leaves is older than nobody any more.                                  *)
LEMMA OrderShrinks ==
  ASSUME job \in [FigureWorkers -> Jobs], job' \in [FigureWorkers -> Jobs], OneIsOlder,
         NEW w \in FigureWorkers, job'[w] = NoJob,
         \A v \in FigureWorkers \ {w} :
           /\ job[v] \in Recalcs <=> job'[v] \in Recalcs
           /\ job[v] \in Recalcs => job'[v].table = job[v].table /\ job'[v].older = job[v].older \ {w}
  PROVE  OneIsOlder' /\ \A t \in Tables : OnTable(t)' = OnTable(t) \ {w}
<1>1. job'[w] \notin Recalcs
  BY DEF NoJob, Recalcs, Working
<1>2. ASSUME NEW t \in Tables PROVE OnTable(t)' = OnTable(t) \ {w}
  <2>1. OnTable(t) \subseteq FigureWorkers /\ OnTable(t)' \subseteq FigureWorkers
    BY DEF OnTable
  <2> QED BY <1>1, <2>1, WhoBuilds, WhoBuildsNext
<1>3. ASSUME NEW t \in Tables, NEW v \in OnTable(t) \ {w} PROVE job'[v].older = job[v].older \ {w}
  <2>1. v \in FigureWorkers
    BY DEF OnTable
  <2> QED BY <1>3, <2>1, WhoBuilds
<1> QED BY <1>2, <1>3 DEF OneIsOlder

(* Who is about to commit, and is not w, is so before and after a step that   *)
(* leaves the table and what the others do with it alone.                     *)
LEMMA CommitsStay ==
  ASSUME job \in [FigureWorkers -> Jobs], job' \in [FigureWorkers -> Jobs], OneCommits, NEW w,
         NEW t \in Tables, w \in OnTable(t)' => w \notin At(t, "commits")', tables'[t] = tables[t],
         \A v \in FigureWorkers \ {w} :
           /\ job[v] \in Recalcs <=> job'[v] \in Recalcs
           /\ job[v] \in Recalcs => /\ job'[v].table = job[v].table /\ job'[v].pc = job[v].pc
                                    /\ job'[v].in = job[v].in
                                    /\ job[v].table = t => job'[v].blind = job[v].blind
  PROVE  /\ \A u, v \in At(t, "commits")' : u = v
         /\ \A v \in At(t, "commits")' : KeysOf(t, Unseen(v)') \cap KeysOf(t, Own(v)') = {}
<1>1. ASSUME NEW v \in At(t, "commits")'
      PROVE  v \in At(t, "commits") /\ Unseen(v)' = Unseen(v) /\ Own(v)' = Own(v)
  <2>1. v \in FigureWorkers /\ v \in OnTable(t)' /\ job'[v].pc = "commits"
    BY <1>1 DEF At, OnTable
  <2>2. v # w /\ job'[v] \in Recalcs /\ job'[v].table = t
    BY <1>1, <2>1, WhoBuildsNext
  <2>3. /\ job[v] \in Recalcs /\ job[v].table = t /\ job[v].pc = "commits"
        /\ job'[v].in = job[v].in /\ job'[v].blind = job[v].blind
    <3>1. v \in FigureWorkers \ {w}
      BY <2>1, <2>2
    <3>2. job[v] \in Recalcs
      BY <2>2, <3>1
    <3>3. /\ job'[v].table = job[v].table /\ job'[v].pc = job[v].pc /\ job'[v].in = job[v].in
          /\ job[v].table = t => job'[v].blind = job[v].blind
      BY <3>1, <3>2
    <3>4. job[v].table = t /\ job[v].pc = "commits"
      BY <2>1, <2>2, <3>3
    <3> QED BY <3>2, <3>3, <3>4
  <2>4. v \in At(t, "commits")
    BY <2>1, <2>3, WhoBuilds DEF At
  <2> QED BY <2>2, <2>3, <2>4 DEF Unseen, Own
<1> QED BY <1>1 DEF OneCommits

(* Workers keep their order.                                                  *)
LEMMA OrderStep ==
  ASSUME ValuesOK, OneIsOlder, [FiguresNext]_figureVars
  PROVE  OneIsOlder'
<1>0. job \in [FigureWorkers -> Jobs] /\ NoJob \notin Recalcs
  BY DEF ValuesOK, NoJob, Recalcs, Working
<1>1. ASSUME (\E w \in FigureWorkers : Changes(w)) \/ AskForRecalculation \/ Saves PROVE OneIsOlder'
  BY <1>0, <1>1, ChangesAre, OrderStays
<1>2. ASSUME NEW w \in FigureWorkers, RecalcBegins(w) PROVE OneIsOlder'
  <2>1. PICK t \in Tables :
          /\ job[w] = NoJob /\ job' \in [FigureWorkers -> Jobs] /\ job'[w] \in Recalcs
          /\ job'[w] = [pc |-> "reads", table |-> t, in |-> inputs, older |-> OnTable(t),
                        overtaken |-> FALSE, blind |-> FALSE]
          /\ \A v \in FigureWorkers \ {w} : job'[v] = job[v]
    BY <1>2, BeginsIs
  <2>2. job'[w].table = t /\ job'[w].older = OnTable(t)
    BY <2>1
  <2> QED BY <1>0, <2>1, <2>2, OrderGrows
<1>3. ASSUME NEW w \in FigureWorkers, RecalcReads(w) PROVE OneIsOlder'
  BY <1>0, <1>3, ReadsIs, OrderStays
<1>4. ASSUME NEW w \in FigureWorkers, job' = Without(w) PROVE OneIsOlder'
  <2>1. /\ job' \in [FigureWorkers -> Jobs] /\ job'[w] = NoJob
        /\ \A v \in FigureWorkers \ {w} :
             /\ job[v] \in Recalcs <=> job'[v] \in Recalcs
             /\ job[v] \in Recalcs => job'[v].table = job[v].table /\ job'[v].older = job[v].older \ {w}
    BY <1>4, LeavesIs
  <2> QED BY <1>0, <2>1, OrderShrinks
<1>5. ASSUME NEW w \in FigureWorkers, RecalcWrites(w) PROVE OneIsOlder'
  <2>1. CASE job' = Without(w)
    BY <1>4, <2>1
  <2>2. CASE job' # Without(w)
    <3>1. /\ job' \in [FigureWorkers -> Jobs]
          /\ \A v \in FigureWorkers :
               /\ job[v] \in Recalcs <=> job'[v] \in Recalcs
               /\ job[v] \in Recalcs => job'[v].table = job[v].table /\ job'[v].older = job[v].older
      BY <1>5, <2>2, WritesIs
    <3> QED BY <1>0, <3>1, OrderStays
  <2> QED BY <2>1, <2>2
<1>6. ASSUME NEW w \in FigureWorkers, RecalcCommits(w) PROVE OneIsOlder'
  <2>1. /\ job' \in [FigureWorkers -> Jobs] /\ job'[w] = NoJob
        /\ \A v \in FigureWorkers \ {w} :
             /\ job[v] \in Recalcs <=> job'[v] \in Recalcs
             /\ job[v] \in Recalcs => job'[v].table = job[v].table /\ job'[v].older = job[v].older \ {w}
    BY <1>6, CommitsIs
  <2> QED BY <1>0, <2>1, OrderShrinks
<1>7. ASSUME NEW w \in FigureWorkers, FigureWorkerDies(w) PROVE OneIsOlder'
  BY <1>4, <1>7 DEF FigureWorkerDies
<1>8. ASSUME UNCHANGED figureVars PROVE OneIsOlder'
  BY <1>0, <1>8, OrderStays DEF figureVars
<1> QED BY <1>1, <1>2, <1>3, <1>5, <1>6, <1>7, <1>8 DEF FiguresNext, Changes, Saves

(* Two never commit rows of one key.                                          *)
LEMMA CommitsStep ==
  ASSUME ValuesOK, OneCommits, [FiguresNext]_figureVars
  PROVE  OneCommits'
<1>0. job \in [FigureWorkers -> Jobs] /\ NoJob \notin Recalcs
  BY DEF ValuesOK, NoJob, Recalcs, Working
<1> DEFINE Fine(t) == /\ \A u, v \in At(t, "commits")' : u = v
                      /\ \A v \in At(t, "commits")' : KeysOf(t, Unseen(v)') \cap KeysOf(t, Own(v)') = {}
<1> HIDE DEF Fine
<1>1. ASSUME tables' = tables, job' \in [FigureWorkers -> Jobs],
             \A v \in FigureWorkers :
               (job[v] \in Recalcs <=> job'[v] \in Recalcs) /\ (job[v] \in Recalcs => job'[v] = job[v]),
             NEW t \in Tables
      PROVE  Fine(t)
  <2>1. PICK w : w \notin FigureWorkers
    BY NoSetContainsEverything
  <2>2. w \notin OnTable(t)'
    BY <2>1 DEF OnTable
  <2>3. \A v \in FigureWorkers \ {w} :
          /\ job[v] \in Recalcs <=> job'[v] \in Recalcs
          /\ job[v] \in Recalcs => /\ job'[v].table = job[v].table /\ job'[v].pc = job[v].pc
                                   /\ job'[v].in = job[v].in
                                   /\ job[v].table = t => job'[v].blind = job[v].blind
    BY <1>1
  <2> QED BY <1>0, <1>1, <2>2, <2>3, CommitsStay DEF Fine
<1>2. ASSUME NEW w \in FigureWorkers, job' \in [FigureWorkers -> Jobs], tables' = tables,
             job'[w] \in Recalcs => job'[w].pc # "commits",
             \A v \in FigureWorkers \ {w} :
                IF job[v] \in Recalcs
                  THEN /\ job'[v] \in Recalcs /\ job'[v].table = job[v].table /\ job'[v].pc = job[v].pc
                       /\ job'[v].in = job[v].in /\ job'[v].blind = job[v].blind
                  ELSE job'[v] = job[v],
             NEW t \in Tables
      PROVE  Fine(t)
  <2>1. w \in OnTable(t)' => w \notin At(t, "commits")'
    BY <1>2, WhoBuildsNext DEF At
  <2> QED BY <1>0, <1>2, <2>1, CommitsStay DEF Fine
<1>3. ASSUME NEW w \in FigureWorkers, RecalcWrites(w), NEW t \in Tables PROVE Fine(t)
  <2>0. tables' = tables
    BY <1>3 DEF RecalcWrites
  <2>1. CASE job' = Without(w)
    <3>1. job' \in [FigureWorkers -> Jobs] /\ job'[w] \notin Recalcs
      BY <1>0, <2>1, LeavesIs
    <3> QED BY <1>2, <2>0, <2>1, <3>1, LeavesIs
  <2>2. CASE job' # Without(w)
    <3>1. /\ job[w] \in Recalcs /\ job' \in [FigureWorkers -> Jobs] /\ job'[w] \in Recalcs
          /\ job'[w].table = job[w].table /\ job'[w].in = job[w].in /\ job'[w].blind = job[w].blind
          /\ \/ job'[w].pc = "waits"
             \/ /\ job'[w].pc = "commits" /\ At(job[w].table, "commits") = {}
                /\ KeysOf(job[w].table, Unseen(w)) \cap KeysOf(job[w].table, Own(w)) = {}
          /\ \A v \in FigureWorkers \ {w} : job'[v] = job[v]
      BY <1>3, <2>2, WritesIs
    <3>2. CASE job'[w].pc = "waits"
      BY <1>2, <2>0, <3>1, <3>2
    <3>3. CASE job'[w].pc = "commits" /\ job[w].table # t
      <4>1. w \notin OnTable(t)'
        BY <3>1, <3>3, WhoBuildsNext
      <4> QED BY <1>0, <2>0, <3>1, <4>1, CommitsStay DEF Fine
    <3>4. CASE job'[w].pc = "commits" /\ job[w].table = t
      <4>1. At(t, "commits") = {} /\ KeysOf(t, Unseen(w)) \cap KeysOf(t, Own(w)) = {}
        BY <3>1, <3>4
      <4>2. ASSUME NEW v \in At(t, "commits")' PROVE v = w
        <5>1. v \in FigureWorkers /\ v \in OnTable(t)' /\ job'[v].pc = "commits"
          BY <4>2 DEF At, OnTable
        <5>2. v # w => v \in At(t, "commits")
          BY <1>0, <3>1, <5>1, WhoBuilds, WhoBuildsNext DEF At
        <5> QED BY <4>1, <5>2
      <4>3. Unseen(w)' = Unseen(w) /\ Own(w)' = Own(w)
        BY <2>0, <3>1 DEF Unseen, Own
      <4>4. KeysOf(t, Unseen(w)') \cap KeysOf(t, Own(w)') = {}
        BY <4>1, <4>3
      <4> QED BY <4>2, <4>4 DEF Fine
    <3> QED BY <3>1, <3>2, <3>3, <3>4
  <2> QED BY <2>1, <2>2
<1>4. ASSUME NEW w \in FigureWorkers, RecalcCommits(w), NEW t \in Tables PROVE Fine(t)
  <2>1. /\ job[w] \in Recalcs /\ w \in At(job[w].table, "commits") /\ job' \in [FigureWorkers -> Jobs]
        /\ job'[w] \notin Recalcs /\ tables' = [tables EXCEPT ![job[w].table] = Own(w) \cup Unseen(w)]
        /\ \A v \in FigureWorkers \ {w} :
             /\ job[v] \in Recalcs <=> job'[v] \in Recalcs
             /\ job[v] \in Recalcs =>
                  /\ job'[v].pc = job[v].pc /\ job'[v].table = job[v].table /\ job'[v].in = job[v].in
                  /\ job[v].table # job[w].table => job'[v].blind = job[v].blind
    BY <1>0, <1>4, CommitsIs
  <2>2. CASE job[w].table # t
    <3>1. w \notin OnTable(t)' /\ tables'[t] = tables[t]
      BY <2>1, <2>2, WhoBuildsNext DEF ValuesOK
    <3> QED BY <1>0, <2>1, <2>2, <3>1, CommitsStay DEF Fine
  <2>3. CASE job[w].table = t
    <3>1. ASSUME NEW v \in At(t, "commits")' PROVE FALSE
      <4>1. v \in FigureWorkers /\ v \in OnTable(t)' /\ job'[v].pc = "commits"
        BY <3>1 DEF At, OnTable
      <4>2. job'[v] \in Recalcs /\ job'[v].table = t /\ v # w
        BY <2>1, <4>1, WhoBuildsNext
      <4>3. v \in At(t, "commits")
        BY <1>0, <2>1, <4>1, <4>2, WhoBuilds DEF At
      <4> QED BY <2>1, <2>3, <4>2, <4>3 DEF OneCommits
    <3> QED BY <3>1 DEF Fine
  <2> QED BY <2>2, <2>3
<1>5. ASSUME NEW w \in FigureWorkers, FigureWorkerDies(w), NEW t \in Tables PROVE Fine(t)
  <2>1. job' = Without(w) /\ tables' = tables
    BY <1>5 DEF FigureWorkerDies
  <2>2. job' \in [FigureWorkers -> Jobs] /\ job'[w] \notin Recalcs
    BY <1>0, <2>1, LeavesIs
  <2> QED BY <1>2, <2>1, <2>2, LeavesIs
<1>6. ASSUME NEW w \in FigureWorkers, RecalcBegins(w), NEW t \in Tables PROVE Fine(t)
  <2>1. /\ job' \in [FigureWorkers -> Jobs] /\ job'[w].pc = "reads" /\ tables' = tables
        /\ \A v \in FigureWorkers \ {w} : job'[v] = job[v]
    <3>1. PICK t0 \in Tables :
            /\ job' \in [FigureWorkers -> Jobs]
            /\ job'[w] = [pc |-> "reads", table |-> t0, in |-> inputs, older |-> OnTable(t0),
                          overtaken |-> FALSE, blind |-> FALSE]
            /\ \A v \in FigureWorkers \ {w} : job'[v] = job[v]
      BY <1>6, BeginsIs
    <3>2. job'[w].pc = "reads"
      BY <3>1
    <3> QED BY <1>6, <3>1, <3>2 DEF RecalcBegins
  <2> QED BY <1>2, <2>1
<1>7. ASSUME NEW w \in FigureWorkers, RecalcReads(w), NEW t \in Tables PROVE Fine(t)
  <2>1. /\ job' \in [FigureWorkers -> Jobs] /\ job'[w].pc = "deletes" /\ tables' = tables
        /\ \A v \in FigureWorkers \ {w} : job'[v] = job[v]
    BY <1>7, ReadsIs DEF RecalcReads
  <2> QED BY <1>2, <2>1
<1>8. ASSUME (\E w \in FigureWorkers : Changes(w)) \/ AskForRecalculation \/ Saves \/ UNCHANGED figureVars,
             NEW t \in Tables
      PROVE  Fine(t)
  BY <1>0, <1>1, <1>8, ChangesAre DEF figureVars
<1>9. \A t \in Tables : Fine(t)
  BY <1>3, <1>4, <1>5, <1>6, <1>7, <1>8 DEF FiguresNext, Changes, Saves
<1> QED BY <1>9 DEF OneCommits, Fine

--------------------------------------------------------------------------------
(* A promise lasts while those who build the table read and write on.         *)
LEMMA PromiseStays ==
  ASSUME NEW t \in Tables, OneWillShow(t) \/ Shown(t),
         tables'[t] = tables[t], Built(t, inputs') = Built(t, inputs), OnTable(t)' = OnTable(t),
         \A v \in OnTable(t) : /\ Fresh(v) => Fresh(v)'
                               /\ job'[v].overtaken = job[v].overtaken /\ job'[v].older = job[v].older
  PROVE  (OneWillShow(t) \/ Shown(t))'
<1>1. ASSUME OneWillShow(t) PROVE OneWillShow(t)'
  <2>1. PICK w \in OnTable(t) :
          /\ Fresh(w) /\ ~job[w].overtaken
          /\ \A v \in OnTable(t) : Fresh(v) \/ v \in job[w].older
    BY <1>1 DEF OneWillShow
  <2>2. /\ w \in OnTable(t)' /\ Fresh(w)' /\ ~job'[w].overtaken
        /\ \A v \in OnTable(t)' : Fresh(v)' \/ v \in job'[w].older
    BY <2>1
  <2> QED BY <2>2 DEF OneWillShow
<1>2. ASSUME Shown(t) PROVE Shown(t)'
  <2>1. \A v \in OnTable(t)' : Fresh(v)' \/ job'[v].overtaken
    BY <1>2 DEF Shown
  <2>2. tables'[t] = Built(t, inputs')
    BY <1>2 DEF Shown
  <2> QED BY <2>1, <2>2 DEF Shown
<1> QED BY <1>1, <1>2

(* Who leaves without a commit was late, or about something else.             *)
LEMMA PromiseOutlives ==
  ASSUME NEW t \in Tables, OneWillShow(t) \/ Shown(t), NEW w, w \in OnTable(t) => job[w].overtaken,
         tables'[t] = tables[t], inputs' = inputs, OnTable(t)' = OnTable(t) \ {w},
         \A v \in OnTable(t) \ {w} :
           /\ job'[v].pc = job[v].pc /\ job'[v].in = job[v].in
           /\ job'[v].overtaken = job[v].overtaken /\ job'[v].older = job[v].older \ {w}
  PROVE  (OneWillShow(t) \/ Shown(t))'
<1>0. \A v \in OnTable(t) \ {w} : Fresh(v)' <=> Fresh(v)
  BY DEF Fresh
<1>1. ASSUME OneWillShow(t) PROVE OneWillShow(t)'
  <2>1. PICK x \in OnTable(t) :
          /\ Fresh(x) /\ ~job[x].overtaken
          /\ \A v \in OnTable(t) : Fresh(v) \/ v \in job[x].older
    BY <1>1 DEF OneWillShow
  <2>2. x # w
    BY <2>1
  <2>3. /\ x \in OnTable(t)' /\ Fresh(x)' /\ ~job'[x].overtaken
        /\ \A v \in OnTable(t)' : Fresh(v)' \/ v \in job'[x].older
    BY <1>0, <2>1, <2>2
  <2> QED BY <2>3 DEF OneWillShow
<1>2. ASSUME Shown(t) PROVE Shown(t)'
  <2>1. \A v \in OnTable(t)' : Fresh(v)' \/ job'[v].overtaken
    BY <1>0, <1>2 DEF Shown
  <2>2. tables'[t] = Built(t, inputs')
    BY <1>2 DEF Shown
  <2> QED BY <2>1, <2>2 DEF Shown
<1> QED BY <1>1, <1>2

(* Who commits and was not late had fresh inputs, or leaves the promise to    *)
(* one that began after it.                                                   *)
LEMMA PromiseCommits ==
  ASSUME ValuesOK, OneIsOlder, NEW w \in FigureWorkers, RecalcCommits(w), NEW t \in Tables, t = job[w].table,
         OneWillShow(t) \/ Shown(t), t \notin unsure'
  PROVE  (OneWillShow(t) \/ Shown(t))'
<1>1. /\ job[w] \in Recalcs /\ w \in At(t, "commits") /\ job' \in [FigureWorkers -> Jobs] /\ job'[w] = NoJob
      /\ tables' = [tables EXCEPT ![t] = Own(w) \cup Unseen(w)]
      /\ unsure' = IF job[w].overtaken \/ Unseen(w) # {} THEN unsure \cup {t} ELSE unsure
      /\ \A v \in FigureWorkers \ {w} :
           IF job[v] \in Recalcs
             THEN /\ job'[v] \in Recalcs /\ job'[v].pc = job[v].pc /\ job'[v].table = job[v].table
                  /\ job'[v].in = job[v].in /\ job'[v].older = job[v].older \ {w}
                  /\ job[v].overtaken => job'[v].overtaken
                  /\ job[v].table = t /\ v \in job[w].older => job'[v].overtaken
                  /\ v \notin job[w].older => job'[v].overtaken = job[v].overtaken
             ELSE job'[v] = job[v]
  BY CommitsIs
<1>2. ~job[w].overtaken /\ Unseen(w) = {} /\ inputs' = inputs
  BY <1>1 DEF RecalcCommits
<1>3. job \in [FigureWorkers -> Jobs] /\ tables = [s \in Tables |-> tables[s]] /\ inputs \in InputSets
  BY DEF ValuesOK
<1>4. w \in OnTable(t) /\ job[w].pc = "commits"
  BY <1>1 DEF At
<1>5. OnTable(t)' = OnTable(t) \ {w}
  <2>1. OnTable(t) \subseteq FigureWorkers /\ OnTable(t)' \subseteq FigureWorkers /\ NoJob \notin Recalcs
    BY DEF OnTable, NoJob, Recalcs, Working
  <2> QED BY <1>1, <1>3, <2>1, WhoBuilds, WhoBuildsNext
<1>6. \A v \in OnTable(t) \ {w} :
        /\ Fresh(v)' <=> Fresh(v)
        /\ job'[v].older = job[v].older \ {w} /\ (job[v].overtaken => job'[v].overtaken)
        /\ IF v \in job[w].older THEN job'[v].overtaken ELSE job'[v].overtaken = job[v].overtaken
  <2> SUFFICES ASSUME NEW v \in OnTable(t) \ {w}
               PROVE  /\ Fresh(v)' <=> Fresh(v)
                      /\ job'[v].older = job[v].older \ {w} /\ (job[v].overtaken => job'[v].overtaken)
                      /\ IF v \in job[w].older THEN job'[v].overtaken ELSE job'[v].overtaken = job[v].overtaken
    OBVIOUS
  <2>1. v \in FigureWorkers \ {w} /\ job[v] \in Recalcs /\ job[v].table = t
    <3>1. v \in FigureWorkers
      BY DEF OnTable
    <3> QED BY <1>3, <3>1, WhoBuilds
  <2>2. job'[v].pc = job[v].pc /\ job'[v].in = job[v].in
    BY <1>1, <2>1
  <2>3. Fresh(v)' <=> Fresh(v)
    BY <1>2, <2>2 DEF Fresh
  <2>4. /\ job'[v].older = job[v].older \ {w} /\ (job[v].overtaken => job'[v].overtaken)
        /\ IF v \in job[w].older THEN job'[v].overtaken ELSE job'[v].overtaken = job[v].overtaken
    BY <1>1, <2>1
  <2> QED BY <2>3, <2>4
<1>7. Fresh(w) => tables'[t] = Built(t, inputs')
  <2>1. SUFFICES ASSUME Fresh(w) PROVE tables'[t] = Built(t, inputs')
    OBVIOUS
  <2>2. SameEntries(job[w].in, inputs) /\ SameImports(job[w].in, inputs)
    BY <1>4, <2>1 DEF Fresh
  <2>3. job[w].in \in InputSets
    BY <1>1 DEF Recalcs
  <2>4. Built(t, job[w].in) = Built(t, inputs)
    BY <1>3, <2>2, <2>3, BuiltAgain
  <2>5. tables'[t] = Own(w)
    BY <1>1, <1>2, <1>3
  <2> QED BY <1>2, <2>4, <2>5 DEF Own
<1>8. ASSUME Shown(t) PROVE Shown(t)'
  <2>1. Fresh(w) /\ \A v \in OnTable(t) : Fresh(v) \/ job[v].overtaken
    BY <1>2, <1>4, <1>8 DEF Shown
  <2>2. \A v \in OnTable(t)' : Fresh(v)' \/ job'[v].overtaken
    BY <1>5, <1>6, <2>1
  <2> QED BY <1>7, <2>1, <2>2 DEF Shown
<1>9. ASSUME OneWillShow(t) PROVE (OneWillShow(t) \/ Shown(t))'
  <2>1. PICK x \in OnTable(t) :
          /\ Fresh(x) /\ ~job[x].overtaken
          /\ \A v \in OnTable(t) : Fresh(v) \/ v \in job[x].older
    BY <1>9 DEF OneWillShow
  <2>2. CASE x = w
    <3>1. \A v \in OnTable(t)' : Fresh(v)' \/ job'[v].overtaken
      BY <1>5, <1>6, <2>1, <2>2
    <3> QED BY <1>7, <2>1, <2>2, <3>1 DEF Shown
  <2>3. CASE x # w /\ x \in job[w].older
    <3>1. w \notin job[x].older
      BY <1>4, <2>1, <2>3 DEF OneIsOlder
    <3>2. Fresh(w)
      BY <1>4, <2>1, <3>1
    <3>3. \A v \in OnTable(t) : v \in job[x].older => v \in job[w].older
      BY <1>4, <2>1, <2>3 DEF OneIsOlder
    <3>4. \A v \in OnTable(t)' : Fresh(v)' \/ job'[v].overtaken
      BY <1>5, <1>6, <2>1, <3>3
    <3> QED BY <1>7, <3>2, <3>4 DEF Shown
  <2>4. CASE x # w /\ x \notin job[w].older
    <3>1. x \in OnTable(t)' /\ Fresh(x)' /\ ~job'[x].overtaken
      BY <1>5, <1>6, <2>1, <2>4
    <3>2. ASSUME NEW v \in OnTable(t)' PROVE Fresh(v)' \/ v \in job'[x].older
      <4>1. v \in OnTable(t) \ {w} /\ x \in OnTable(t) \ {w}
        BY <1>5, <2>1, <2>4
      <4>2. Fresh(v)' <=> Fresh(v)
        BY <1>6, <4>1
      <4>3. job'[x].older = job[x].older \ {w}
        BY <1>6, <4>1
      <4>4. Fresh(v) \/ v \in job[x].older
        BY <2>1, <4>1
      <4> QED BY <4>1, <4>2, <4>3, <4>4
    <3> QED BY <3>1, <3>2 DEF OneWillShow
  <2> QED BY <2>2, <2>3, <2>4
<1> QED BY <1>8, <1>9

(* Every step keeps what is promised of a table.                              *)
LEMMA PromiseStep ==
  ASSUME ValuesOK, OneIsOlder, Promised, [FiguresNext]_figureVars
  PROVE  Promised'
<1> DEFINE Kept(t) == todo'[t] = 0 /\ t \notin unsure' => (OneWillShow(t) \/ Shown(t))'
<1>0. job \in [FigureWorkers -> Jobs] /\ NoJob \notin Recalcs /\ inputs \in InputSets
      /\ todo \in [Tables -> Nat] /\ tables = [t \in Tables |-> tables[t]]
  BY DEF ValuesOK, NoJob, Recalcs, Working
<1>1. ASSUME NEW t \in Tables, todo[t] = 0, t \notin unsure, tables' = tables, job' \in [FigureWorkers -> Jobs],
             SameEntries(inputs, inputs'), SameImports(inputs, inputs'), inputs' \in InputSets,
             \A v \in FigureWorkers :
               (job[v] \in Recalcs <=> job'[v] \in Recalcs) /\ (job[v] \in Recalcs => job'[v] = job[v])
      PROVE  (OneWillShow(t) \/ Shown(t))'
  <2>1. OnTable(t)' = OnTable(t)
    <3>1. OnTable(t) \subseteq FigureWorkers /\ OnTable(t)' \subseteq FigureWorkers
      BY DEF OnTable
    <3>2. ASSUME NEW v \in FigureWorkers PROVE v \in OnTable(t)' <=> v \in OnTable(t)
      <4>1. v \in OnTable(t) <=> job[v] \in Recalcs /\ job[v].table = t
        BY <1>0, WhoBuilds
      <4>2. v \in OnTable(t)' <=> job'[v] \in Recalcs /\ job'[v].table = t
        BY <1>1, WhoBuildsNext
      <4> QED BY <1>1, <4>1, <4>2
    <3> QED BY <3>1, <3>2
  <2>2. \A v \in OnTable(t) : job'[v] = job[v]
    <3>1. OnTable(t) \subseteq FigureWorkers
      BY DEF OnTable
    <3> QED BY <1>0, <1>1, <3>1, WhoBuilds
  <2>3. \A v \in OnTable(t) : Fresh(v) => Fresh(v)'
    BY <1>1, <2>2 DEF Fresh, SameEntries, SameImports
  <2>4. Built(t, inputs') = Built(t, inputs)
    BY <1>0, <1>1, BuiltAgain
  <2>5. OneWillShow(t) \/ Shown(t)
    BY <1>1 DEF Promised
  <2> QED BY <1>1, <2>1, <2>2, <2>3, <2>4, <2>5, PromiseStays
<1>2. ASSUME NEW w \in FigureWorkers, Changes(w), NEW t \in Tables PROVE Kept(t)
  <2>0. /\ inputs' \in InputSets /\ tables' = tables /\ job' \in [FigureWorkers -> Jobs]
        /\ \A v \in FigureWorkers :
              (job[v] \in Recalcs <=> job'[v] \in Recalcs) /\ (job[v] \in Recalcs => job'[v] = job[v])
    BY <1>2, ChangesAre
  <2>1. ASSUME ImportStores(w) PROVE Kept(t)
    BY <2>1 DEF ImportStores, Unread
  <2>2. ASSUME ArticlesEnsured(w) PROVE Kept(t)
    <3> DEFINE nms == ({r.nm : r \in inputs.sales} \cup DOMAIN inputs.ads) \ {NoArticle}
    <3>1. PICK cost : /\ cost = [nm \in DOMAIN inputs.cost \cup nms |->
                                  IF nm \in DOMAIN inputs.cost THEN inputs.cost[nm] ELSE 0]
                      /\ inputs' = [inputs EXCEPT !.cost = cost]
      BY <2>2 DEF ArticlesEnsured
    <3> HIDE DEF nms
    <3>2. \A nm \in Articles \cup {NoArticle} :
            (IF nm \in DOMAIN cost THEN cost[nm] ELSE 0) = IF nm \in DOMAIN inputs.cost THEN inputs.cost[nm] ELSE 0
      BY <3>1
    <3>3. /\ inputs'.cost = cost /\ inputs'.sales = inputs.sales /\ inputs'.ads = inputs.ads
          /\ inputs'.expenses = inputs.expenses /\ inputs'.rate = inputs.rate /\ inputs'.ordered = inputs.ordered
      BY <1>0, <3>1 DEF InputSets
    <3>4. SameEntries(inputs, inputs') /\ SameImports(inputs, inputs')
      BY <3>2, <3>3 DEF SameEntries, SameImports, CostOf
    <3>5. todo' = todo /\ unsure' = unsure
      BY <2>2 DEF ArticlesEnsured
    <3> QED BY <1>1, <2>0, <3>4, <3>5
  <2>3. ASSUME QueueRecalculation(w) PROVE Kept(t)
    <3>1. inputs' = inputs
      BY <2>3 DEF QueueRecalculation
    <3>2. SameEntries(inputs, inputs') /\ SameImports(inputs, inputs')
      BY <3>1 DEF SameEntries, SameImports
    <3>3. PICK q \in Tables : todo' = [todo EXCEPT ![q] = todo[q] + 1] /\ unsure' = unsure \ {q}
      BY <1>0, <2>3 DEF QueueRecalculation, Enqueued, Tables
    <3>4. todo'[t] = 0 => t # q /\ todo[t] = 0
      BY <1>0, <3>3
    <3> QED BY <1>1, <2>0, <3>2, <3>3, <3>4
  <2> QED BY <1>2, <2>1, <2>2, <2>3 DEF Changes
<1>3. ASSUME AskForRecalculation, NEW t \in Tables PROVE Kept(t)
  <2>0. /\ inputs' \in InputSets /\ inputs' = inputs /\ tables' = tables /\ job' = job
    BY <1>0, <1>3 DEF AskForRecalculation
  <2>1. SameEntries(inputs, inputs') /\ SameImports(inputs, inputs')
    BY <2>0 DEF SameEntries, SameImports
  <2>2. PICK queued \in {Tables, {"pnl"}} :
          /\ todo' = [s \in Tables |-> IF s \in queued THEN todo[s] + 1 ELSE todo[s]]
          /\ unsure' = unsure \ queued
    BY <1>3 DEF AskForRecalculation
  <2>3. todo'[t] = 0 => t \notin queued /\ todo[t] = 0
    BY <1>0, <2>2
  <2> QED BY <1>0, <1>1, <2>0, <2>1, <2>2, <2>3
<1>4. ASSUME Saves, NEW t \in Tables PROVE Kept(t)
  <2>1. todo' = todo /\ unsure' = unsure \cup Unread
    BY <1>0, <1>4, SavedInputs DEF Saved
  <2> QED BY <2>1 DEF Unread
<1>5. ASSUME NEW w \in FigureWorkers, RecalcBegins(w), NEW t \in Tables PROVE Kept(t)
  <2>1. PICK s \in Tables :
          /\ todo[s] > 0 /\ todo' = [todo EXCEPT ![s] = todo[s] - 1]
          /\ job[w] = NoJob /\ job' \in [FigureWorkers -> Jobs] /\ job'[w] \in Recalcs
          /\ job'[w] = [pc |-> "reads", table |-> s, in |-> inputs, older |-> OnTable(s),
                        overtaken |-> FALSE, blind |-> FALSE]
          /\ \A v \in FigureWorkers \ {w} : job'[v] = job[v]
    BY <1>5, BeginsIs
  <2>2. inputs' = inputs /\ tables' = tables /\ unsure' = unsure
    BY <1>5 DEF RecalcBegins
  <2>3. job'[w].table = s /\ job'[w].older = OnTable(s) /\ job'[w].in = inputs /\ job'[w].pc = "reads"
        /\ job'[w].overtaken = FALSE
    BY <2>1
  <2>4. /\ OnTable(s)' = OnTable(s) \cup {w} /\ w \notin OnTable(s)
        /\ \A r \in Tables \ {s} : OnTable(r)' = OnTable(r)
    BY <1>0, <2>1, <2>3, OrderGrows
  <2>5. CASE t = s
    <3>1. Fresh(w)'
      BY <2>2, <2>3 DEF Fresh, SameEntries
    <3>2. w \in OnTable(t)' /\ ~job'[w].overtaken /\ \A v \in OnTable(t)' : v = w \/ v \in job'[w].older
      BY <2>3, <2>4, <2>5
    <3>3. OneWillShow(t)'
      BY <3>1, <3>2 DEF OneWillShow
    <3> QED BY <3>3
  <2>6. CASE t # s
    <3>1. todo'[t] = todo[t] /\ OnTable(t)' = OnTable(t)
      BY <1>0, <2>1, <2>4, <2>6
    <3>2. \A v \in OnTable(t) : job'[v] = job[v]
      <4>1. w \notin OnTable(t) /\ OnTable(t) \subseteq FigureWorkers
        BY <1>0, <2>1, WhoBuilds DEF OnTable
      <4> QED BY <2>1, <4>1
    <3>3. \A v \in OnTable(t) : Fresh(v) => Fresh(v)'
      BY <2>2, <3>2 DEF Fresh
    <3>4. todo[t] = 0 /\ t \notin unsure => OneWillShow(t) \/ Shown(t)
      BY DEF Promised
    <3> QED BY <2>2, <3>1, <3>2, <3>3, <3>4, PromiseStays
  <2> QED BY <2>5, <2>6
<1>6. ASSUME NEW w \in FigureWorkers, job[w] \in Recalcs, job' \in [FigureWorkers -> Jobs], job'[w] \in Recalcs,
             job'[w].table = job[w].table, job'[w].older = job[w].older, job'[w].overtaken = job[w].overtaken,
             \A v \in FigureWorkers \ {w} : job'[v] = job[v],
             inputs' = inputs, tables' = tables, todo' = todo, unsure' = unsure,
             Fresh(w) => Fresh(w)', NEW t \in Tables
      PROVE  Kept(t)
  <2>1. OnTable(t) \subseteq FigureWorkers /\ OnTable(t)' \subseteq FigureWorkers
    BY DEF OnTable
  <2>2. OnTable(t)' = OnTable(t)
    <3>1. ASSUME NEW v \in FigureWorkers PROVE v \in OnTable(t)' <=> v \in OnTable(t)
      <4>1. v \in OnTable(t) <=> job[v] \in Recalcs /\ job[v].table = t
        BY <1>0, WhoBuilds
      <4>2. v \in OnTable(t)' <=> job'[v] \in Recalcs /\ job'[v].table = t
        BY <1>6, WhoBuildsNext
      <4>3. CASE v = w
        BY <1>6, <4>1, <4>2, <4>3
      <4>4. CASE v # w
        BY <1>6, <4>1, <4>2, <4>4
      <4> QED BY <4>3, <4>4
    <3> QED BY <2>1, <3>1
  <2>3. ASSUME NEW v \in OnTable(t)
        PROVE  /\ Fresh(v) => Fresh(v)'
               /\ job'[v].overtaken = job[v].overtaken /\ job'[v].older = job[v].older
    <3>1. CASE v = w
      BY <1>6, <3>1
    <3>2. CASE v # w
      <4>1. job'[v] = job[v]
        BY <1>6, <2>1, <3>2
      <4> QED BY <1>6, <4>1 DEF Fresh
    <3> QED BY <3>1, <3>2
  <2>4. todo[t] = 0 /\ t \notin unsure => OneWillShow(t) \/ Shown(t)
    BY DEF Promised
  <2> QED BY <1>6, <2>2, <2>3, <2>4, PromiseStays
<1>7. ASSUME NEW w \in FigureWorkers, RecalcReads(w), NEW t \in Tables PROVE Kept(t)
  <2>1. inputs' = inputs /\ tables' = tables /\ todo' = todo /\ unsure' = unsure
    BY <1>7 DEF RecalcReads
  <2>2. Fresh(w) => Fresh(w)'
    <3>1. /\ SameImports(job'[w].in, inputs) /\ job'[w].in.cost = job[w].in.cost
          /\ job'[w].in.expenses = job[w].in.expenses /\ job'[w].in.rate = job[w].in.rate
      BY <1>7, ReadsIs
    <3> QED BY <2>1, <3>1 DEF Fresh, SameEntries, CostOf
  <2> QED BY <1>6, <1>7, <2>1, <2>2, ReadsIs
<1>8. ASSUME NEW w \in FigureWorkers, job' = Without(w), inputs' = inputs, tables' = tables, todo' = todo,
             NEW t \in Tables, unsure \subseteq unsure', w \in OnTable(t) => job[w].overtaken \/ t \in unsure'
      PROVE  Kept(t)
  <2>1. /\ job' \in [FigureWorkers -> Jobs] /\ job'[w] = NoJob
        /\ \A v \in FigureWorkers \ {w} :
             IF job[v] \in Recalcs
               THEN /\ job'[v] \in Recalcs /\ job'[v].pc = job[v].pc /\ job'[v].table = job[v].table
                    /\ job'[v].in = job[v].in /\ job'[v].older = job[v].older \ {w}
                    /\ job'[v].overtaken = job[v].overtaken
               ELSE job'[v] = job[v]
    BY <1>8, LeavesIs
  <2>2. OnTable(t) \subseteq FigureWorkers /\ OnTable(t)' \subseteq FigureWorkers
    BY DEF OnTable
  <2>3. OnTable(t)' = OnTable(t) \ {w}
    BY <1>0, <2>1, <2>2, WhoBuilds, WhoBuildsNext
  <2>4. ASSUME NEW v \in OnTable(t) \ {w}
        PROVE  /\ job'[v].pc = job[v].pc /\ job'[v].in = job[v].in
               /\ job'[v].overtaken = job[v].overtaken /\ job'[v].older = job[v].older \ {w}
    <3>1. job[v] \in Recalcs /\ v \in FigureWorkers \ {w}
      BY <1>0, <2>2, <2>4, WhoBuilds
    <3> QED BY <2>1, <3>1
  <2>5. todo[t] = 0 /\ t \notin unsure' => OneWillShow(t) \/ Shown(t)
    BY <1>8 DEF Promised
  <2> QED BY <1>8, <2>3, <2>4, <2>5, PromiseOutlives
<1>9. ASSUME NEW w \in FigureWorkers, RecalcWrites(w), NEW t \in Tables PROVE Kept(t)
  <2>0. inputs' = inputs /\ tables' = tables /\ todo' = todo
    BY <1>9 DEF RecalcWrites
  <2>1. CASE job' = Without(w)
    <3>1. /\ unsure \subseteq unsure'
          /\ w \in OnTable(t) => job[w].overtaken \/ t \in unsure'
      <4>1. w \in OnTable(t) => job[w].table = t
        BY <1>0, WhoBuilds
      <4>2. \/ unsure' = IF job[w].overtaken THEN unsure ELSE unsure \cup {job[w].table}
            \/ job'[w] \in Recalcs
        BY <1>9, WritesIs
      <4>3. job'[w] \notin Recalcs
        BY <1>0, <2>1, LeavesIs
      <4> QED BY <4>1, <4>2, <4>3
    <3> QED BY <1>8, <2>0, <2>1, <3>1
  <2>2. CASE job' # Without(w)
    <3>1. /\ job[w] \in Recalcs /\ job[w].pc \in {"deletes", "waits"} /\ unsure' = unsure
          /\ job' \in [FigureWorkers -> Jobs] /\ job'[w] \in Recalcs
          /\ job'[w].table = job[w].table /\ job'[w].older = job[w].older /\ job'[w].in = job[w].in
          /\ job'[w].overtaken = job[w].overtaken
          /\ \A v \in FigureWorkers \ {w} : job'[v] = job[v]
      BY <1>9, <2>2, WritesIs
    <3>2. Fresh(w) => Fresh(w)'
      BY <2>0, <3>1 DEF Fresh
    <3> QED BY <1>6, <2>0, <3>1, <3>2
  <2> QED BY <2>1, <2>2
<1>10. ASSUME NEW w \in FigureWorkers, RecalcCommits(w), NEW t \in Tables PROVE Kept(t)
  <2>0. inputs' = inputs /\ todo' = todo
    BY <1>10 DEF RecalcCommits
  <2>1. /\ unsure \subseteq unsure' /\ tables' = [tables EXCEPT ![job[w].table] = Own(w) \cup Unseen(w)]
        /\ job[w] \in Recalcs /\ job' \in [FigureWorkers -> Jobs] /\ job'[w] = NoJob
        /\ \A v \in FigureWorkers \ {w} :
             IF job[v] \in Recalcs
               THEN /\ job'[v] \in Recalcs /\ job'[v].pc = job[v].pc /\ job'[v].table = job[v].table
                    /\ job'[v].in = job[v].in /\ job'[v].older = job[v].older \ {w}
                    /\ job[v].table # job[w].table => job'[v].overtaken = job[v].overtaken
               ELSE job'[v] = job[v]
    BY <1>10, CommitsIs
  <2>2. todo[t] = 0 /\ t \notin unsure' => OneWillShow(t) \/ Shown(t)
    BY <2>1 DEF Promised
  <2>3. CASE job[w].table = t
    BY <1>10, <2>0, <2>2, <2>3, PromiseCommits
  <2>4. CASE job[w].table # t
    <3>1. OnTable(t) \subseteq FigureWorkers /\ OnTable(t)' \subseteq FigureWorkers /\ w \notin OnTable(t)
      BY <1>0, <2>4, WhoBuilds DEF OnTable
    <3>2. OnTable(t)' = OnTable(t) \ {w}
      BY <1>0, <2>1, <3>1, WhoBuilds, WhoBuildsNext
    <3>3. ASSUME NEW v \in OnTable(t) \ {w}
          PROVE  /\ job'[v].pc = job[v].pc /\ job'[v].in = job[v].in
                 /\ job'[v].overtaken = job[v].overtaken /\ job'[v].older = job[v].older \ {w}
      <4>1. job[v] \in Recalcs /\ v \in FigureWorkers \ {w} /\ job[v].table = t
        BY <1>0, <3>1, <3>3, WhoBuilds
      <4> QED BY <2>1, <2>4, <4>1
    <3>4. tables'[t] = tables[t]
      BY <1>0, <2>1, <2>4
    <3> QED BY <2>0, <2>2, <3>1, <3>2, <3>3, <3>4, PromiseOutlives
  <2> QED BY <2>3, <2>4
<1>11. ASSUME NEW w \in FigureWorkers, FigureWorkerDies(w), NEW t \in Tables PROVE Kept(t)
  <2>1. /\ job' = Without(w) /\ inputs' = inputs /\ tables' = tables /\ todo' = todo
        /\ unsure' = IF "table" \in DOMAIN job[w] THEN unsure \cup {job[w].table} ELSE unsure
    BY <1>11 DEF FigureWorkerDies
  <2>2. w \in OnTable(t) => t \in unsure'
    BY <2>1 DEF OnTable
  <2> QED BY <1>8, <2>1, <2>2
<1>12. ASSUME UNCHANGED figureVars, NEW t \in Tables PROVE Kept(t)
  <2>1. SameEntries(inputs, inputs') /\ SameImports(inputs, inputs')
    BY <1>12 DEF figureVars, SameEntries, SameImports
  <2> QED BY <1>0, <1>1, <1>12, <2>1 DEF figureVars
<1> HIDE DEF Kept
<1>13. \A t \in Tables : Kept(t)
  BY <1>2, <1>3, <1>4, <1>5, <1>7, <1>9, <1>10, <1>11, <1>12 DEF FiguresNext, Changes, Saves
<1> QED BY <1>13 DEF Promised, Kept

--------------------------------------------------------------------------------

(* Summing group by group.                                                    *)
LEMMA SumOfGroups ==
  ASSUME NEW S, IsFiniteSet(S), NEW f, \A x \in S : f[x] \in Int, NEW key,
         NEW N, IsFiniteSet(N), NEW G, \A n \in N : G[n] = {x \in S : key[x] = n},
         NEW h, \A n \in N : h[n] = Sum(f, G[n]),
         NEW all, all = {x \in S : key[x] \in N}
  PROVE  Sum(h, N) = Sum(f, all)
<1> DEFINE group(s) == {x \in S : key[x] \in s}
           T == {s \in SUBSET N : Sum(h, s) = Sum(f, group(s))}
<1>0. \A s : IsFiniteSet(group(s)) /\ \A x \in group(s) : f[x] \in Int
  BY FS_Subset
<1>1. {} \in T
  <2>1. group({}) = {}
    OBVIOUS
  <2> QED BY <2>1, SumOfNone
<1>2. ASSUME NEW s \in SUBSET N, s # {}, s \ {AnyOf(s)} \in T PROVE s \in T
  <2>1. PICK a \in s : a = AnyOf(s)
    BY <1>2 DEF AnyOf
  <2>2. Sum(h, s \ {a}) = Sum(f, group(s \ {a}))
    BY <1>2, <2>1
  <2>3. Sum(h, s) = h[a] + Sum(h, s \ {a})
    <3>1. IsFiniteSet(s)
      BY FS_Subset
    <3> QED BY <2>1, <3>1, SumOfSome
  <2>4. h[a] = Sum(f, group({a}))
    <3>1. G[a] = group({a})
      OBVIOUS
    <3>2. h[a] = Sum(f, G[a])
      OBVIOUS
    <3> QED BY <3>1, <3>2
  <2>5. group(s) = group({a}) \cup group(s \ {a}) /\ group({a}) \cap group(s \ {a}) = {}
    OBVIOUS
  <2> HIDE DEF group
  <2>6. Sum(f, group({a}) \cup group(s \ {a})) = Sum(f, group({a})) + Sum(f, group(s \ {a}))
    BY <1>0, <2>5, SumOfUnion
  <2> QED BY <2>2, <2>3, <2>4, <2>5, <2>6
<1>3. T \in SUBSET SUBSET N
  OBVIOUS
<1> HIDE DEF T
<1>4. T = SUBSET N
  BY <1>1, <1>2, <1>3, SubsetInduction
<1> QED BY <1>4 DEF T

(* What a row of sales brings, its tax paid and its cost of goods covered.    *)
TaxOn(in, r) == (SignOf(r) * r.price * in.rate) \div 100
Gain(in, r) == SignOf(r) * r.pay - r.fees - SignOf(r) * CostOf(in, r.nm) * r.quantity - TaxOn(in, r)

(* A row's figures are numbers, and its tax is exact.                         *)
LEMMA RowsAreNumbers ==
  ASSUME NEW in \in InputSets, NEW r \in in.sales
  PROVE  /\ SignOf(r) * r.price \in Int /\ SignOf(r) * r.pay \in Int /\ r.fees \in Int
         /\ SignOf(r) * CostOf(in, r.nm) * r.quantity \in Int /\ TaxOn(in, r) \in Int /\ Gain(in, r) \in Int
         /\ (SignOf(r) * r.price) * in.rate = 100 * TaxOn(in, r) /\ in.rate \in Nat
<1>1. PICK report \in SalesReports : r \in report
  BY DEF InputSets
<1>2. in.rate \in TaxRates \cup {TAX_RATE} /\ in.rate \in Nat
  BY DailyFiguresAssumption DEF InputSets
<1>3. PICK price \in Int, pay \in Int, fees \in Int, quantity \in Nat, rate \in Nat :
        /\ price = r.price /\ pay = r.pay /\ fees = r.fees /\ quantity = r.quantity /\ rate = in.rate
        /\ (price * rate) % 100 = 0
  <2>1. /\ r.price \in Int /\ r.pay \in Int /\ r.fees \in Int /\ r.quantity \in Nat
        /\ (r.price * in.rate) % 100 = 0
    BY <1>1, <1>2, DailyFiguresAssumption
  <2> QED BY <1>2, <2>1
<1>4. PICK sign \in {-1, 0, 1} : sign = SignOf(r)
  BY DEF SignOf
<1>5. PICK cost \in Int : cost = CostOf(in, r.nm)
  <2>1. PICK D \in SUBSET Articles : in.cost \in [D -> Costs \cup {0}]
    BY DEF InputSets, CostTables
  <2>2. Costs \cup {0} \subseteq Int
    BY DailyFiguresAssumption
  <2>3. r.nm \in DOMAIN in.cost => in.cost[r.nm] \in Int
    BY <2>1, <2>2
  <2>4. CostOf(in, r.nm) \in Int
    BY <2>3 DEF CostOf
  <2> QED BY <2>4
<1>6. PICK due \in Int : due = price * rate
  BY <1>3
<1>7. (sign * price) * rate = sign * due
  BY <1>4, <1>6
<1>8. PICK tax \in Int : tax = (sign * due) \div 100 /\ sign * due = 100 * tax
  <2>1. due % 100 = 0
    BY <1>3, <1>6
  <2>2. sign * due \in Int /\ (sign * due) % 100 = 0
    BY <1>4, <2>1
  <2> QED BY <2>2
<1>9. TaxOn(in, r) = tax
  BY <1>3, <1>4, <1>7, <1>8 DEF TaxOn
<1>10. sign * price \in Int /\ sign * pay \in Int /\ sign * cost * quantity \in Int
  BY <1>3, <1>4, <1>5
<1>11. Gain(in, r) = sign * pay - fees - sign * cost * quantity - tax
  BY <1>3, <1>4, <1>5, <1>9 DEF Gain
<1>12. Gain(in, r) \in Int
  BY <1>3, <1>8, <1>10, <1>11
<1> QED BY <1>2, <1>3, <1>4, <1>5, <1>7, <1>8, <1>9, <1>10, <1>12

(* The margin of some rows and some spend is what the rows bring less the     *)
(* spend and the expenses: taxes add up, for each of them is exact.           *)
LEMMA MarginIs ==
  ASSUME NEW in \in InputSets, NEW rows \in SUBSET in.sales, NEW spend \in Int, NEW expenses \in Int,
         NEW G, \A r \in rows : G[r] = Gain(in, r)
  PROVE  /\ Figures(in, rows, spend, expenses).margin = Sum(G, rows) - spend - expenses
         /\ Figures(in, rows, spend, expenses).expenses = expenses
         /\ Sum(G, rows) \in Int
<1> DEFINE fR == [r \in rows |-> SignOf(r) * r.price]
           fP == [r \in rows |-> SignOf(r) * r.pay]
           fF == [r \in rows |-> r.fees]
           fC == [r \in rows |-> SignOf(r) * CostOf(in, r.nm) * r.quantity]
           fT == [r \in rows |-> TaxOn(in, r)]
           T == {s \in SUBSET rows :
                   /\ {Sum(fR, s), Sum(fP, s), Sum(fF, s), Sum(fC, s), Sum(fT, s)} \subseteq Int
                   /\ Sum(fR, s) * in.rate = 100 * Sum(fT, s)
                   /\ Sum(G, s) = Sum(fP, s) - Sum(fF, s) - Sum(fC, s) - Sum(fT, s)}
<1>0. IsFiniteSet(rows)
  BY SoldAreArticles, FS_Subset
<1>1. PICK rate \in Nat : rate = in.rate
  BY DailyFiguresAssumption DEF InputSets
<1>2. ASSUME NEW r \in rows
      PROVE  /\ fR[r] \in Int /\ fP[r] \in Int /\ fF[r] \in Int /\ fC[r] \in Int /\ fT[r] \in Int
             /\ fR[r] * rate = 100 * fT[r] /\ G[r] = fP[r] - fF[r] - fC[r] - fT[r]
  <2>1. r \in in.sales
    OBVIOUS
  <2> QED BY <1>1, <2>1, RowsAreNumbers DEF Gain
<1> HIDE DEF fR, fP, fF, fC, fT
<1>3. {} \in T
  <2>1. Sum(fR, {}) = 0 /\ Sum(fP, {}) = 0 /\ Sum(fF, {}) = 0 /\ Sum(fC, {}) = 0 /\ Sum(fT, {}) = 0 /\ Sum(G, {}) = 0
    BY SumOfNone
  <2>2. 0 * in.rate = 0
    BY <1>1
  <2> QED BY <2>1, <2>2
<1>4. ASSUME NEW s \in SUBSET rows, s # {}, s \ {AnyOf(s)} \in T PROVE s \in T
  <2>1. PICK a \in s : a = AnyOf(s)
    BY <1>4 DEF AnyOf
  <2>2. PICK less : less = s \ {a} /\ less \in T
    BY <1>4, <2>1
  <2>3. IsFiniteSet(s)
    BY <1>0, FS_Subset
  <2>4. \A f : Sum(f, s) = f[a] + Sum(f, less)
    BY <1>4, <2>1, <2>2, <2>3, SumOfSome
  <2>5. PICK R \in Int, P \in Int, F \in Int, C \in Int, X \in Int :
          /\ R = Sum(fR, less) /\ P = Sum(fP, less) /\ F = Sum(fF, less) /\ C = Sum(fC, less) /\ X = Sum(fT, less)
          /\ R * rate = 100 * X /\ Sum(G, less) = P - F - C - X
    BY <1>1, <2>2
  <2>6. PICK r \in Int, p \in Int, f \in Int, c \in Int, x \in Int :
          /\ r = fR[a] /\ p = fP[a] /\ f = fF[a] /\ c = fC[a] /\ x = fT[a]
          /\ r * rate = 100 * x /\ G[a] = p - f - c - x
    <3>1. a \in rows
      BY <1>4, <2>1
    <3>2. fR[a] \in Int /\ fP[a] \in Int /\ fF[a] \in Int /\ fC[a] \in Int /\ fT[a] \in Int
      BY <1>2, <3>1, Zenon
    <3>3. fR[a] * rate = 100 * fT[a] /\ G[a] = fP[a] - fF[a] - fC[a] - fT[a]
      BY <1>2, <3>1, Zenon
    <3> QED BY <3>2, <3>3, Zenon
  <2>7. /\ Sum(fR, s) = r + R /\ Sum(fP, s) = p + P /\ Sum(fF, s) = f + F /\ Sum(fC, s) = c + C
        /\ Sum(fT, s) = x + X /\ Sum(G, s) = (p - f - c - x) + (P - F - C - X)
    BY <2>4, <2>5, <2>6
  <2>8. (r + R) * rate = 100 * (x + X)
    <3>1. (r + R) * rate = r * rate + R * rate
      OBVIOUS
    <3> QED BY <2>5, <2>6, <3>1
  <2>9. (p - f - c - x) + (P - F - C - X) = (p + P) - (f + F) - (c + C) - (x + X)
    OBVIOUS
  <2>10. r + R \in Int /\ p + P \in Int /\ f + F \in Int /\ c + C \in Int /\ x + X \in Int
    OBVIOUS
  <2> QED BY <1>1, <2>7, <2>8, <2>9, <2>10
<1>5. T \in SUBSET SUBSET rows
  OBVIOUS
<1> HIDE DEF T
<1>6. T = SUBSET rows
  BY <1>0, <1>3, <1>4, <1>5, SubsetInduction
<1>7. PICK R \in Int, P \in Int, F \in Int, C \in Int, X \in Int :
        /\ R = Sum(fR, rows) /\ P = Sum(fP, rows) /\ F = Sum(fF, rows) /\ C = Sum(fC, rows) /\ X = Sum(fT, rows)
        /\ R * rate = 100 * X /\ Sum(G, rows) = P - F - C - X
  <2>1. rows \in T
    BY <1>6
  <2> QED BY <1>1, <2>1 DEF T
<1>8. wb_tax(R, in.rate) = X
  <2>1. PICK due \in Int : due = R * rate /\ due = 100 * X
    BY <1>7
  <2>2. due \div 100 = X
    BY <2>1
  <2> QED BY <1>1, <2>1, <2>2 DEF wb_tax
<1>9. Figures(in, rows, spend, expenses) =
        [revenue |-> R, commission |-> R - P, fees |-> F, ads |-> spend, cogs |-> C, tax |-> X, expenses |-> expenses,
         margin |-> R - (R - P) - F - spend - C - X - expenses]
  <2>1. /\ R = SumFunctionOnSet([r \in rows |-> SignOf(r) * r.price], rows)
        /\ P = SumFunctionOnSet([r \in rows |-> SignOf(r) * r.pay], rows)
        /\ F = SumFunctionOnSet([r \in rows |-> r.fees], rows)
        /\ C = SumFunctionOnSet([r \in rows |-> SignOf(r) * CostOf(in, r.nm) * r.quantity], rows)
    BY <1>7 DEF Sum, fR, fP, fF, fC
  <2> QED BY <1>8, <2>1 DEF Figures
<1>10. R - (R - P) - F - spend - C - X - expenses = (P - F - C - X) - spend - expenses
  OBVIOUS
<1>11. Sum(G, rows) \in Int
  BY <1>7
<1> QED BY <1>7, <1>9, <1>10, <1>11

(* What has an article is what is neither sold nor advertised without one.    *)
LEMMA ArticlesOfDay ==
  ASSUME NEW in \in InputSets,
         NEW nms, nms = ({r.nm : r \in in.sales} \ {NoArticle}) \cup (DOMAIN in.ads \ {NoArticle}) \cup in.ordered
  PROVE  /\ IsFiniteSet(nms) /\ NoArticle \notin nms
         /\ {r \in in.sales : r.nm \in nms} = {r \in in.sales : r.nm # NoArticle}
         /\ {nm \in DOMAIN in.ads : nm \in nms} = {nm \in DOMAIN in.ads : nm # NoArticle}
<1>1. IsFiniteSet(in.sales) /\ IsFiniteSet(DOMAIN in.ads) /\ IsFiniteSet(in.ordered)
  BY SoldAreArticles
<1>2. IsFiniteSet({r.nm : r \in in.sales})
  <2> DEFINE nmOf == [r \in in.sales |-> r.nm]
  <2>1. nmOf \in [in.sales -> {r.nm : r \in in.sales}]
    OBVIOUS
  <2>2. nmOf \in Surjection(in.sales, {r.nm : r \in in.sales})
    <3>1. ASSUME NEW n \in {r.nm : r \in in.sales} PROVE \E r \in in.sales : nmOf[r] = n
      OBVIOUS
    <3> QED BY <2>1, <3>1 DEF Surjection
  <2> HIDE DEF nmOf
  <2> QED BY <1>1, <2>2, FS_Surjection
<1>3. IsFiniteSet(nms)
  <2>1. IsFiniteSet({r.nm : r \in in.sales} \ {NoArticle}) /\ IsFiniteSet(DOMAIN in.ads \ {NoArticle})
    BY <1>1, <1>2, FS_Subset
  <2>2. IsFiniteSet(({r.nm : r \in in.sales} \ {NoArticle}) \cup (DOMAIN in.ads \ {NoArticle}))
    BY <2>1, FS_Union
  <2> QED BY <1>1, <2>2, FS_Union
<1>4. NoArticle \notin nms
  <2>1. in.ordered \subseteq Articles /\ NoArticle \notin Articles
    BY DEF InputSets, Articles
  <2> QED BY <2>1
<1> QED BY <1>3, <1>4

(* A day's two tables tell one story: the margin of the day, its expenses     *)
(* apart, is that of the articles and of what belongs to no article.          *)
LEMMA BuiltAgree ==
  ASSUME NEW in \in InputSets
  PROVE  SumFunctionOnSet([r \in PnlOf(in) |-> r.margin + r.expenses], PnlOf(in))
           = SumFunctionOnSet([r \in SkuOf(in) |-> r.figures.margin], SkuOf(in))
             + Figures(in, {r \in in.sales : r.nm = NoArticle}, SpendOf(in.ads, {NoArticle}), 0).margin
<1> DEFINE sales == in.sales
           ads == in.ads
           group(n) == {r \in sales : r.nm = n}
           gains == [r \in sales |-> Gain(in, r)]
           nmOf == [r \in sales |-> r.nm]
           itself == [n \in DOMAIN ads |-> n]
           nms == ({r.nm : r \in in.sales} \ {NoArticle}) \cup (DOMAIN in.ads \ {NoArticle}) \cup in.ordered
           gainOf == [n \in nms |-> Sum(gains, group(n))]
           spendOf == [n \in nms |-> Sum(ads, {n} \cap DOMAIN ads)]
           marginOf == [n \in nms |-> gainOf[n] - spendOf[n]]
<1>1. IsFiniteSet(sales) /\ IsFiniteSet(DOMAIN ads)
  BY SoldAreArticles
<1>2. \A n \in DOMAIN ads : ads[n] \in Int
  <2>1. in.ads \in AdReports \cup {<< >>} /\ DOMAIN << >> = {}
    BY DEF InputSets
  <2> QED BY <2>1, DailyFiguresAssumption DEF Range
<1>3. \A r \in sales : gains[r] \in Int
  BY RowsAreNumbers
<1>4. /\ IsFiniteSet(nms) /\ NoArticle \notin nms
      /\ {r \in sales : r.nm \in nms} = {r \in sales : r.nm # NoArticle}
      /\ {n \in DOMAIN ads : n \in nms} = {n \in DOMAIN ads : n # NoArticle}
  BY ArticlesOfDay
<1>5. ASSUME NEW rows \in SUBSET sales, NEW spend \in Int, NEW expenses \in Int
      PROVE  /\ Figures(in, rows, spend, expenses).margin = Sum(gains, rows) - spend - expenses
             /\ Figures(in, rows, spend, expenses).expenses = expenses
             /\ Sum(gains, rows) \in Int
  <2>1. \A r \in rows : gains[r] = Gain(in, r)
    OBVIOUS
  <2> HIDE DEF gains
  <2> QED BY <2>1, MarginIs
<1>6. \A s : Sum(ads, s \cap DOMAIN ads) \in Int /\ SpendOf(ads, s) = Sum(ads, s \cap DOMAIN ads)
  <2>1. \A s : IsFiniteSet(s \cap DOMAIN ads)
    BY <1>1, FS_Subset
  <2> QED BY <1>2, <2>1, SumIsInt DEF SpendOf, Sum
<1>7. SumFunctionOnSet([r \in PnlOf(in) |-> r.margin + r.expenses], PnlOf(in)) = Sum(gains, sales) - Sum(ads, DOMAIN ads)
  <2>1. CASE sales = {} /\ DOMAIN ads = {} /\ in.expenses = << >>
    <3>1. PnlOf(in) = {}
      BY <2>1 DEF PnlOf
    <3>2. Sum(gains, sales) = 0 /\ Sum(ads, DOMAIN ads) = 0 /\ Sum([r \in PnlOf(in) |-> r.margin + r.expenses], PnlOf(in)) = 0
      BY <2>1, <3>1, SumOfNone
    <3> QED BY <3>2 DEF Sum
  <2>2. CASE ~(sales = {} /\ DOMAIN ads = {} /\ in.expenses = << >>)
    <3>1. PICK spend \in Int : spend = Sum(ads, DOMAIN ads) /\ spend = SpendOf(ads, DOMAIN ads)
      <4>1. DOMAIN ads \cap DOMAIN ads = DOMAIN ads
        OBVIOUS
      <4> QED BY <1>6, <4>1
    <3>2. PICK expenses \in Int : expenses = SumFunctionOnSet(in.expenses, DOMAIN in.expenses)
      <4>1. in.expenses \in Seq(ExpenseSums) /\ ExpenseSums \subseteq Int
        BY DailyFiguresAssumption DEF InputSets
      <4>2. PICK count \in Nat : in.expenses \in [1..count -> ExpenseSums]
        BY <4>1
      <4>3. IsFiniteSet(1..count)
        BY FS_Interval
      <4>4. DOMAIN in.expenses = 1..count /\ \A i \in 1..count : in.expenses[i] \in Int
        BY <4>1, <4>2
      <4>5. Sum(in.expenses, DOMAIN in.expenses) \in Int
        BY <4>3, <4>4, SumIsInt
      <4> QED BY <4>5 DEF Sum
    <3>3. PICK day : day = Figures(in, sales, spend, expenses)
      OBVIOUS
    <3>4. PnlOf(in) = {day}
      BY <2>2, <3>1, <3>2, <3>3 DEF PnlOf
    <3>5. PICK gain \in Int : gain = Sum(gains, sales) /\ day.margin = gain - spend - expenses /\ day.expenses = expenses
      <4>1. sales \in SUBSET sales
        OBVIOUS
      <4> QED BY <1>5, <3>3, <4>1
    <3>6. PICK shown : shown = [r \in PnlOf(in) |-> r.margin + r.expenses]
      OBVIOUS
    <3>7. shown[day] = gain - spend
      <4>1. day.margin + day.expenses = gain - spend
        BY <3>5
      <4> QED BY <3>4, <3>6, <4>1
    <3>8. Sum(shown, {day}) = gain - spend
      BY <3>7, SumOfOne
    <3> QED BY <3>1, <3>4, <3>5, <3>6, <3>8 DEF Sum
  <2> QED BY <2>1, <2>2
<1>8. \A n \in nms : gainOf[n] \in Int /\ spendOf[n] \in Int /\ marginOf[n] \in Int /\ gainOf[n] = marginOf[n] + spendOf[n]
  <2>1. ASSUME NEW n \in nms PROVE gainOf[n] \in Int /\ spendOf[n] \in Int
    <3>1. group(n) \in SUBSET sales
      OBVIOUS
    <3>2. Sum(gains, group(n)) \in Int
      BY <1>5, <3>1
    <3> QED BY <1>6, <3>2
  <2>2. \A n \in nms : marginOf[n] = gainOf[n] - spendOf[n]
    OBVIOUS
  <2> HIDE DEF marginOf, gainOf, spendOf, nms
  <2> QED BY <2>1, <2>2
<1>9. SumFunctionOnSet([r \in SkuOf(in) |-> r.figures.margin], SkuOf(in)) = Sum(marginOf, nms)
  <2> DEFINE rowFor(n) == [nm |-> n, orders |-> IF n \in in.ordered THEN 1 ELSE 0,
                        figures |-> Figures(in, group(n), SpendOf(ads, {n}), 0)]
             shown == [r \in SkuOf(in) |-> r.figures.margin]
             rowOf == [n \in nms |-> rowFor(n)]
  <2>1. SkuOf(in) = {rowOf[n] : n \in nms}
    BY DEF SkuOf
  <2>2. \A m, n \in nms : rowOf[m] = rowOf[n] => m = n
    <3>1. \A n \in nms : rowOf[n].nm = n
      OBVIOUS
    <3> HIDE DEF rowOf
    <3> QED BY <3>1
  <2>3. ASSUME NEW n \in nms PROVE marginOf[n] \in Int /\ shown[rowOf[n]] = marginOf[n]
    <3>1. group(n) \in SUBSET sales /\ SpendOf(ads, {n}) \in Int /\ SpendOf(ads, {n}) = spendOf[n]
      BY <1>6
    <3>2. Figures(in, group(n), SpendOf(ads, {n}), 0).margin = Sum(gains, group(n)) - SpendOf(ads, {n}) - 0
      <4>1. PICK mine \in SUBSET sales, spend \in Int : mine = group(n) /\ spend = SpendOf(ads, {n})
        BY <3>1, Zenon
      <4>2. Figures(in, mine, spend, 0).margin = Sum(gains, mine) - spend - 0
        BY <1>5
      <4> QED BY <4>1, <4>2, Zenon
    <3>3. shown[rowOf[n]] = Figures(in, group(n), SpendOf(ads, {n}), 0).margin
      BY <2>1
    <3>4. gainOf[n] = Sum(gains, group(n)) /\ marginOf[n] = gainOf[n] - spendOf[n]
      OBVIOUS
    <3> HIDE DEF shown, rowOf, marginOf, gainOf, spendOf, gains, group, nms
    <3>5. gainOf[n] \in Int /\ spendOf[n] \in Int /\ gainOf[n] - spendOf[n] - 0 = gainOf[n] - spendOf[n]
      BY <1>8
    <3> QED BY <1>8, <3>1, <3>2, <3>3, <3>4, <3>5
  <2> HIDE DEF shown, rowOf, marginOf, nms
  <2>4. Sum(shown, {rowOf[n] : n \in nms}) = Sum(marginOf, nms)
    BY <1>4, <2>2, <2>3, SumOfImage
  <2> QED BY <2>1, <2>4 DEF Sum, shown
<1>10. Sum(gainOf, nms) = Sum(marginOf, nms) + Sum(spendOf, nms)
  <2> HIDE DEF gainOf, marginOf, spendOf, nms
  <2> QED BY <1>4, <1>8, SumOfSums
<1>11. Sum(gainOf, nms) = Sum(gains, {r \in sales : r.nm # NoArticle})
  <2> DEFINE G == [n \in nms |-> group(n)]
  <2>1. \A n \in nms : G[n] = {r \in sales : nmOf[r] = n} /\ gainOf[n] = Sum(gains, G[n])
    OBVIOUS
  <2>2. {r \in sales : nmOf[r] \in nms} = {r \in sales : r.nm # NoArticle}
    <3>1. {r \in sales : nmOf[r] \in nms} = {r \in sales : r.nm \in nms}
      OBVIOUS
    <3> QED BY <1>4, <3>1
  <2> HIDE DEF gains, nmOf, gainOf, nms, sales, G
  <2>3. Sum(gainOf, nms) = Sum(gains, {r \in sales : nmOf[r] \in nms})
    <3>1. IsFiniteSet(sales) /\ IsFiniteSet(nms)
      BY <1>1, <1>4
    <3> QED BY <1>3, <2>1, <3>1, SumOfGroups
  <2> QED BY <2>2, <2>3
<1>12. Sum(spendOf, nms) = Sum(ads, {n \in DOMAIN ads : n # NoArticle})
  <2> DEFINE G == [n \in nms |-> {n} \cap DOMAIN ads]
  <2>1. \A n \in nms : G[n] = {m \in DOMAIN ads : itself[m] = n} /\ spendOf[n] = Sum(ads, G[n])
    OBVIOUS
  <2>2. {m \in DOMAIN ads : itself[m] \in nms} = {n \in DOMAIN ads : n # NoArticle}
    <3>1. {m \in DOMAIN ads : itself[m] \in nms} = {n \in DOMAIN ads : n \in nms}
      OBVIOUS
    <3> QED BY <1>4, <3>1
  <2> HIDE DEF itself, spendOf, nms, ads, G
  <2>3. Sum(spendOf, nms) = Sum(ads, {m \in DOMAIN ads : itself[m] \in nms})
    <3>1. IsFiniteSet(DOMAIN ads) /\ IsFiniteSet(nms)
      BY <1>1, <1>4
    <3> QED BY <1>2, <2>1, <3>1, SumOfGroups
  <2> QED BY <2>2, <2>3
<1>13. Sum(gains, sales) = Sum(gains, {r \in sales : r.nm # NoArticle}) + Sum(gains, group(NoArticle))
  <2> DEFINE A == {r \in sales : r.nm # NoArticle}
  <2>1. sales = A \cup group(NoArticle) /\ A \cap group(NoArticle) = {}
    OBVIOUS
  <2>2. IsFiniteSet(A) /\ IsFiniteSet(group(NoArticle))
    BY <1>1, FS_Subset
  <2>3. \A r \in A \cup group(NoArticle) : gains[r] \in Int
    BY <1>3, <2>1
  <2> HIDE DEF A, group, gains
  <2>4. Sum(gains, A \cup group(NoArticle)) = Sum(gains, A) + Sum(gains, group(NoArticle))
    BY <2>1, <2>2, <2>3, SumOfUnion
  <2> QED BY <2>1, <2>4 DEF A
<1>14. Sum(ads, DOMAIN ads) = Sum(ads, {n \in DOMAIN ads : n # NoArticle}) + Sum(ads, {NoArticle} \cap DOMAIN ads)
  <2> DEFINE A == {n \in DOMAIN ads : n # NoArticle}
             B == {NoArticle} \cap DOMAIN ads
  <2>1. DOMAIN ads = A \cup B /\ A \cap B = {}
    OBVIOUS
  <2>2. IsFiniteSet(A) /\ IsFiniteSet(B)
    BY <1>1, FS_Subset
  <2>3. \A n \in A \cup B : ads[n] \in Int
    BY <1>2, <2>1
  <2> HIDE DEF A, B
  <2>4. Sum(ads, A \cup B) = Sum(ads, A) + Sum(ads, B)
    BY <2>1, <2>2, <2>3, SumOfUnion
  <2> QED BY <2>1, <2>4 DEF A, B
<1>15. Figures(in, group(NoArticle), SpendOf(ads, {NoArticle}), 0).margin
         = Sum(gains, group(NoArticle)) - Sum(ads, {NoArticle} \cap DOMAIN ads)
  <2>1. group(NoArticle) \in SUBSET sales
    OBVIOUS
  <2>2. PICK spend \in Int : spend = SpendOf(ads, {NoArticle}) /\ spend = Sum(ads, {NoArticle} \cap DOMAIN ads)
    BY <1>6
  <2>3. PICK gain \in Int : gain = Sum(gains, group(NoArticle))
    BY <1>5, <2>1
  <2>4. Figures(in, group(NoArticle), spend, 0).margin = gain - spend - 0
    BY <1>5, <2>1, <2>3
  <2> QED BY <2>2, <2>3, <2>4
<1>16. PICK m \in Int, g \in Int, s \in Int, ng \in Int, ns \in Int :
         /\ m = Sum(marginOf, nms) /\ g = Sum(gainOf, nms) /\ s = Sum(spendOf, nms)
         /\ ng = Sum(gains, group(NoArticle)) /\ ns = Sum(ads, {NoArticle} \cap DOMAIN ads)
  <2>1. Sum(marginOf, nms) \in Int /\ Sum(gainOf, nms) \in Int /\ Sum(spendOf, nms) \in Int
    <3> HIDE DEF gainOf, marginOf, spendOf, nms
    <3> QED BY <1>4, <1>8, SumIsInt
  <2>2. Sum(gains, group(NoArticle)) \in Int
    <3>1. group(NoArticle) \in SUBSET sales
      OBVIOUS
    <3> QED BY <1>5, <3>1
  <2> QED BY <1>6, <2>1, <2>2
<1> HIDE DEF gainOf, marginOf, spendOf, nms, gains, ads
<1>17. Sum(gains, sales) = g + ng /\ Sum(ads, DOMAIN ads) = s + ns /\ g = m + s
  BY <1>10, <1>11, <1>12, <1>13, <1>14, <1>16
<1>18. (g + ng) - (s + ns) = m + (ng - ns)
  BY <1>17
<1>19. SumFunctionOnSet([r \in PnlOf(in) |-> r.margin + r.expenses], PnlOf(in)) = m + (ng - ns)
  BY <1>7, <1>17, <1>18
<1>20. Figures(in, {r \in in.sales : r.nm = NoArticle}, SpendOf(in.ads, {NoArticle}), 0).margin = ng - ns
  BY <1>15, <1>16 DEF ads
<1> QED BY <1>9, <1>16, <1>19, <1>20

--------------------------------------------------------------------------------
(* A day begins with nothing sold, nothing to show and nobody at work.        *)
LEMMA FiguresInitIInv == ASSUME FiguresInit PROVE FiguresIInv
<1>1. ASSUME NEW w \in FigureWorkers PROVE job[w] = NoJob
  BY DEF FiguresInit
<1>2. \A t \in Tables : OnTable(t) = {} /\ At(t, "commits") = {}
  BY <1>1 DEF OnTable, At, NoJob
<1>3. ValuesOK
  <2>1. inputs \in InputSets
    <3>1. << >> \in CostTables
      <4>1. << >> = [x \in {} |-> x] /\ << >> \in [{} -> Costs \cup {0}]
        OBVIOUS
      <4> QED BY <4>1 DEF CostTables
    <3>2. {} \in SUBSET Articles /\ IsFiniteSet({}) /\ << >> \in Seq(ExpenseSums)
      BY FS_EmptySet
    <3> QED BY <3>1, <3>2 DEF FiguresInit, InputSets
  <2>2. job \in [FigureWorkers -> Jobs]
    BY DEF FiguresInit, Jobs
  <2>3. tables = [t \in Tables |-> tables[t]] /\ RowsHaveKeys
    BY DEF FiguresInit, RowsHaveKeys, Tables
  <2> QED BY <2>1, <2>2, <2>3, DailyFiguresAssumption DEF FiguresInit, ValuesOK
<1>4. OneIsOlder /\ OneCommits
  BY <1>2 DEF OneIsOlder, OneCommits
<1>5. Promised
  <2>1. PnlOf(inputs) = {}
    BY DEF FiguresInit, PnlOf
  <2>2. SkuOf(inputs) = {}
    BY DEF FiguresInit, SkuOf
  <2>3. ASSUME NEW t \in Tables PROVE Shown(t)
    BY <1>2, <2>1, <2>2 DEF Shown, Built, FiguresInit
  <2> QED BY <2>3 DEF Promised
<1> QED BY <1>3, <1>4, <1>5 DEF FiguresIInv

(* What the steps keep is enough: tables are typed, current and agree.        *)
LEMMA FiguresInvFollows == ASSUME FiguresIInv PROVE FiguresInv
<1>1. FigureTypeOK
  <2>1. inputs \in InputSets /\ RowsHaveKeys
    BY DEF FiguresIInv, ValuesOK
  <2>2. DOMAIN inputs.cost \subseteq Articles /\ Range(inputs.cost) \subseteq Costs \cup {0}
    <3>1. PICK D \in SUBSET Articles : inputs.cost \in [D -> Costs \cup {0}]
      BY <2>1 DEF InputSets, CostTables
    <3> QED BY <3>1 DEF Range
  <2>3. ASSUME NEW s, \A x, y \in s : x = y PROVE Cardinality(s) <= 1
    <3>1. CASE s = {}
      BY <3>1, FS_EmptySet
    <3>2. CASE s # {}
      <4>1. PICK x : s = {x}
        BY <2>3, <3>2
      <4>2. Cardinality({x}) = 1
        BY FS_Singleton
      <4> QED BY <4>1, <4>2
    <3> QED BY <3>1, <3>2
  <2>4. Cardinality(tables["pnl"]) <= 1
    BY <2>1, <2>3 DEF RowsHaveKeys
  <2>5. ASSUME NEW nm \in Articles PROVE Cardinality({r \in tables["sku"] : r.nm = nm}) <= 1
    <3>1. \A x, y \in {r \in tables["sku"] : r.nm = nm} : x = y
      BY <2>1 DEF RowsHaveKeys
    <3> QED BY <2>3, <3>1
  <2>6. inputs.sales \in SalesReports \cup {{}} /\ inputs.expenses \in Seq(ExpenseSums)
        /\ inputs.rate \in TaxRates \cup {TAX_RATE} /\ inputs.ordered \subseteq Articles
    BY <2>1 DEF InputSets
  <2>7. DOMAIN tables = Tables
    BY DEF FiguresIInv, ValuesOK
  <2> QED BY <2>2, <2>4, <2>5, <2>6, <2>7 DEF FigureTypeOK, FiguresIInv, ValuesOK
<1>2. FiguresAreCurrent
  BY DEF FiguresIInv, Promised, OneWillShow, Shown, FiguresAreCurrent, Quiet
<1>3. SkuAgreesWithPnl
  <2>1. inputs \in InputSets
    BY DEF FiguresIInv, ValuesOK
  <2>2. ASSUME Quiet("pnl"), Quiet("sku")
        PROVE  tables["pnl"] = PnlOf(inputs) /\ tables["sku"] = SkuOf(inputs)
    BY <1>2, <2>2 DEF FiguresAreCurrent, Tables, Built
  <2> QED BY <2>1, <2>2, BuiltAgree DEF SkuAgreesWithPnl
<1> QED BY <1>1, <1>2, <1>3 DEF FiguresInv

(* After any sequence of imports, saves, clicks and deaths, with any number   *)
(* of workers reading, deleting and committing at once: a table whose         *)
(* recalculations are done, with none lost, none late and nothing saved       *)
(* unannounced, shows what the inputs say, and the two tables agree.          *)
THEOREM FiguresHolds == FiguresSpec => []FiguresInv
<1>1. FiguresIInv /\ [FiguresNext]_figureVars => FiguresIInv'
  BY ValuesStep, OrderStep, CommitsStep, PromiseStep DEF FiguresIInv
<1> QED BY <1>1, FiguresInitIInv, FiguresInvFollows, PTL DEF FiguresSpec
================================================================================
