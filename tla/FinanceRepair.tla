------------------------------ MODULE FinanceRepair ------------------------------
(******************************************************************************)
(* How missing days of sales are found when a dashboard is opened and loaded  *)
(* by the finance_range lane of the orchestrator.  finance_missing_sync_state *)
(* has one row per range that was ever asked for; it keeps dashboards from    *)
(* asking again.  A kick is a Celery message of its own, so kicks wait, and   *)
(* overtake each other.  The orchestrator runs one step of a seller at a time *)
(* (WbOrchestrator); the commits of that step are separate actions here.      *)
(******************************************************************************)
EXTENDS Integers, FiniteSets

CONSTANTS
  MaxDay,        \* the last yesterday that is looked at
  HasSales,      \* days WB has sales for
  MaxHole,       \* FINANCE_HOLES_MAX_RANGE_DAYS
  ManualRanges,  \* ranges users ask for on the sync page
  RecentLen,     \* days that /sync/recent asks for
  MaxRequests,   \* how often users ask for anything
  MaxFaults      \* crashes, errors of WB, lost kicks

Ranges == {r \in (1..MaxDay) \X (1..MaxDay) : r[1] <= r[2]}
Days(r) == r[1]..r[2]
NoRange == <<0, 0>>

ASSUME DaysAssumption ==
  /\ MaxDay \in Nat \ {0} /\ HasSales \subseteq 1..MaxDay /\ ManualRanges \subseteq Ranges
  /\ {MaxHole, RecentLen} \subseteq Nat \ {0} /\ {MaxRequests, MaxFaults} \subseteq Nat

VARIABLES
  through,  \* yesterday
  present,  \* days with rows in raw_sales
  row,      \* finance_missing_sync_state.status, "none" when there is no row
  stale,    \* rows whose updated_at is more than ten minutes ago
  inbox,    \* kicks in the broker
  intent,   \* high.finance_range
  halted,   \* the orchestrator is in error and waits for a kick
  pc, serving,
  lost,     \* history: days whose load failed without an HTTP error
  faults, requests

progress == <<row, stale>>
orchestrator == <<intent, halted, pc, serving>>
vars == <<through, present, progress, inbox, orchestrator, lost, faults, requests>>

Faults(n) == faults + n <= MaxFaults /\ faults' = faults + n
Fault == Faults(1)

(* Writing rows moves updated_at only when a column changes.                  *)
Write(rs, s) ==
  /\ row' = [r \in Ranges |-> IF r \in rs THEN s ELSE row[r]]
  /\ stale' = [r \in Ranges |-> stale[r] /\ (r \in rs => row[r] = s)]

--------------------------------------------------------------------------------
(* The days a dashboard sees sales of.                                        *)
Seen == present \cap 1..through

(* compute_missing_tail_range and compute_missing_ranges_in_window.           *)
Missing(r) == Days(r) \cap Seen = {} /\ r[2] <= through
MissingTail(r) == /\ Missing(r) /\ r[2] = through
                  /\ r[1] = 1 \/ r[1] - 1 \in present
Holes == {r \in Ranges : /\ Missing(r)
                         /\ r[1] = 1 \/ r[1] - 1 \in present
                         /\ r[2] + 1 \in present /\ r[2] < through}
Trim(r) == IF r[2] - r[1] + 1 > MaxHole THEN <<r[2] - MaxHole + 1, r[2]>> ELSE r

PublishTail(r) ==
  \/ inbox' = inbox \cup {r} /\ UNCHANGED faults
  \/ inbox' = inbox /\ Fault

(* One read of /dashboard/state asks for the missing tail.                    *)
(* A mistake: a row that says running stops every read (BUG-45).              *)
ReadTailUnlessRunning(r) ==
  /\ row[r] # "running" /\ (row[r] = "none" \/ stale[r])
  /\ Write({r}, "queued")
  /\ PublishTail(r)
ReadTail(r) ==
  /\ row[r] = "none" \/ stale[r]
  /\ IF row[r] = "running" THEN UNCHANGED progress ELSE Write({r}, "queued")
  /\ PublishTail(r)

(* Without one it takes the holes that are new, or neither running nor fresh, *)
(* from the newest on, until one kick is published                            *)
(* (FINANCE_HOLES_MAX_RANGES_PER_ENTRY is 1); the others' rows are queued.    *)
Eligible == {r \in {Trim(h) : h \in Holes} :
               row[r] = "none" \/ (row[r] # "running" /\ stale[r])}
ReadHoles ==
  \E tried \in SUBSET Eligible :
    /\ tried # {}
    /\ \A r \in tried, g \in Eligible : g[2] > r[2] => g \in tried
    /\ Write(tried, "queued")
    /\ \/ /\ \E oldest \in tried : /\ \A g \in tried : oldest[2] <= g[2]
                                  /\ inbox' = inbox \cup {oldest}
          /\ Faults(Cardinality(tried) - 1)
       \/ tried = Eligible /\ inbox' = inbox /\ Faults(Cardinality(tried))

(* _maybe_start_finance_backfill.                                             *)
DashboardRead ==
  /\ Seen # {}
  /\ IF through \notin present THEN \E r \in Ranges : MissingTail(r) /\ ReadTail(r)
     ELSE Cardinality(Seen) >= 2 /\ ReadHoles
  /\ UNCHANGED <<through, present, orchestrator, lost, requests>>

(* sync/period, sync/sales and sync/ads.                                      *)
ManualKick(r) ==
  /\ requests < MaxRequests /\ requests' = requests + 1
  /\ inbox' = inbox \cup {r}
  /\ UNCHANGED <<through, present, progress, orchestrator, lost, faults>>

(* sync/recent asks for the last days unless it is waiting already: the row   *)
(* that was written last of those that share a day with them decides.  (Its   *)
(* next_run_at is written by nothing that runs.)                              *)
Recent == <<IF through < RecentLen THEN 1 ELSE through - RecentLen + 1, through>>
Overlapping == {r \in Ranges : row[r] # "none" /\ Days(r) \cap Days(Recent) # {}}
LastWritten == LET fresh == {r \in Overlapping : ~stale[r]} IN
               IF fresh = {} THEN Overlapping ELSE fresh
MayAsk == Overlapping = {} \/ \E r \in LastWritten : stale[r] \/ row[r] = "complete"

(* The range's row says running from then on, whatever becomes of the kick.   *)
RecentAsked ==
  /\ requests < MaxRequests /\ requests' = requests + 1
  /\ MayAsk
  /\ Write({Recent}, "running")
  /\ PublishTail(Recent)
  /\ UNCHANGED <<through, present, orchestrator, lost>>

(* wb_orchestrator_kick: the later range overwrites the earlier one.          *)
Deliver(r) ==
  /\ r \in inbox /\ inbox' = inbox \ {r}
  /\ intent' = r
  /\ halted' = FALSE
  /\ UNCHANGED <<through, present, progress, pc, serving, lost, faults, requests>>

--------------------------------------------------------------------------------
(* _orch_finance_missing_step.                                                *)
StepStarts ==
  /\ pc = "idle" /\ intent # NoRange /\ ~halted
  /\ pc' = "sales" /\ serving' = intent
  /\ Write({intent}, "running")
  /\ UNCHANGED <<through, present, inbox, intent, halted, lost, faults, requests>>

(* sync_sales replaces the days' rows and marks the range complete.           *)
SalesAnswered ==
  /\ pc = "sales" /\ pc' = "ads"
  /\ present' = present \cup (Days(serving) \cap HasSales)
  /\ Write({serving}, "complete")
  /\ UNCHANGED <<through, inbox, intent, halted, serving, lost, faults, requests>>

(* An error that is not an HTTPError is a result that nobody looks at.        *)
SalesSwallowed ==
  /\ pc = "sales" /\ pc' = "ads"
  /\ Fault
  /\ lost' = lost \cup Days(serving)
  /\ UNCHANGED <<through, present, progress, inbox, intent, halted, serving, requests>>

(* A mistake: an HTTP error of sync_sales is ignored like one of sync_ads.    *)
RefusalIgnored ==
  /\ pc = "sales" /\ pc' = "ads"
  /\ Fault
  /\ UNCHANGED <<through, present, progress, inbox, intent, halted, serving, lost, requests>>
(* A mistake: the row gets the status of a sync with a retry of its own.      *)
RefusalMarksError ==
  /\ pc = "sales" /\ pc' = "idle"
  /\ Fault
  /\ Write({serving}, "error")
  /\ serving' = NoRange
  /\ halted' \in BOOLEAN
  /\ UNCHANGED <<through, present, inbox, intent, lost, requests>>
(* An HTTPError: the intent and the running row stay.  The orchestrator tries *)
(* again by itself, or, after a permanent status, waits for a kick.           *)
SalesRefused ==
  /\ pc = "sales" /\ pc' = "idle"
  /\ Fault
  /\ serving' = NoRange
  /\ halted' \in BOOLEAN
  /\ UNCHANGED <<through, present, progress, inbox, intent, lost, requests>>

(* sync_ads cannot fail the step; the range is complete.  The row was expired *)
(* by the step's first commit, so this write always moves updated_at.         *)
AdsDone ==
  /\ pc = "ads" /\ pc' = "save"
  /\ row' = [row EXCEPT ![serving] = "complete"]
  /\ stale' = [stale EXCEPT ![serving] = FALSE]
  /\ UNCHANGED <<through, present, inbox, intent, halted, serving, lost, faults, requests>>

StepSaves ==
  /\ pc = "save" /\ pc' = "idle"
  /\ intent' = IF intent = serving THEN NoRange ELSE intent
  /\ serving' = NoRange
  /\ UNCHANGED <<through, present, progress, inbox, halted, lost, faults, requests>>

WorkerCrashes ==
  /\ pc # "idle" /\ pc' = "idle"
  /\ Fault
  /\ serving' = NoRange
  /\ UNCHANGED <<through, present, progress, inbox, intent, halted, lost, requests>>

TenMinutesPass ==
  /\ \E r \in Ranges : row[r] # "none" /\ ~stale[r]
  /\ stale' = [r \in Ranges |-> row[r] # "none"]
  /\ UNCHANGED <<through, present, row, inbox, orchestrator, lost, faults, requests>>

MidnightPasses ==
  /\ through < MaxDay /\ through' = through + 1
  /\ UNCHANGED <<present, progress, inbox, orchestrator, lost, faults, requests>>

(* A seller whose first import has loaded some of the days.                   *)
Init ==
  /\ through \in 1..MaxDay
  /\ present \in SUBSET (HasSales \cap 1..through)
  /\ row = [r \in Ranges |-> "none"] /\ stale = [r \in Ranges |-> FALSE]
  /\ inbox = {} /\ intent = NoRange /\ halted = FALSE
  /\ pc = "idle" /\ serving = NoRange
  /\ lost = {} /\ faults = 0 /\ requests = 0

Step == StepStarts \/ SalesAnswered \/ AdsDone \/ StepSaves
Next ==
  \/ DashboardRead \/ Step
  \/ \E r \in ManualRanges : ManualKick(r)
  \/ RecentAsked
  \/ \E r \in inbox : Deliver(r)
  \/ SalesSwallowed \/ SalesRefused \/ WorkerCrashes
  \/ TenMinutesPass \/ MidnightPasses
Spec == Init /\ [][Next]_vars

(* The seller keeps opening the dashboard, the broker delivers, the           *)
(* orchestrator goes on while it has work, time passes.                       *)
FairSpec ==
  /\ Spec
  /\ WF_vars(DashboardRead) /\ \A r \in Ranges : WF_vars(Deliver(r))
  /\ WF_vars(Step) /\ WF_vars(TenMinutesPass)
--------------------------------------------------------------------------------
TypeOK ==
  /\ through \in 1..MaxDay /\ present \subseteq HasSales
  /\ row \in [Ranges -> {"none", "queued", "running", "complete"}]
  /\ stale \in [Ranges -> BOOLEAN]
  /\ inbox \subseteq Ranges
  /\ intent \in Ranges \cup {NoRange} /\ serving \in Ranges \cup {NoRange}
  /\ halted \in BOOLEAN /\ pc \in {"idle", "sales", "ads", "save"}
  /\ lost \subseteq 1..MaxDay /\ faults \in 0..MaxFaults
  /\ requests \in 0..MaxRequests

(* A row that says complete is true of its days, except for those that fell   *)
(* to an error that sync_sales swallowed.                                     *)
CompleteRowsAreLoaded ==
  \A r \in Ranges : row[r] = "complete" => Days(r) \cap HasSales \subseteq present \cup lost

RepairInv == TypeOK /\ CompleteRowsAreLoaded

(* Yesterday's sales come in while the seller keeps looking: whatever fails,  *)
(* crashes or gets lost only delays them.                                     *)
TailIsRepaired ==
  (Seen # {} /\ through \in HasSales \ present) ~> through \in present
================================================================================
