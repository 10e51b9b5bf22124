----------------------------- MODULE FinanceBackfill -----------------------------
(******************************************************************************)
(* The archive lane of the WB orchestrator: finance_backfill_year walks a     *)
(* year backwards, one chunk per tick.  The orchestrator runs one step of a   *)
(* seller at a time (WbOrchestrator), so a step is a sequence here; kicks,    *)
(* recalculations and crashes come between its commits.  Days of a year are   *)
(* numbered from 1; NoDate is a NULL last_completed_date.                     *)
(******************************************************************************)
EXTENDS Integers

CONSTANTS
  Through,           \* per year, the last day to load (yesterday or the year's end)
  MonthLen,          \* days in a month
  HasSales,          \* per year, the days WB has sales for
  HasAds,            \* per year, the days WB has advertising for
  MaxArchiveFaults,  \* crashes, HTTP errors, swallowed errors, lost recalculations
  MaxKicks           \* explicit requests of users

Years == {"2026", "2025"}
NoDate == 0
NoYear == "none"
NoChunk == [year |-> NoYear, from |-> 1, to |-> 0]

ASSUME YearAssumption ==
  /\ \A y \in Years : Through[y] \in Nat \ {0}
  /\ MonthLen \in Nat \ {0}
  /\ MaxArchiveFaults \in Nat /\ MaxKicks \in Nat

VARIABLES
  asked,        \* low.finance_backfill_year
  halted,       \* the orchestrator is in error and waits for a kick
  yearStatus,   \* finance_backfill_state.status, per year
  last,         \* finance_backfill_state.last_completed_date, per year
  raw, pnl,     \* per year, days with rows in raw_sales/raw_ads and in pnl_daily
  recalcs,      \* recalculate_pnl tasks in the broker
  stage, chunk, \* the running step
  lost,         \* history: days whose sales load failed without an HTTP error
  answered,     \* history: days whose sales WB has answered for
  unshown,      \* history: days of recalculations that failed
  kicks, archiveFaults

state == <<yearStatus, last>>
data == <<raw, pnl, recalcs>>
archiveHistory == <<lost, answered, unshown>>
archiveVars == <<asked, halted, state, data, stage, chunk, archiveHistory, kicks, archiveFaults>>

Days(c) == c.from .. c.to
Cursor(y) == IF last[y] = NoDate THEN Through[y] ELSE last[y] - 1
Passed(y) == {d \in 1..Through[y] : last[y] # NoDate /\ d >= last[y]}

(* A mistake: a month back, past the beginning of the year.                   *)
MonthBack(d) == d - MonthLen
(* _build_desc_month_chunk: from the beginning of the cursor's month to it.   *)
MonthStart(d) == d - ((d - 1) % MonthLen)
MonthChunk(y) == [year |-> y, from |-> MonthStart(Cursor(y)), to |-> Cursor(y)]

Fault == archiveFaults < MaxArchiveFaults /\ archiveFaults' = archiveFaults + 1

--------------------------------------------------------------------------------
(* sync/backfill: a user asks for a year.                                     *)
KickYear(y) ==
  /\ kicks < MaxKicks /\ kicks' = kicks + 1
  /\ asked' = y /\ halted' = FALSE
  /\ UNCHANGED <<state, data, stage, chunk, archiveHistory, archiveFaults>>

(* archive_backfill_manager: 2026 until it is complete.                       *)
ManagerKicks ==
  /\ yearStatus["2026"] # "complete"
  /\ asked' = "2026" /\ halted' = FALSE
  /\ UNCHANGED <<state, data, stage, chunk, archiveHistory, kicks, archiveFaults>>

(* The step reads its year; a cursor before the year's start completes it.    *)
StepCompletes ==
  /\ stage = "idle" /\ asked # NoYear /\ ~halted
  /\ Cursor(asked) < 1
  /\ yearStatus' = [yearStatus EXCEPT ![asked] = "complete"]
  /\ chunk' = [NoChunk EXCEPT !.year = asked]
  /\ stage' = "complete"
  /\ UNCHANGED <<asked, halted, last, data, archiveHistory, kicks, archiveFaults>>

StepStarts ==
  /\ stage = "idle" /\ asked # NoYear /\ ~halted
  /\ Cursor(asked) >= 1
  /\ yearStatus' = [yearStatus EXCEPT ![asked] = "running"]
  /\ chunk' = MonthChunk(asked)
  /\ stage' = "check"
  /\ UNCHANGED <<asked, halted, last, data, archiveHistory, kicks, archiveFaults>>

(* _pnl_daily_covers_range.                                                   *)
StepChecksCoverage ==
  /\ stage = "check"
  /\ stage' = IF Days(chunk) \subseteq pnl[chunk.year] THEN "advance" ELSE "sales"
  /\ UNCHANGED <<asked, halted, state, data, chunk, archiveHistory, kicks, archiveFaults>>

SalesAnswered ==
  /\ stage = "sales" /\ stage' = "ads"
  /\ raw' = [raw EXCEPT ![chunk.year] = @ \cup (Days(chunk) \cap HasSales[chunk.year])]
  /\ answered' = [answered EXCEPT ![chunk.year] = @ \cup Days(chunk)]
  /\ UNCHANGED <<asked, halted, state, pnl, recalcs, chunk, lost, unshown, kicks, archiveFaults>>

(* sync_sales turns every error that is not an HTTPError (a timeout, a broken *)
(* answer, a database error) into a result that nobody looks at.              *)
SalesSwallowed ==
  /\ stage = "sales" /\ stage' = "ads"
  /\ Fault
  /\ lost' = [lost EXCEPT ![chunk.year] = @ \cup Days(chunk)]
  /\ UNCHANGED <<asked, halted, state, data, chunk, answered, unshown, kicks>>

(* sync_ads; its errors that are not HTTPErrors are swallowed too.            *)
AdsDone(loaded) ==
  /\ stage = "ads" /\ stage' = "recalc"
  /\ IF loaded
       THEN /\ raw' = [raw EXCEPT ![chunk.year] = @ \cup (Days(chunk) \cap HasAds[chunk.year])]
            /\ UNCHANGED archiveFaults
       ELSE Fault /\ UNCHANGED raw
  /\ UNCHANGED <<asked, halted, state, pnl, recalcs, chunk, archiveHistory, kicks>>

(* A mistake: a loaded chunk is not recalculated.                             *)
RecalcForgotten ==
  /\ stage = "recalc" /\ stage' = "advance"
  /\ UNCHANGED <<asked, halted, state, data, chunk, archiveHistory, kicks, archiveFaults>>
StepEnqueuesRecalc ==
  /\ stage = "recalc" /\ stage' = "advance"
  /\ recalcs' = recalcs \cup {chunk}
  /\ UNCHANGED <<asked, halted, state, raw, pnl, chunk, archiveHistory, kicks, archiveFaults>>

(* A mistake: the cursor steps over the day it has just loaded the month of.  *)
AdvanceOneTooFar ==
  /\ stage = "advance" /\ stage' = "save"
  /\ last' = [last EXCEPT ![chunk.year] = chunk.from - 1]
  /\ UNCHANGED <<asked, halted, yearStatus, data, chunk, archiveHistory, kicks, archiveFaults>>
StepAdvances ==
  /\ stage = "advance" /\ stage' = "save"
  /\ last' = [last EXCEPT ![chunk.year] = chunk.to]
  /\ UNCHANGED <<asked, halted, yearStatus, data, chunk, archiveHistory, kicks, archiveFaults>>

(* A mistake: a completed 2026 does not make room for 2025.                   *)
SaveWithoutNextYear ==
  /\ stage \in {"save", "complete"} /\ stage' = "idle"
  /\ asked' = IF stage = "complete" /\ asked = chunk.year THEN NoYear ELSE asked
  /\ chunk' = NoChunk
  /\ UNCHANGED <<halted, state, data, archiveHistory, kicks, archiveFaults>>
(* The intents are saved: a chunk keeps the year; a completed 2026 makes room *)
(* for 2025, unless a kick has asked for another year meanwhile.              *)
StepSavesYear ==
  /\ stage \in {"save", "complete"} /\ stage' = "idle"
  /\ asked' = IF stage = "complete" /\ asked = chunk.year
                THEN IF asked = "2026" THEN "2025" ELSE NoYear
                ELSE asked
  /\ chunk' = NoChunk
  /\ UNCHANGED <<halted, state, data, archiveHistory, kicks, archiveFaults>>

(* An HTTPError or the death of the worker: the request stays.  A permanent   *)
(* HTTP status needs a fresh kick, anything else is tried again.              *)
StepAborts ==
  /\ stage # "idle" /\ stage' = "idle"
  /\ Fault
  /\ halted' \in IF stage \in {"sales", "ads"} THEN BOOLEAN ELSE {FALSE}
  /\ chunk' = NoChunk
  /\ UNCHANGED <<asked, state, data, archiveHistory, kicks>>

(* recalculate_pnl: the days of the range that have raw rows, anew.           *)
Recalculate(c) ==
  /\ c \in recalcs
  /\ recalcs' = recalcs \ {c}
  /\ pnl' = [pnl EXCEPT ![c.year] = (@ \ Days(c)) \cup (Days(c) \cap raw[c.year])]
  /\ UNCHANGED <<asked, halted, state, raw, stage, chunk, archiveHistory, kicks, archiveFaults>>
RecalculateFails(c) ==
  /\ c \in recalcs
  /\ Fault
  /\ recalcs' = recalcs \ {c}
  /\ unshown' = [unshown EXCEPT ![c.year] = @ \cup Days(c)]
  /\ UNCHANGED <<asked, halted, state, raw, pnl, stage, chunk, lost, answered, kicks>>

ArchiveInit ==
  /\ asked = NoYear /\ halted = FALSE
  /\ yearStatus = [y \in Years |-> "idle"] /\ last = [y \in Years |-> NoDate]
  /\ raw = [y \in Years |-> {}] /\ pnl = [y \in Years |-> {}] /\ recalcs = {}
  /\ stage = "idle" /\ chunk = NoChunk
  /\ lost = [y \in Years |-> {}] /\ answered = [y \in Years |-> {}]
  /\ unshown = [y \in Years |-> {}]
  /\ kicks = 0 /\ archiveFaults = 0

ArchiveStep ==
  \/ StepCompletes \/ StepStarts \/ StepChecksCoverage \/ SalesAnswered
  \/ AdsDone(TRUE) \/ StepEnqueuesRecalc \/ StepAdvances \/ StepSavesYear
ArchiveNext ==
  \/ \E y \in Years : KickYear(y)
  \/ ManagerKicks \/ ArchiveStep
  \/ SalesSwallowed \/ AdsDone(FALSE) \/ StepAborts
  \/ \E c \in recalcs : Recalculate(c) \/ RecalculateFails(c)
ArchiveSpec == ArchiveInit /\ [][ArchiveNext]_archiveVars

(* Beat runs the manager, the orchestrator runs steps while there is work.    *)
FairArchive == ArchiveSpec /\ WF_archiveVars(ManagerKicks) /\ WF_archiveVars(ArchiveStep)
--------------------------------------------------------------------------------
ArchiveTypeOK ==
  /\ asked \in Years \cup {NoYear} /\ halted \in BOOLEAN
  /\ yearStatus \in [Years -> {"idle", "running", "complete"}]
  /\ \A y \in Years : last[y] \in 0..Through[y]
  /\ \A y \in Years : raw[y] \subseteq 1..Through[y] /\ pnl[y] \subseteq raw[y]
  /\ \A c \in recalcs : c.year \in Years /\ Days(c) \subseteq 1..Through[c.year]
  /\ stage \in {"idle", "check", "sales", "ads", "recalc", "advance", "save", "complete"}
  /\ archiveFaults \in 0..MaxArchiveFaults /\ kicks \in 0..MaxKicks

(* The cursor passes no day that WB was not asked for: each was answered, or  *)
(* covered by pnl_daily, or fell to an error that sync_sales swallowed.       *)
PassedDaysWereServed ==
  \A y \in Years : Passed(y) \subseteq answered[y] \cup pnl[y] \cup lost[y]

(* What the archive has loaded reaches the report, whenever a worker dies: a  *)
(* day that the cursor has passed and that has raw rows is in pnl_daily, or   *)
(* its recalculation is on its way or has failed.                             *)
PassedDaysReachPnl ==
  \A y \in Years : \A d \in Passed(y) \cap raw[y] :
    d \in pnl[y] \cup unshown[y] \/ \E c \in recalcs : c.year = y /\ d \in Days(c)

(* The archive is complete in the end, whatever years users ask for           *)
(* meanwhile.  After a permanent error 2026 is taken up again by the manager, *)
(* 2025 waits for a user.                                                     *)
ArchiveCompletes ==
  <>[](yearStatus["2026"] = "complete" /\ (yearStatus["2025"] = "complete" \/ halted))
================================================================================
