------------------------------ MODULE AiTasks ------------------------------
(***************************************************************************)
(* Comparison with competitors for one seller: a browser fetches a report  *)
(* from the seller's cabinet, its metrics are imported, and the daily       *)
(* analysis turns weak metrics into a task and a hypothesis for the seller. *)
(* The daily beat, fetches the seller asked for, reports that the seller    *)
(* uploads and the seller's own clicks overlap; every step below is a       *)
(* transaction of one of them.                                              *)
(***************************************************************************)
EXTENDS Integers, Sequences, FiniteSets

CONSTANTS Fetchers,     \* Celery workers
          Uploaders,    \* requests of the seller that bring a report
          LastReportDay,\* bound: the last day of the run
          ValidDays,    \* a report is valid for 3 days
          MaxImports,   \* bound: imports
          MaxTasks,     \* bound: tasks ever made
          MaxHypotheses,\* bound: hypotheses ever made
          AiFaults      \* bound: workers that die

ASSUME AiTasksAssumption ==
  /\ LastReportDay \in Nat \ {0}
  /\ Fetchers \cap Uploaders = {}
  /\ {ValidDays, MaxImports, MaxTasks, MaxHypotheses, AiFaults} \subseteq Nat

VARIABLES
  reportDay,   \* the calendar
  reports,     \* ai_competitor_comparison_reports by day
  imports,     \* import batches: their day, and whether their metrics are weak
  aiTasks,     \* ai_tasks of one rule for one product, in order of creation
  hypotheses,  \* ai_hypotheses, likewise
  access,      \* the saved session and the reconnect flag; a task asks for a login without
  refreshTask, \* a task that asks to reopen the report is open
  wanted,      \* fetches in the queue
  fetcher,     \* what each worker and each upload is about
  aiFaults,
  cutShort     \* history: days without metrics whose import ended after its first commit

aiVars == <<reportDay, reports, imports, aiTasks, hypotheses, access, refreshTask,
            wanted, fetcher, aiFaults, cutShort>>

ReportDays == 1..LastReportDay
ReportStatuses == {"absent", "running", "ready", "error", "stale"}
Importers == Fetchers \cup Uploaders
OpenRow(row) == row.status = "open"
HasOpen(rows) == \E n \in DOMAIN rows : OpenRow(rows[n])
AtEase == [pc |-> "idle"]
FetcherSteps == {"browse", "import", "metrics", "confirm", "analyse", "find", "insert", "again", "retry",
                 "hypothesis", "propose", "finish"}

\* A row and its fingerprint: the day of the report, or 0 with a random suffix.
RowsOf(statuses) == [status : statuses, day : 0..LastReportDay]

\* The saved browser session of the cabinet: absent, usable, or to be renewed by hand.
AccessStates == {"none", "saved", "reconnect"}

AiTypeOK ==
  /\ reportDay \in ReportDays
  /\ reports \in [ReportDays -> [status : ReportStatuses, batch : 0..MaxImports]]
  /\ imports \in Seq([day : ReportDays, weak : BOOLEAN]) /\ Len(imports) <= MaxImports
  /\ aiTasks \in Seq(RowsOf({"open", "closed"})) /\ Len(aiTasks) <= MaxTasks
  /\ hypotheses \in Seq(RowsOf({"open", "closed"})) /\ Len(hypotheses) <= MaxHypotheses
  /\ access \in AccessStates
  /\ refreshTask \in BOOLEAN
  /\ wanted \in 0..MaxImports
  /\ \A w \in Importers :
       \/ fetcher[w] = AtEase
       \/ fetcher[w] \in [pc : IF w \in Fetchers THEN FetcherSteps ELSE {"metrics"},
                         day : ReportDays, weak : BOOLEAN, seen : BOOLEAN]
  /\ aiFaults \in 0..AiFaults
  /\ cutShort \subseteq ReportDays

AiInit ==
  /\ reportDay = 1
  /\ reports = [d \in ReportDays |-> [status |-> "absent", batch |-> 0]]
  /\ imports = << >> /\ aiTasks = << >> /\ hypotheses = << >>
  /\ access = "none"
  /\ refreshTask = FALSE
  /\ wanted = 0
  /\ fetcher = [w \in Importers |-> AtEase]
  /\ aiFaults = 0
  /\ cutShort = {}

-----------------------------------------------------------------------------
\* wb_headless_access_effective
HasAccessToCabinet == access = "saved"

\* get_latest_report
Known == {d \in ReportDays : reports[d].status # "absent"}
LatestDay == CHOOSE d \in Known : \A e \in Known : e <= d

\* Every analysis at the rule sees whether the task is open now.
AtTheRule == {"find", "insert", "again", "retry"}
Watching(tasks) ==
  [w \in Importers |->
     IF fetcher[w].pc \in AtTheRule /\ HasOpen(tasks) THEN [fetcher[w] EXCEPT !.seen = TRUE]
     ELSE fetcher[w]]

GoesOn(w, pc) == fetcher' = [fetcher EXCEPT ![w].pc = pc]
IsDone(w) == fetcher' = [fetcher EXCEPT ![w] = AtEase]

\* The row of the day is made or reset to "running" before the browser starts.
BeginFetch(w) ==
  /\ reports' = [reports EXCEPT ![reportDay].status = "running"]
  /\ fetcher' = [fetcher EXCEPT ![w] =
       [pc |-> "browse", day |-> reportDay, weak |-> FALSE, seen |-> FALSE]]

(* ai_competitor_report_fetch_playwright, from the queue *)
FetchTaken(w) ==
  /\ fetcher[w] = AtEase
  /\ wanted > 0
  /\ wanted' = wanted - 1
  /\ BeginFetch(w)
  /\ UNCHANGED <<reportDay, imports, aiTasks, hypotheses, access, refreshTask, aiFaults, cutShort>>

(* run_ai_daily_analytics_beat_cycle, for a seller who has given access *)
BeatFindsOld ==
  /\ HasAccessToCabinet
  /\ Known # {}
  /\ reports[LatestDay].status = "ready"
  /\ LatestDay + ValidDays < reportDay
  /\ reports' = [reports EXCEPT ![LatestDay].status = "stale"]
  /\ refreshTask' = TRUE
  /\ UNCHANGED <<reportDay, imports, aiTasks, hypotheses, access, wanted, fetcher, aiFaults,
                 cutShort>>

\* A report of the seller's own upload is analysed; any other is fetched anew.
BeatFetches(w) ==
  /\ HasAccessToCabinet
  /\ fetcher[w] = AtEase
  /\ \/ Known = {} /\ BeginFetch(w)
     \/ /\ Known # {}
        /\ reports[LatestDay].status = "ready"
        /\ LatestDay + ValidDays >= reportDay
        /\ \/ BeginFetch(w)
           \/ /\ fetcher' = [fetcher EXCEPT ![w] =
                   [pc |-> "analyse", day |-> LatestDay, weak |-> FALSE, seen |-> FALSE]]
              /\ UNCHANGED reports
  /\ UNCHANGED <<reportDay, imports, aiTasks, hypotheses, access, refreshTask, wanted, aiFaults,
                 cutShort>>

-----------------------------------------------------------------------------
\* The cabinet refuses the session, is blocked, or the browser fails: a new login is asked for.
BrowserRefused(w) ==
  /\ fetcher[w].pc = "browse"
  /\ access' = IF access = "none" THEN access ELSE "reconnect"
  /\ reports' = [reports EXCEPT ![fetcher[w].day].status = "error"]
  /\ IsDone(w)
  /\ UNCHANGED <<reportDay, imports, aiTasks, hypotheses, refreshTask, wanted, aiFaults, cutShort>>

\* The report is to be paid for or reopened by hand.
ReopenRequired(w) ==
  /\ fetcher[w].pc = "browse"
  /\ reports' = [reports EXCEPT ![fetcher[w].day].status = "stale"]
  /\ refreshTask' = TRUE
  /\ IsDone(w)
  /\ UNCHANGED <<reportDay, imports, aiTasks, hypotheses, access, wanted, aiFaults, cutShort>>

\* The file is there, and is a report or not.
BrowserFetched(w) ==
  /\ fetcher[w].pc = "browse"
  /\ \/ GoesOn(w, "import") /\ UNCHANGED reports
     \/ reports' = [reports EXCEPT ![fetcher[w].day].status = "error"] /\ IsDone(w)
  /\ UNCHANGED <<reportDay, imports, aiTasks, hypotheses, access, refreshTask, wanted, aiFaults,
                 cutShort>>

\* import_competitor_report commits the row first, then metrics and pointer together.
ReadyStatus == "ready"

ImportMarksReady(w) ==
  /\ fetcher[w].pc = "import"
  /\ reports' = [reports EXCEPT ![fetcher[w].day].status = ReadyStatus]
  /\ GoesOn(w, "metrics")
  /\ UNCHANGED <<reportDay, imports, aiTasks, hypotheses, access, refreshTask, wanted, aiFaults,
                 cutShort>>

\* The seller uploads a report of any day so far: the same two commits, and no analysis.
UploadMarksReady(u) ==
  /\ fetcher[u] = AtEase
  /\ Len(imports) < MaxImports
  /\ \E d \in 1..reportDay :
       /\ reports' = [reports EXCEPT ![d].status = ReadyStatus]
       /\ fetcher' = [fetcher EXCEPT ![u] =
            [pc |-> "metrics", day |-> d, weak |-> FALSE, seen |-> FALSE]]
  /\ UNCHANGED <<reportDay, imports, aiTasks, hypotheses, access, refreshTask, wanted, aiFaults,
                 cutShort>>

\* Mutant: the pointer is forgotten.
PointerLost(row, batch) == row
PointsTo(row, batch) == [row EXCEPT !.batch = batch]

ImportWritesMetrics(w, weak) ==
  LET q == fetcher[w] IN
  /\ q.pc = "metrics"
  /\ Len(imports) < MaxImports
  /\ imports' = Append(imports, [day |-> q.day, weak |-> weak])
  /\ reports' = [reports EXCEPT ![q.day] = PointsTo(@, Len(imports) + 1)]
  /\ IF w \in Fetchers THEN GoesOn(w, "confirm") ELSE IsDone(w)
  /\ cutShort' = cutShort \ {q.day}
  /\ UNCHANGED <<reportDay, aiTasks, hypotheses, access, refreshTask, wanted, aiFaults>>

\* The metrics of an import that is between its two commits will not come.
CutsShort(w) ==
  LET q == fetcher[w] IN
  cutShort' = IF q.pc = "metrics" /\ reports[q.day].batch = 0 THEN cutShort \cup {q.day} ELSE cutShort

\* A bad item raises, and so does the unique key of metrics for one that comes twice; an
\* upload without items skips pointer and metrics.  The row stays as it was committed.
ImportBringsNothing(w) ==
  /\ fetcher[w].pc = "metrics"
  /\ CutsShort(w)
  /\ IsDone(w)
  /\ UNCHANGED <<reportDay, reports, imports, aiTasks, hypotheses, access, refreshTask, wanted,
                 aiFaults>>

\* The fetch writes its status once more after the import.
FetchConfirms(w) ==
  /\ fetcher[w].pc = "confirm"
  /\ reports' = [reports EXCEPT ![fetcher[w].day].status = "ready"]
  /\ GoesOn(w, "analyse")
  /\ UNCHANGED <<reportDay, imports, aiTasks, hypotheses, access, refreshTask, wanted, aiFaults,
                 cutShort>>

-----------------------------------------------------------------------------
(* run_daily_analytics: the batch the report points to, and its rules *)
Analyse(w) ==
  LET batch == reports[fetcher[w].day].batch
      weak == batch # 0 /\ imports[batch].weak
  IN
  /\ fetcher[w].pc = "analyse"
  /\ fetcher' = [fetcher EXCEPT ![w].pc = IF weak THEN "find" ELSE "finish",
                                ![w].weak = weak, ![w].seen = HasOpen(aiTasks)]
  /\ UNCHANGED <<reportDay, reports, imports, aiTasks, hypotheses, access, refreshTask, wanted,
                 aiFaults, cutShort>>

\* _upsert_task: an open task is updated in place.
FindTask(w) ==
  /\ fetcher[w].pc \in {"find", "again"}
  /\ GoesOn(w, IF HasOpen(aiTasks) THEN "hypothesis"
               ELSE IF fetcher[w].pc = "find" THEN "insert" ELSE "retry")
  /\ UNCHANGED <<reportDay, reports, imports, aiTasks, hypotheses, access, refreshTask, wanted,
                 aiFaults, cutShort>>

\* The two unique indexes: one open row of the rule, one row of a fingerprint.
Fits(rows, day) ==
  /\ ~HasOpen(rows)
  /\ day # 0 => \A n \in DOMAIN rows : rows[n].day # day

\* A broken unique key sends the insert of a day back to the look-up.
IfTaken(pc) == IF pc = "insert" THEN "again" ELSE "hypothesis"

InsertTask(w) ==
  LET q == fetcher[w]
      day == IF q.pc = "insert" THEN q.day ELSE 0
  IN
  /\ q.pc \in {"insert", "retry"}
  /\ \/ /\ Fits(aiTasks, day)
        /\ Len(aiTasks) < MaxTasks
        /\ aiTasks' = Append(aiTasks, [status |-> "open", day |-> day])
        /\ fetcher' = [Watching(aiTasks') EXCEPT ![w].pc = "hypothesis"]
     \/ /\ ~Fits(aiTasks, day)
        /\ GoesOn(w, IfTaken(q.pc))
        /\ UNCHANGED aiTasks
  /\ UNCHANGED <<reportDay, reports, imports, hypotheses, access, refreshTask, wanted, aiFaults,
                 cutShort>>

\* _upsert_hypothesis: an active one is updated; a broken constraint ends it.
FindHypothesis(w) ==
  /\ fetcher[w].pc = "hypothesis"
  /\ GoesOn(w, IF HasOpen(hypotheses) THEN "finish" ELSE "propose")
  /\ UNCHANGED <<reportDay, reports, imports, aiTasks, hypotheses, access, refreshTask, wanted,
                 aiFaults, cutShort>>

InsertHypothesis(w) ==
  /\ fetcher[w].pc = "propose"
  /\ \/ /\ Fits(hypotheses, fetcher[w].day)
        /\ Len(hypotheses) < MaxHypotheses
        /\ hypotheses' = Append(hypotheses, [status |-> "open", day |-> fetcher[w].day])
     \/ /\ ~Fits(hypotheses, fetcher[w].day)
        /\ UNCHANGED hypotheses
  /\ GoesOn(w, "finish")
  /\ UNCHANGED <<reportDay, reports, imports, aiTasks, access, refreshTask, wanted, aiFaults,
                 cutShort>>

\* The fetch succeeded: the reconnect flag goes, unless there was only an analysis.
FetchEnds(w) ==
  /\ fetcher[w].pc = "finish"
  /\ access' \in {access, IF access = "none" THEN access ELSE "saved"}
  /\ IsDone(w)
  /\ UNCHANGED <<reportDay, reports, imports, aiTasks, hypotheses, refreshTask, wanted, aiFaults,
                 cutShort>>

FetcherDies(w) ==
  /\ fetcher[w] # AtEase
  /\ aiFaults < AiFaults
  /\ aiFaults' = aiFaults + 1
  /\ CutsShort(w)
  /\ IsDone(w)
  /\ UNCHANGED <<reportDay, reports, imports, aiTasks, hypotheses, access, refreshTask, wanted>>

-----------------------------------------------------------------------------
(* The seller: closes tasks and hypotheses, confirms a refresh, logs in, looks at the list. *)
Closed(rows) == [n \in DOMAIN rows |-> [rows[n] EXCEPT !.status = "closed"]]

CloseTask ==
  /\ HasOpen(aiTasks)
  /\ aiTasks' = Closed(aiTasks)
  /\ UNCHANGED <<reportDay, reports, imports, hypotheses, access, refreshTask, wanted, fetcher,
                 aiFaults, cutShort>>

FinishHypothesis ==
  /\ HasOpen(hypotheses)
  /\ hypotheses' = Closed(hypotheses)
  /\ UNCHANGED <<reportDay, reports, imports, aiTasks, access, refreshTask, wanted, fetcher,
                 aiFaults, cutShort>>

\* execute_task and the router: queued again even when the task is in progress.
ExecuteRefresh ==
  /\ refreshTask
  /\ wanted + Len(imports) < MaxImports
  /\ wanted' = wanted + 1
  /\ UNCHANGED <<reportDay, reports, imports, aiTasks, hypotheses, access, refreshTask, fetcher,
                 aiFaults, cutShort>>

AskForRefresh ==
  /\ ~refreshTask
  /\ refreshTask' = TRUE
  /\ UNCHANGED <<reportDay, reports, imports, aiTasks, hypotheses, access, wanted, fetcher,
                 aiFaults, cutShort>>

CloseRefresh ==
  /\ refreshTask
  /\ refreshTask' = FALSE
  /\ UNCHANGED <<reportDay, reports, imports, aiTasks, hypotheses, access, wanted, fetcher,
                 aiFaults, cutShort>>

LogIn ==
  /\ ~HasAccessToCabinet
  /\ access' = "saved"
  /\ UNCHANGED <<reportDay, reports, imports, aiTasks, hypotheses, refreshTask, wanted, fetcher,
                 aiFaults, cutShort>>

NextDay ==
  /\ reportDay < LastReportDay
  /\ reportDay' = reportDay + 1
  /\ UNCHANGED <<reports, imports, aiTasks, hypotheses, access, refreshTask, wanted, fetcher,
                 aiFaults, cutShort>>

-----------------------------------------------------------------------------
AiNext ==
  \/ BeatFindsOld
  \/ CloseTask \/ FinishHypothesis \/ ExecuteRefresh \/ AskForRefresh \/ CloseRefresh
  \/ LogIn \/ NextDay
  \/ \E w \in Fetchers :
       \/ FetchTaken(w) \/ BeatFetches(w) \/ BrowserRefused(w) \/ ReopenRequired(w)
       \/ BrowserFetched(w) \/ ImportMarksReady(w) \/ FetchConfirms(w)
       \/ Analyse(w) \/ FindTask(w) \/ InsertTask(w) \/ FindHypothesis(w)
       \/ InsertHypothesis(w) \/ FetchEnds(w)
  \/ \E u \in Uploaders : UploadMarksReady(u)
  \/ \E w \in Importers :
       \/ \E weak \in BOOLEAN : ImportWritesMetrics(w, weak)
       \/ ImportBringsNothing(w) \/ FetcherDies(w)

AiSpec == AiInit /\ [][AiNext]_aiVars

-----------------------------------------------------------------------------
(***************************************************************************)
(* "closed -> create new": once an analysis of weak metrics is past the    *)
(* rule, the seller had an open task at some moment of it, although the    *)
(* last one has been closed on the same day or another analysis was first. *)
(***************************************************************************)
WeakLeavesTask ==
  \A w \in Fetchers :
    fetcher[w].pc \in {"hypothesis", "propose", "finish"} /\ fetcher[w].weak => fetcher[w].seen

(***************************************************************************)
(* A report that is shown as ready points to metrics of its own day,       *)
(* unless an import of that day is between its two commits or ended there: *)
(* its worker died, its items were refused or there were none.             *)
(***************************************************************************)
ReadyHasMetrics ==
  \A d \in ReportDays \ cutShort :
    /\ reports[d].status = "ready"
    /\ ~\E w \in Importers : fetcher[w].pc = "metrics" /\ fetcher[w].day = d
    => reports[d].batch \in DOMAIN imports

(***************************************************************************)
(* Whatever imports of a day overlap, fail or die, an analysis of it reads *)
(* the batch of that day that was imported last.                           *)
(***************************************************************************)
PointerIsNewest ==
  \A n \in DOMAIN imports :
    LET batch == reports[imports[n].day].batch IN
    batch \in n..Len(imports) /\ imports[batch].day = imports[n].day

(***************************************************************************)
(* What reports, tasks and hypotheses keep true under overlapping fetches. *)
(***************************************************************************)
TasksInv == AiTypeOK /\ WeakLeavesTask /\ ReadyHasMetrics /\ PointerIsNewest
=============================================================================
