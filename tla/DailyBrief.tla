---------------------------- MODULE DailyBrief ----------------------------
(***************************************************************************)
(* The AI brief of one seller for one day.  The morning beat and the page  *)
(* queue tasks that generate it; the status of its one row is all that     *)
(* keeps them apart, and it is read well before it is written.             *)
(***************************************************************************)
EXTENDS Naturals, FiniteSets

CONSTANTS BriefWorkers,   \* Celery workers
          BriefRequests,  \* requests of the page that may overlap
          MaxBriefTasks,  \* bound: tasks queued
          BriefFaults     \* bound: workers that die and messages that are lost

ASSUME DailyBriefAssumption == MaxBriefTasks \in Nat /\ BriefFaults \in Nat

VARIABLES
  brief,         \* the row of daily_briefs
  briefTasks,    \* generate_daily_brief messages in the broker
  briefQueued,   \* messages queued so far
  briefWorker,   \* what each worker is about
  briefRequest,  \* what each request has read
  briefFaults,
  briefRaced     \* history: the row was written under a task or request that had read it

briefVars == <<brief, briefTasks, briefQueued, briefWorker, briefRequest,
               briefFaults, briefRaced>>

BriefStatuses == {"absent", "pending", "generating", "ready", "error"}
BriefRow == [status : BriefStatuses, text : BOOLEAN]
NoBrief == [status |-> "absent", text |-> FALSE]
NotBusy == [pc |-> "idle"]

BriefTypeOK ==
  /\ brief \in BriefRow
  /\ briefTasks \in 0..MaxBriefTasks
  /\ briefQueued \in briefTasks..MaxBriefTasks
  /\ \A w \in BriefWorkers :
       \/ briefWorker[w] = NotBusy
       \/ briefWorker[w] \in [pc : {"read", "write", "generate", "fail"}, seen : BriefRow]
  /\ \A r \in BriefRequests :
       \/ briefRequest[r] = NotBusy
       \/ briefRequest[r] \in [pc : {"write", "queue"}, seen : BriefRow]
  /\ briefFaults \in 0..BriefFaults
  /\ briefRaced \in BOOLEAN

BriefInit ==
  /\ brief = NoBrief
  /\ briefTasks = 0 /\ briefQueued = 0 /\ briefFaults = 0
  /\ briefWorker = [w \in BriefWorkers |-> NotBusy]
  /\ briefRequest = [r \in BriefRequests |-> NotBusy]
  /\ briefRaced = FALSE

-----------------------------------------------------------------------------
WorkerIs(w, pc) ==
  briefWorker' = [briefWorker EXCEPT ![w] = [pc |-> pc, seen |-> brief]]
WorkerIsFree(w) == briefWorker' = [briefWorker EXCEPT ![w] = NotBusy]

\* A row that is written while somebody else holds what he read of it.
BriefRace(workers, requests) ==
  briefRaced' = \/ briefRaced
                \/ /\ brief' # brief
                   /\ \/ \E w \in workers : briefWorker[w] # NotBusy
                      \/ \E r \in requests : briefRequest[r].pc = "write"

MayQueue == briefQueued < MaxBriefTasks
QueueTask == MayQueue /\ briefTasks' = briefTasks + 1 /\ briefQueued' = briefQueued + 1

(* generate_all_daily_briefs, at 7 in the morning *)
BeatQueues ==
  /\ QueueTask
  /\ UNCHANGED <<brief, briefWorker, briefRequest, briefFaults, briefRaced>>

(* trigger_daily_brief: a brief that is ready or under way is only reported. *)
Trigger(r) ==
  /\ briefRequest[r] = NotBusy
  /\ brief.status \notin {"ready", "generating"}
  /\ MayQueue
  /\ briefRequest' = [briefRequest EXCEPT ![r] = [pc |-> "write", seen |-> brief]]
  /\ UNCHANGED <<brief, briefTasks, briefQueued, briefWorker, briefFaults, briefRaced>>

\* Only columns that differ from what was read are written.
ResetTo(seen) ==
  [status |-> IF seen.status = "pending" THEN brief.status ELSE "pending",
   text |-> IF seen.text THEN FALSE ELSE brief.text]

\* A row that was inserted meanwhile breaks the unique constraint: nothing is queued.
TriggerWrites(r) ==
  LET seen == briefRequest[r].seen
      inserts == seen.status = "absent"
      breaks == inserts /\ brief.status # "absent"
  IN
  /\ briefRequest[r].pc = "write"
  /\ brief' = IF breaks THEN brief
              ELSE IF inserts THEN [NoBrief EXCEPT !.status = "pending"] ELSE ResetTo(seen)
  /\ briefRequest' = [briefRequest EXCEPT ![r] =
       IF breaks THEN NotBusy ELSE [pc |-> "queue", seen |-> brief']]
  /\ BriefRace(BriefWorkers, BriefRequests \ {r})
  /\ UNCHANGED <<briefTasks, briefQueued, briefWorker, briefFaults>>

TriggerQueues(r) ==
  /\ briefRequest[r].pc = "queue"
  /\ briefRequest' = [briefRequest EXCEPT ![r] = NotBusy]
  /\ \/ QueueTask /\ UNCHANGED briefFaults
     \/ /\ briefFaults < BriefFaults    \* the broker does not answer
        /\ briefFaults' = briefFaults + 1
        /\ UNCHANGED <<briefTasks, briefQueued>>
  /\ UNCHANGED <<brief, briefWorker, briefRaced>>

-----------------------------------------------------------------------------
(* generate_daily_brief *)
TaskReads(w) ==
  /\ briefWorker[w] = NotBusy
  /\ briefTasks > 0
  /\ briefTasks' = briefTasks - 1
  /\ WorkerIs(w, "read")
  /\ UNCHANGED <<brief, briefQueued, briefRequest, briefFaults, briefRaced>>

\* A missing row is inserted and read again; the loser of two inserts reports an error.
TaskInserts(w) ==
  /\ briefWorker[w].pc = "read"
  /\ briefWorker[w].seen.status = "absent"
  /\ \/ /\ brief.status = "absent"
        /\ brief' = [NoBrief EXCEPT !.status = "pending"]
        /\ briefWorker' = [briefWorker EXCEPT ![w] = [pc |-> "read", seen |-> brief']]
     \/ /\ brief.status # "absent"
        /\ UNCHANGED brief
        /\ WorkerIs(w, "fail")
  /\ BriefRace(BriefWorkers \ {w}, BriefRequests)
  /\ UNCHANGED <<briefTasks, briefQueued, briefRequest, briefFaults>>

\* Mutants: a task that finds the brief "generating", or "ready", goes on.
UnlessGenerating(status) == status \in {"pending", "error", "ready"}
UnlessReady(status) == status \in {"pending", "error", "generating"}
ToBeGenerated(status) == status \in {"pending", "error"}

TaskSkips(w) ==
  /\ briefWorker[w].pc = "read"
  /\ briefWorker[w].seen.status # "absent"
  /\ ~ToBeGenerated(briefWorker[w].seen.status)
  /\ WorkerIsFree(w)
  /\ UNCHANGED <<brief, briefTasks, briefQueued, briefRequest, briefFaults, briefRaced>>

TaskStarts(w) ==
  /\ briefWorker[w].pc = "read"
  /\ ToBeGenerated(briefWorker[w].seen.status)
  /\ brief' = [brief EXCEPT !.status = "generating"]
  /\ WorkerIs(w, "generate")
  /\ BriefRace(BriefWorkers \ {w}, BriefRequests)
  /\ UNCHANGED <<briefTasks, briefQueued, briefRequest, briefFaults>>

Finished(row) == [status |-> "ready", text |-> TRUE]

TaskFinishes(w) ==
  /\ briefWorker[w].pc = "generate"
  /\ brief' = Finished(brief)
  /\ WorkerIsFree(w)
  /\ BriefRace(BriefWorkers \ {w}, BriefRequests)
  /\ UNCHANGED <<briefTasks, briefQueued, briefRequest, briefFaults>>

\* The AI or the database fails: the row is looked up again and marked.
TaskFails(w) ==
  /\ briefWorker[w].pc = "generate"
  /\ WorkerIs(w, "fail")
  /\ UNCHANGED <<brief, briefTasks, briefQueued, briefRequest, briefFaults, briefRaced>>

TaskReports(w) ==
  /\ briefWorker[w].pc = "fail"
  /\ brief' = [brief EXCEPT !.status = "error"]
  /\ WorkerIsFree(w)
  /\ BriefRace(BriefWorkers \ {w}, BriefRequests)
  /\ UNCHANGED <<briefTasks, briefQueued, briefRequest, briefFaults>>

BriefWorkerDies(w) ==
  /\ briefWorker[w] # NotBusy
  /\ briefFaults < BriefFaults
  /\ briefFaults' = briefFaults + 1
  /\ WorkerIsFree(w)
  /\ UNCHANGED <<brief, briefTasks, briefQueued, briefRequest, briefRaced>>

-----------------------------------------------------------------------------
BriefNext ==
  \/ BeatQueues
  \/ \E r \in BriefRequests : Trigger(r) \/ TriggerWrites(r) \/ TriggerQueues(r)
  \/ \E w \in BriefWorkers :
       \/ TaskReads(w) \/ TaskInserts(w) \/ TaskSkips(w) \/ TaskStarts(w)
       \/ TaskFinishes(w) \/ TaskFails(w) \/ TaskReports(w) \/ BriefWorkerDies(w)

BriefSpec == BriefInit /\ [][BriefNext]_briefVars

-----------------------------------------------------------------------------
(***************************************************************************)
(* A brief that is ready stays as it is for the rest of the day: neither   *)
(* the tasks still queued nor later requests or failures touch it, unless  *)
(* the row was written under one that had read it.                         *)
(***************************************************************************)
ReadyIsKept ==
  [][~briefRaced' /\ brief.status = "ready" => brief' = brief /\ brief.text]_briefVars

(***************************************************************************)
(* The docstring's "защита от дублирования": one task at a time asks the   *)
(* AI, however many are queued, unless two read the row before either      *)
(* wrote it.                                                               *)
(***************************************************************************)
GeneratedByOne ==
  ~briefRaced =>
    \A v, w \in BriefWorkers :
      briefWorker[v].pc = "generate" /\ briefWorker[w].pc = "generate" => v = w

(***************************************************************************)
(* What the row of a day's brief keeps true under beat, requests and tasks. *)
(***************************************************************************)
BriefInv == BriefTypeOK /\ GeneratedByOne
=============================================================================
