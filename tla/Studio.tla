------------------------------ MODULE Studio ------------------------------
(***************************************************************************)
(* Product photos: one job of the backend and its runs in the image        *)
(* pipeline service.  A run is a chain of Celery tasks that ask OpenAI for *)
(* main frames; for a frame the user chooses a second chain makes a series *)
(* of content frames.  Stopping a run recalls no task: those of stopped,   *)
(* repeated and retried chains overlap.  So do the requests of the user,   *)
(* each of which reads the job, asks the service and commits the job.      *)
(***************************************************************************)
EXTENDS Integers, Sequences, FiniteSets

CONSTANTS Runs,        \* 1..n: rows of wip_runs in order of creation
          Workers,
          Clicks,      \* requests about the job that overlap
          MainCount,   \* 4 main frames in the code
          SeriesCount, \* CONTENT_FRAME_COUNT, 7 in the code
          MaxChains,   \* bound: chains in the queue, those delivered twice included
          MaxStops,    \* bound: requests to stop or to set the status
          StudioFaults \* bound: lost answers, messages and workers, repeated messages

ASSUME StudioAssumption ==
  /\ MainCount \in Nat \ {0} /\ SeriesCount \in Nat \ {0}
  /\ {MaxChains, MaxStops, StudioFaults} \subseteq Nat
  /\ IsFiniteSet(Runs) /\ Runs = 1..Cardinality(Runs)

VARIABLES
  run,       \* wip_runs with their wip_steps and wip_assets
  queue,     \* tasks in the broker
  worker,    \* what each worker asks OpenAI for
  job,       \* the row of product_generation_jobs
  click,     \* what each request has read and what it does next
  chains, stops, studioFaults,
  stopped,   \* history: runs stopped and not taken up again
  overtaken, \* history: runs with a task that was repeated or outlived its chain
  orphaned   \* history: runs that a job let go without a stop, or revived by an old request

bounds == <<chains, stops, studioFaults>>
studioHistory == <<stopped, overtaken, orphaned>>
backend == <<job, click, bounds, studioHistory>>
studioVars == <<run, queue, worker, backend>>

MainKeys == {"structure_main", "images_main", "pg32_stub"}
ContentKeys == {"content_structure", "content_images"}
StepKeys == MainKeys \cup ContentKeys
StepStatus == {"absent", "pending", "running", "done", "failed"}
RunStatus == {"absent", "created", "running", "completed", "failed", "cancelled"}

\* Main frames by number; 0 is none.
FrameIds == 1..MainCount
NoFrame == 0

\* enqueue_pg32_stub_chain and enqueue_content_series_chain
FollowedBy ==
  [t \in {"run_created", "structure_main", "images_main", "content_structure",
          "content_images"} |->
     CASE t = "run_created" -> "structure_main"
       [] t = "structure_main" -> "images_main"
       [] t = "images_main" -> "step_done"
       [] t = "content_structure" -> "content_images"
       [] t = "content_images" -> "content_done"]

Tasks == DOMAIN FollowedBy \cup {"step_done", "content_done"}
TaskMessages == [task : Tasks, run : Runs, chain : 1..MaxChains, chosen : FrameIds \cup {NoFrame}]
Free == [task |-> "none"]
RunRows == [status : RunStatus, chosen : FrameIds \cup {NoFrame},
            step : [StepKeys -> StepStatus], prompts : FrameIds \cup {NoFrame},
            frames : Nat, series : [FrameIds -> Nat]]
\* "ready_to_publish" and "published" are alike here: no request starts or stops at them.
JobStatuses == {"draft", "in_progress", "error", "published"}
JobRows == [status : JobStatuses, run : Runs \cup {0}]
NoClick == [pc |-> "none"]
ClickSteps == {"drop", "create", "adopt", "stop", "stopped", "content"}
ClickRows == [pc : ClickSteps, run : Runs \cup {0}, made : Runs \cup {0},
              frame : FrameIds \cup {NoFrame}]

StudioTypeOK ==
  /\ run \in [Runs -> RunRows]
  /\ queue \subseteq TaskMessages
  /\ worker \in [Workers -> {Free} \cup [msg : TaskMessages, had : Nat]]
  /\ job \in JobRows
  /\ click \in [Clicks -> ClickRows \cup {NoClick}]
  /\ chains \in 0..MaxChains /\ stops \in 0..MaxStops /\ studioFaults \in 0..StudioFaults
  /\ {stopped, overtaken, orphaned} \subseteq SUBSET Runs

NewRun ==
  [status |-> "absent", chosen |-> NoFrame, step |-> [k \in StepKeys |-> "absent"],
   prompts |-> NoFrame, frames |-> 0, series |-> [f \in FrameIds |-> 0]]

StudioInit ==
  /\ run = [r \in Runs |-> NewRun]
  /\ queue = {}
  /\ worker = [w \in Workers |-> Free]
  /\ job = [status |-> "draft", run |-> 0]
  /\ click = [c \in Clicks |-> NoClick]
  /\ chains = 0 /\ stops = 0 /\ studioFaults = 0
  /\ stopped = {} /\ overtaken = {} /\ orphaned = {}

StudioFault == studioFaults < StudioFaults /\ studioFaults' = studioFaults + 1

-----------------------------------------------------------------------------
(* A task reads its run and is over, passes the chain on, or asks OpenAI. *)
FirstOf(task, r) == [task |-> task, run |-> r, chain |-> chains + 1, chosen |-> NoFrame]

Ends(m) == queue' = queue \ {m} /\ UNCHANGED worker

Passes(m, chosen) ==
  /\ queue' = (queue \ {m}) \cup {[m EXCEPT !.task = FollowedBy[@], !.chosen = chosen]}
  /\ UNCHANGED worker

SetStep(r, k, status) == run' = [run EXCEPT ![r].step[k] = status]

Asks(w, m, chosen, had) ==
  /\ queue' = queue \ {m}
  /\ worker' = [worker EXCEPT ![w] = [msg |-> [m EXCEPT !.chosen = chosen], had |-> had]]

\* apply_run_created; a task of a run that is completed finds its stub done.
RunCreated(w, m) ==
  /\ m.task = "run_created"
  /\ run' = IF run[m.run].status = "completed" THEN run
            ELSE [run EXCEPT ![m.run].status = IF @ = "created" THEN "running" ELSE @,
                             ![m.run].step = [k \in StepKeys |->
                                IF k \in MainKeys /\ @[k] = "absent" THEN "pending" ELSE @[k]]]
  /\ Passes(m, NoFrame)

\* apply_structure_main_step up to the call of OpenAI
StructureBegins(w, m) ==
  LET status == run[m.run].step["structure_main"] IN
  /\ m.task = "structure_main"
  /\ \/ status = "done" /\ Passes(m, NoFrame) /\ UNCHANGED run
     \/ status = "failed" /\ Ends(m) /\ UNCHANGED run
     \/ /\ status \in {"pending", "running"}
        /\ SetStep(m.run, "structure_main", "running")
        /\ Asks(w, m, NoFrame, 0)

\* apply_images_main_step up to the first call; a part of the frames is wiped.
AllFrames(x) == x.step["images_main"] = "done" /\ x.frames >= MainCount

ImagesBegin(w, m) ==
  LET x == run[m.run]
      structured == x.step["structure_main"] = "done"
      refused == ~structured \/ (~AllFrames(x) /\ x.step["images_main"] = "failed")
      left == IF x.frames < MainCount THEN 0 ELSE x.frames
  IN
  /\ m.task = "images_main"
  /\ \/ structured /\ AllFrames(x) /\ Passes(m, NoFrame) /\ UNCHANGED run
     \/ refused /\ Ends(m) /\ UNCHANGED run
     \/ /\ ~refused /\ ~AllFrames(x)
        /\ run' = [run EXCEPT ![m.run].step["images_main"] = "running", ![m.run].frames = left]
        /\ Asks(w, m, NoFrame, left)

\* apply_step_done: nothing but the two rows is looked at.
StepDone(w, m) ==
  /\ m.task = "step_done"
  /\ run' = [run EXCEPT ![m.run].step["pg32_stub"] = "done", ![m.run].status = "completed"]
  /\ Ends(m)

\* apply_content_structure_step up to the call
ContentStructureBegins(w, m) ==
  LET x == run[m.run]
      status == x.step["content_structure"]
      ready == status = "done" /\ x.prompts = x.chosen
  IN
  /\ m.task = "content_structure"
  /\ \/ ready /\ Passes(m, x.chosen) /\ UNCHANGED run
     \/ status = "failed" /\ Ends(m) /\ UNCHANGED run
     \/ /\ ~ready /\ status # "failed"
        /\ SetStep(m.run, "content_structure", "running")
        /\ Asks(w, m, x.chosen, 0)

\* _wipe_content_assets
Wiped(series, f) == [g \in FrameIds |-> 0]

\* apply_content_images_step up to the first call
ContentImagesBegin(w, m) ==
  LET x == run[m.run]
      prompted == x.step["content_structure"] = "done" /\ x.prompts = m.chosen
      status == x.step["content_images"]
      whole == status = "done" /\ x.series[m.chosen] >= SeriesCount
      refused == ~prompted \/ (~whole /\ status = "failed")
  IN
  /\ m.task = "content_images"
  /\ \/ prompted /\ whole /\ Passes(m, m.chosen) /\ UNCHANGED run
     \/ refused /\ Ends(m) /\ UNCHANGED run
     \/ /\ ~refused /\ ~whole
        /\ run' = [run EXCEPT ![m.run].step["content_images"] = "running",
                              ![m.run].series = Wiped(@, m.chosen)]
        /\ Asks(w, m, m.chosen, 0)

\* apply_content_done
ContentDone(w, m) ==
  /\ m.task = "content_done"
  /\ run' = IF run[m.run].step["content_images"] = "done"
            THEN [run EXCEPT ![m.run].status = "completed"] ELSE run
  /\ Ends(m)

TaskIsTaken(w, m) ==
  /\ worker[w] = Free
  /\ \/ RunCreated(w, m) \/ StructureBegins(w, m) \/ ImagesBegin(w, m) \/ StepDone(w, m)
     \/ ContentStructureBegins(w, m) \/ ContentImagesBegin(w, m) \/ ContentDone(w, m)
  /\ UNCHANGED backend

-----------------------------------------------------------------------------
(* The answers of OpenAI: the rows are written whatever was done to them meanwhile. *)
Answered(x, m, had) ==
  CASE m.task = "images_main" /\ had < MainCount -> [x EXCEPT !.frames = @ + MainCount]
    [] m.task = "content_structure" -> [x EXCEPT !.prompts = m.chosen]
    [] m.task = "content_images" -> [x EXCEPT !.series[m.chosen] = @ + SeriesCount]
    [] OTHER -> x

IsFree(w) == worker' = [worker EXCEPT ![w] = Free]

Succeeds(w) ==
  LET m == worker[w].msg IN
  /\ worker[w] # Free
  /\ run' = [run EXCEPT ![m.run] = [Answered(@, m, worker[w].had) EXCEPT !.step[m.task] = "done"]]
  /\ queue' = queue \cup {[m EXCEPT !.task = FollowedBy[@]]}
  /\ IsFree(w)
  /\ UNCHANGED backend

\* What was made before the error is kept with it.
Partly(x, m, n) ==
  CASE m.task = "images_main" -> [x EXCEPT !.frames = @ + n]
    [] m.task = "content_images" -> [x EXCEPT !.series[m.chosen] = @ + n]
    [] OTHER -> x

MayBeMade(task, had) ==
  CASE task = "images_main" /\ had < MainCount -> 0..MainCount - 1
    [] task = "content_images" -> 0..SeriesCount - 1
    [] OTHER -> {0}

OpenAIFails(w) ==
  LET m == worker[w].msg IN
  /\ worker[w] # Free
  /\ \E n \in MayBeMade(m.task, worker[w].had) :
       run' = [run EXCEPT ![m.run] =
                 [Partly(@, m, n) EXCEPT !.step[m.task] = "failed", !.status = "failed"]]
  /\ IsFree(w)
  /\ UNCHANGED <<queue, backend>>

\* The answer cannot be written: autoretry_for SQLAlchemyError.
AnswerIsLost(w) ==
  /\ worker[w] # Free
  /\ StudioFault
  /\ queue' = queue \cup {worker[w].msg}
  /\ IsFree(w)
  /\ UNCHANGED <<run, job, click, chains, stops, studioHistory>>

\* The worker dies, or the chosen file is missing: the step stays "running".
StudioWorkerDies(w) ==
  /\ worker[w] # Free
  /\ StudioFault
  /\ IsFree(w)
  /\ UNCHANGED <<run, queue, job, click, chains, stops, studioHistory>>

\* The broker delivers a task to a second worker.
Repeated(m) ==
  /\ StudioFault
  /\ chains < MaxChains
  /\ chains' = chains + 1
  /\ queue' = queue \cup {[m EXCEPT !.chain = chains + 1]}
  /\ overtaken' = overtaken \cup {m.run}
  /\ UNCHANGED <<run, worker, job, click, stops, stopped, orphaned>>

-----------------------------------------------------------------------------
(* The service's HTTP interface, as the backend calls it. *)
UnderWay(r) ==
  (\E m \in queue : m.run = r) \/ (\E w \in Workers : worker[w] # Free /\ worker[w].msg.run = r)
Overtakes(r) == overtaken' = IF UnderWay(r) THEN overtaken \cup {r} ELSE overtaken

\* stop_run on one row
StepsFail(x, keys) ==
  [k \in StepKeys |-> IF k \in keys /\ x.step[k] \in {"pending", "running"}
                      THEN "failed" ELSE x.step[k]]

StoppedRun(x) ==
  IF x.frames > 0
  THEN [x EXCEPT !.step = StepsFail(x, ContentKeys), !.status = "failed"]
  ELSE [x EXCEPT !.step = StepsFail(x, StepKeys), !.status = "cancelled"]

(* A request reads the job, calls the service, writes the job: a step each. *)
Reads(c, pc, r, f) ==
  /\ click[c] = NoClick
  /\ click' = [click EXCEPT ![c] = [pc |-> pc, run |-> r, made |-> 0, frame |-> f]]
  /\ UNCHANGED <<run, queue, worker, job, chains, studioFaults, studioHistory>>

MovesOn(c, pc) == click' = [click EXCEPT ![c].pc = pc]
IsOver(c) == click' = [click EXCEPT ![c] = NoClick]

\* The service, its answer or the commit fails: what has been done stays done.
RequestFails(c) ==
  /\ click[c] # NoClick
  /\ StudioFault
  /\ orphaned' = orphaned \cup ({click[c].made} \ {0})
  /\ IsOver(c)
  /\ UNCHANGED <<run, queue, worker, job, chains, stops, stopped, overtaken>>

StopsRun(r) ==
  /\ run' = [run EXCEPT ![r] = StoppedRun(@)]
  /\ stopped' = stopped \cup {r}
  /\ Overtakes(r)

NextRun == Cardinality({r \in Runs : run[r].status # "absent"}) + 1
Enqueued(m) == queue' = queue \cup {m} /\ chains' = chains + 1

\* start_job_pipeline: the old run of a job in error is to be stopped first.
OldRun(row) == IF row.status = "error" THEN row.run ELSE 0

\* Mutant: the old run is left as it is.
OldRunIsKept(row) == "create"
FirstStep(row) == IF OldRun(row) = 0 THEN "create" ELSE "drop"

ClickStart(c) ==
  /\ job.status \in {"draft", "error"}
  /\ NextRun \in Runs
  /\ Reads(c, FirstStep(job), OldRun(job), NoFrame)
  /\ UNCHANGED stops

DropOldRun(c) ==
  /\ click[c].pc = "drop"
  /\ StopsRun(click[c].run)
  /\ MovesOn(c, "create")
  /\ UNCHANGED <<queue, worker, job, chains, stops, studioFaults, orphaned>>

\* create_run: when enqueueing fails the run stays "created".
CreateRun(c) ==
  /\ click[c].pc = "create"
  /\ NextRun \in Runs
  /\ chains < MaxChains
  /\ run' = [run EXCEPT ![NextRun].status = "created"]
  /\ \/ /\ Enqueued(FirstOf("run_created", NextRun))
        /\ click' = [click EXCEPT ![c].pc = "adopt", ![c].made = NextRun]
        /\ UNCHANGED <<studioFaults, orphaned>>
     \/ /\ StudioFault
        /\ IsOver(c)
        /\ orphaned' = orphaned \cup {NextRun}
        /\ UNCHANGED <<queue, chains>>
  /\ UNCHANGED <<worker, job, stops, stopped, overtaken>>

\* A run of the job that this request has not stopped is let go as it is.
AdoptRun(c) ==
  LET q == click[c] IN
  /\ q.pc = "adopt"
  /\ job' = [status |-> "in_progress", run |-> q.made]
  /\ orphaned' = orphaned \cup ({job.run} \ {0, q.run})
  /\ IsOver(c)
  /\ UNCHANGED <<run, queue, worker, bounds, stopped, overtaken>>

\* stop_job_pipeline: the run as it was read, then the status of the job.
ClickStop(c) ==
  /\ job.status = "in_progress"
  /\ stops < MaxStops
  /\ stops' = stops + 1
  /\ Reads(c, IF job.run = 0 THEN "stopped" ELSE "stop", job.run, NoFrame)

StopRun(c) ==
  /\ click[c].pc = "stop"
  /\ StopsRun(click[c].run)
  /\ MovesOn(c, "stopped")
  /\ UNCHANGED <<queue, worker, job, bounds, orphaned>>

StopJob(c) ==
  /\ click[c].pc = "stopped"
  /\ job' = [job EXCEPT !.status = "error"]
  /\ IsOver(c)
  /\ UNCHANGED <<run, queue, worker, bounds, studioHistory>>

\* update_job: any status over any other.
PatchStatus(status) ==
  /\ stops < MaxStops
  /\ stops' = stops + 1
  /\ job' = [job EXCEPT !.status = status]
  /\ UNCHANGED <<run, queue, worker, click, chains, studioFaults, studioHistory>>

\* prepare_content_generation
BeingMade(x, f) ==
  x.status # "completed" /\ x.chosen = f /\ x.step["content_images"] \in {"pending", "running"}
MayRetry(x, f) ==
  x.chosen = f /\ \E k \in ContentKeys : x.step[k] = "failed"
Made(x, f) ==
  /\ x.chosen = f
  /\ \A k \in ContentKeys : x.step[k] = "done"
  /\ x.series[f] >= SeriesCount

Prepared(x, f) ==
  [x EXCEPT !.chosen = f, !.status = "running", !.prompts = NoFrame,
            !.series = IF x.chosen # f \/ x.series[f] < SeriesCount THEN Wiped(@, f) ELSE @,
            !.step = [k \in StepKeys |-> IF k \in ContentKeys THEN "pending" ELSE @[k]]]

MayPrepare(x, f) ==
  /\ f <= x.frames
  /\ ~BeingMade(x, f)
  /\ x.status = "completed" \/ MayRetry(x, f)
  /\ ~Made(x, f)

\* start_job_content_generation reads the run of the job, whatever its status, for a frame
\* the user has seen.
ClickContent(c, f) ==
  /\ job.run # 0
  /\ f <= run[job.run].frames
  /\ Reads(c, "content", job.run, f)
  /\ UNCHANGED stops

\* The run is no longer the job's, or a request to start has stopped it.
LetGo(r) == job.run # r \/ \E c \in Clicks : click[c].pc \in {"create", "adopt"} /\ click[c].run = r

PrepareContent(c) ==
  LET r == click[c].run
      f == click[c].frame
  IN
  /\ click[c].pc = "content"
  /\ MayPrepare(run[r], f)
  /\ chains < MaxChains
  /\ run' = [run EXCEPT ![r] = Prepared(@, f)]
  /\ stopped' = stopped \ {r}
  /\ Overtakes(r)
  /\ orphaned' = IF LetGo(r) THEN orphaned \cup {r} ELSE orphaned
  /\ IsOver(c)
  /\ \/ Enqueued(FirstOf("content_structure", r)) /\ UNCHANGED studioFaults
     \/ UNCHANGED <<queue, chains>> /\ StudioFault    \* enqueueing fails
  /\ UNCHANGED <<worker, job, stops>>

ContentRefused(c) ==
  /\ click[c].pc = "content"
  /\ ~MayPrepare(run[click[c].run], click[c].frame)
  /\ IsOver(c)
  /\ UNCHANGED <<run, queue, worker, job, bounds, studioHistory>>

-----------------------------------------------------------------------------
StudioNext ==
  \/ \E w \in Workers :
       \/ \E m \in queue : TaskIsTaken(w, m)
       \/ Succeeds(w) \/ OpenAIFails(w) \/ AnswerIsLost(w) \/ StudioWorkerDies(w)
  \/ \E m \in queue : Repeated(m)
  \/ \E c \in Clicks :
       \/ ClickStart(c) \/ DropOldRun(c) \/ CreateRun(c) \/ AdoptRun(c)
       \/ ClickStop(c) \/ StopRun(c) \/ StopJob(c)
       \/ \E f \in FrameIds : ClickContent(c, f)
       \/ PrepareContent(c) \/ ContentRefused(c) \/ RequestFails(c)
  \/ \E status \in JobStatuses : PatchStatus(status)

StudioSpec == StudioInit /\ [][StudioNext]_studioVars

-----------------------------------------------------------------------------
(***************************************************************************)
(* A run that is shown as completed has every main frame, however many     *)
(* chains of it were stopped, repeated or failed half way.                 *)
(***************************************************************************)
CompletedHasFrames ==
  \A r \in Runs : run[r].status = "completed" => run[r].frames >= MainCount

(***************************************************************************)
(* When the series of the chosen frame is done it is whole and the only    *)
(* one, whatever was made for other frames before and whatever failed;     *)
(* unless tasks of the run were repeated or outlived a stop.               *)
(***************************************************************************)
SeriesIsWhole ==
  \A r \in Runs \ overtaken :
    run[r].step["content_images"] = "done" =>
      \A f \in FrameIds : run[r].series[f] = IF f = run[r].chosen THEN SeriesCount ELSE 0

(***************************************************************************)
(* A run at work is that of the job, or the one a request to start has     *)
(* made and is about to put there: a retry stops the old run.  The others  *)
(* were let go as they were: their start was lost on the way, the job left *)
(* them for another while a second request or a PATCH of its status hid    *)
(* them, or a request for content read before that took them up again.     *)
(***************************************************************************)
OneLiveRun ==
  \A r \in Runs \ orphaned :
    run[r].status \in {"created", "running"} =>
      job.run = r \/ \E c \in Clicks : click[c].pc = "adopt" /\ click[c].made = r

(***************************************************************************)
(* The docstring of stop_run: "Stop a run so queued Celery tasks cannot    *)
(* continue token-spending steps".  Not so when the first task of the      *)
(* chain has not run yet: it adds the steps to the cancelled run.          *)
(***************************************************************************)
StoppedRunSpendsNothing ==
  [][\A w \in Workers :
       worker[w] = Free /\ worker'[w] # Free => worker'[w].msg.run \notin stopped]_studioVars

(***************************************************************************)
(* What the rows of a job and its runs keep true under a chain of tasks    *)
(* that are repeated, retried, stopped or die.                             *)
(***************************************************************************)
StudioInv == StudioTypeOK /\ CompletedHasFrames /\ SeriesIsWhole /\ OneLiveRun
=============================================================================
