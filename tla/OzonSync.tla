-------------------------------- MODULE OzonSync --------------------------------
(******************************************************************************)
(* The synchronisation runs of one Ozon owner.  A run is inserted "queued" by *)
(* a request, by the daily job or by a worker that has finished a backfill    *)
(* chunk, its id is published to Celery, and a worker that gets the owner's   *)
(* advisory lock loads its days one by one.  Dates are days of the current    *)
(* year; a run that nobody refers to any more is an unused one again.         *)
(******************************************************************************)
EXTENDS Integers, FiniteSets

CONSTANTS
  Run,          \* ids of runs
  Workers,      \* Celery workers
  MaxDay,       \* the last yesterday that is looked at
  Chunk,        \* MAX_SYNC_DAYS
  Recent,       \* DAILY_REFRESH_DAYS
  Manual,       \* what owners ask for with the button
  MaxRequests,  \* how often they do, saving a connection included
  MaxFaults     \* crashes, refused calls, lost or repeated messages

Api == "api"
Beat == "beat"
Process == Workers \cup {Api, Beat}
Nobody == "nobody"
NoRun == "none"

ASSUME OzonAssumption ==
  /\ MaxDay \in Nat \ {0} /\ Chunk \in Nat \ {0} /\ Recent \in Nat \ {0}
  /\ MaxRequests \in Nat /\ MaxFaults \in Nat
  /\ NoRun \notin Run /\ Nobody \notin Workers
  /\ Api \notin Workers /\ Beat \notin Workers

Day == 1..MaxDay
Request(trigger, from, to) == [trigger |-> trigger, from |-> from, to |-> to]
Runs == [trigger : {"manual", "backfill", "daily"}, from : Day, to : Day]
ASSUME ManualAssumption == Manual \subseteq {r \in Runs : r.trigger = "manual" /\ r.from <= r.to}

Unused == Request("manual", 1, 1)
Active == {"queued", "running"}       \* ACTIVE_RUN_STATUSES
Finished == {"complete", "partial"}   \* FINISHED_RUN_STATUSES

(* What a process is about to call: nothing, next_backfill_run,               *)
(* save_connection, set_product_cost, or enqueue_sync with a run's dates.     *)
Nothing == Request("nothing", 1, 1)
Resume == Request("next_backfill_run", 1, 1)
Save == Request("save_connection", 1, 1)
SetCost == Request("set_product_cost", 1, 1)
NotSaved == -1

VARIABLES
  through, planned,  \* yesterday; the daily job has run today
  conn,              \* ozon_connections.status, "missing" without a row
  status, request,   \* per run: its status, its trigger and dates
  stale,             \* active runs without an update for two hours
  latest,            \* the run _latest_backfill_run finds
  unsent, inbox,     \* runs to be published; run ids in the broker
  unsure,            \* runs whose publish reached the broker and will raise
  lock,              \* the owner's session advisory lock
  want,              \* per process: the call it makes
  pc, mine, day,     \* per worker: its task, its run, the next day
  good, bad,         \* per worker: some day was saved; some day failed
  seen,              \* per worker: the product costs read for the day
  cost, saved,       \* the product costs; per day: the costs in its snapshot
  attempt,           \* per day: last_attempt_status
  done,              \* history: last_completed_date
  requests, faults

calendar == <<through, planned>>
runs == <<status, request, stale, latest>>
broker == <<unsent, inbox, unsure>>
task == <<pc, mine, day, good, bad, seen>>
days == <<cost, saved, attempt>>
bounds == <<requests, faults>>
vars == <<calendar, conn, runs, broker, lock, want, task, days, done, bounds>>

Fault == faults < MaxFaults /\ faults' = faults + 1
Ask(call) ==
  /\ requests < MaxRequests /\ requests' = requests + 1
  /\ want[Api] = Nothing /\ want' = [want EXCEPT ![Api] = call]
Min2(a, b) == IF a <= b THEN a ELSE b
Max2(a, b) == IF a >= b THEN a ELSE b

--------------------------------------------------------------------------------
(* next_backfill_run up to its call of enqueue_sync.  A mistake: a failed     *)
(* chunk is passed like any other.  Another: a chunk may run past yesterday.  *)
FirstChunk == Request("backfill", 1, Min2(Chunk, through))
ChunkAfter(d) == Request("backfill", d + 1, Min2(d + Chunk, through))
ChunkSkipsFailed ==
  IF latest = NoRun THEN FirstChunk
  ELSE IF status[latest] \in Active \/ request[latest].to >= through THEN Nothing
  ELSE ChunkAfter(request[latest].to)
ChunkPastYesterday ==
  IF latest = NoRun THEN FirstChunk
  ELSE IF status[latest] \in Active THEN Nothing
  ELSE IF status[latest] = "failed" THEN request[latest]
  ELSE Request("backfill", request[latest].to + 1, request[latest].to + Chunk)
NextChunk ==
  IF latest = NoRun THEN FirstChunk
  ELSE IF status[latest] \in Active THEN Nothing
  ELSE IF status[latest] = "failed" THEN request[latest]
  ELSE IF request[latest].to >= through THEN Nothing
  ELSE ChunkAfter(request[latest].to)
RecentDays == Request("daily", Max2(1, through - Recent + 1), through)

(* Without a chunk, or when enqueue_sync refuses it, the daily job asks for   *)
(* the recent days instead.                                                   *)
FallbackWithoutChunk(p, asked) ==
  IF p = Beat /\ asked = Resume /\ NextChunk # Nothing THEN RecentDays ELSE Nothing
Fallback(p, asked) ==
  IF p = Beat /\ asked.trigger # "daily" THEN RecentDays ELSE Nothing

Propose(p) ==
  /\ want[p] = Resume
  /\ want' = [want EXCEPT ![p] = IF NextChunk = Nothing THEN Fallback(p, Resume) ELSE NextChunk]
  /\ UNCHANGED <<calendar, conn, runs, broker, lock, task, days, done, bounds>>

(* enqueue_sync, save_connection and set_product_cost hold the owner's lock   *)
(* from their first read to their last write, and fail at once without it.    *)
ActiveRuns == {r \in Run : status[r] \in Active}
NeedsLock(p) == want[p] \notin {Nothing, Resume}

GetLock(p) ==
  /\ NeedsLock(p)
  /\ lock = Nobody /\ lock' = p
  /\ UNCHANGED <<calendar, conn, runs, broker, want, task, days, done, bounds>>

Returns(p, next) ==
  /\ want' = [want EXCEPT ![p] = next]
  /\ lock' = IF lock = p THEN Nobody ELSE lock

(* The lock is taken, there is no connection or a live run is active, or, for *)
(* a connection, it is another Client-Id than the saved history's.            *)
Refuse(p) ==
  /\ NeedsLock(p)
  /\ \/ lock \notin {Nobody, p}
     \/ lock = p /\ conn = "missing" /\ want[p] \in Runs
     \/ lock = p /\ ~(ActiveRuns \subseteq stale)
     \/ lock = p /\ want[p] = SetCost /\ ActiveRuns # {}
     \/ lock = p /\ want[p] = Save /\ ActiveRuns = {} /\ conn # "missing"
  /\ Returns(p, Fallback(p, want[p]))
  /\ UNCHANGED <<calendar, conn, runs, broker, task, days, done, bounds>>

(* _mark_stale_run_failed.                                                    *)
RetireStale(p) ==
  /\ lock = p /\ NeedsLock(p) /\ want[p] # SetCost
  /\ ActiveRuns # {} /\ ActiveRuns \subseteq stale
  /\ status' = [r \in Run |-> IF r \in ActiveRuns THEN "failed" ELSE status[r]]
  /\ stale' = {}
  /\ UNCHANGED <<calendar, conn, request, latest, broker, lock, want, task, days, done, bounds>>

Fresh(r) == /\ status[r] \notin Active /\ r # latest
            /\ r \notin unsent \cup inbox \cup unsure \cup {mine[w] : w \in Workers}
Insert(p, r) ==
  /\ NeedsLock(p) /\ want[p] \in Runs /\ Fresh(r)
  /\ status' = [status EXCEPT ![r] = "queued"]
  /\ request' = [request EXCEPT ![r] = want[p]]
  /\ latest' = IF want[p].trigger = "backfill"
                    /\ (latest = NoRun \/ want[p].from >= request[latest].from)
                 THEN r ELSE latest
  /\ unsent' = unsent \cup {r}
  /\ Returns(p, Nothing)
  /\ UNCHANGED <<calendar, conn, stale, inbox, unsure, task, days, done, bounds>>

(* The insert of enqueue_sync.  A mistake: it looks at the runs alone.        *)
EnqueueUnlocked(p, r) == conn # "missing" /\ ActiveRuns = {} /\ Insert(p, r)
Enqueue(p, r) == lock = p /\ conn # "missing" /\ ActiveRuns = {} /\ Insert(p, r)

(* save_connection ends; put_ozon_connection goes on to the backfill.         *)
ConnectionSaved(p) ==
  /\ want[p] = Save
  /\ lock = p /\ ActiveRuns = {}
  /\ conn' = "configured"
  /\ Returns(p, Resume)
  /\ UNCHANGED <<calendar, runs, broker, task, days, done, bounds>>

(* set_product_cost changes the costs and every saved day in one commit.  A   *)
(* mistake: it looks at the runs and not at the lock.                         *)
CostSavedUnlocked(p) ==
  /\ want[p] = SetCost
  /\ lock = Nobody \/ ActiveRuns = {}
  /\ cost' = 1 - cost
  /\ saved' = [d \in Day |-> IF saved[d] = NotSaved THEN NotSaved ELSE 1 - cost]
  /\ Returns(p, Nothing)
  /\ UNCHANGED <<calendar, conn, runs, broker, task, attempt, done, bounds>>
CostSaved(p) ==
  /\ want[p] = SetCost
  /\ lock = p /\ ActiveRuns = {}
  /\ cost' = 1 - cost
  /\ saved' = [d \in Day |-> IF saved[d] = NotSaved THEN NotSaved ELSE 1 - cost]
  /\ Returns(p, Nothing)
  /\ UNCHANGED <<calendar, conn, runs, broker, task, attempt, done, bounds>>

--------------------------------------------------------------------------------
(* put_ozon_connection, post_ozon_sync, put_product_cost.                     *)
Owner ==
  /\ Ask(Save) \/ Ask(SetCost) \/ \E req \in Manual : Ask(req)
  /\ UNCHANGED <<calendar, conn, runs, broker, lock, task, days, done, faults>>

(* ozon_daily_refresh plans for connections that are ready.                   *)
DailyRefresh ==
  /\ ~planned /\ planned' = TRUE
  /\ conn = "ready" /\ want[Beat] = Nothing
  /\ want' = [want EXCEPT ![Beat] = Resume]
  /\ UNCHANGED <<through, conn, runs, broker, lock, task, days, done, bounds>>

(* _dispatch, _dispatch_sync_run: a publish that raises, whether or not the   *)
(* message reached the broker, ends the run, whatever became of it.           *)
Publish(r) ==
  /\ r \in unsent /\ unsent' = unsent \ {r}
  /\ inbox' = inbox \cup {r}
  /\ UNCHANGED <<calendar, conn, runs, unsure, lock, want, task, days, done, bounds>>
PublishReaches(r) ==
  /\ r \in unsent /\ unsent' = unsent \ {r}
  /\ Fault
  /\ inbox' = inbox \cup {r} /\ unsure' = unsure \cup {r}
  /\ UNCHANGED <<calendar, conn, runs, lock, want, task, days, done, requests>>
PublishFails(r) ==
  /\ \/ r \in unsent /\ Fault
     \/ r \in unsure /\ UNCHANGED faults
  /\ unsent' = unsent \ {r} /\ unsure' = unsure \ {r}
  /\ status' = [status EXCEPT ![r] = "failed"]
  /\ stale' = stale \ {r}
  /\ UNCHANGED <<calendar, conn, request, latest, inbox, lock, want, task, days, done, requests>>
DispatcherDies(r) ==
  /\ r \in unsent /\ unsent' = unsent \ {r}
  /\ Fault
  /\ UNCHANGED <<calendar, conn, runs, inbox, unsure, lock, want, task, days, done, requests>>
LoseMessage(r) ==
  /\ r \in inbox /\ inbox' = inbox \ {r}
  /\ Fault
  /\ UNCHANGED <<calendar, conn, runs, unsent, unsure, lock, want, task, days, done, requests>>

--------------------------------------------------------------------------------
(* run_sync_run in a worker.                                                  *)
Goto(w, from, to) == pc[w] = from /\ pc' = [pc EXCEPT ![w] = to]
InRun(w) == pc[w] \in {"begin", "day", "fetching", "saving"}

Receive(w, r, again) ==
  /\ r \in inbox /\ want[w] = Nothing
  /\ IF again THEN Fault /\ UNCHANGED inbox ELSE inbox' = inbox \ {r} /\ UNCHANGED faults
  /\ Goto(w, "idle", IF status[r] \in Active THEN "trylock" ELSE "chain")
  /\ mine' = [mine EXCEPT ![w] = r]
  /\ UNCHANGED <<calendar, conn, runs, unsent, unsure, want, lock, day, good, bad, seen,
                 days, done, requests>>

(* The run is read again under the lock; without the lock it is left alone.   *)
(* A mistake: what was read before the lock is used.                          *)
TryLockReadsOnce(w) ==
  /\ Goto(w, "trylock", IF lock = Nobody THEN "begin" ELSE "chain")
  /\ lock' = IF lock = Nobody THEN w ELSE lock
  /\ UNCHANGED <<calendar, conn, runs, broker, want, mine, day, good, bad, seen, days, done, bounds>>
TryLock(w) ==
  LET mayRun == lock = Nobody /\ status[mine[w]] \in Active
  IN /\ Goto(w, "trylock", IF mayRun THEN "begin" ELSE "chain")
     /\ lock' = IF mayRun THEN w ELSE lock
     /\ UNCHANGED <<calendar, conn, runs, broker, want, mine, day, good, bad, seen, days, done, bounds>>

(* A run taken up again is "running" already: nothing is written, updated_at  *)
(* keeps its age.                                                             *)
Begin(w) ==
  /\ Goto(w, "begin", "day")
  /\ stale' = IF status[mine[w]] = "running" THEN stale ELSE stale \ {mine[w]}
  /\ status' = [status EXCEPT ![mine[w]] = "running"]
  /\ conn' = "syncing"
  /\ day' = [day EXCEPT ![w] = request[mine[w]].from]
  /\ UNCHANGED <<calendar, request, latest, broker, want, lock, mine, good, bad, seen,
                 days, done, bounds>>

(* A day is marked, fetched, joined with the product costs and saved.         *)
DayBegins(w) ==
  /\ Goto(w, "day", "fetching")
  /\ day[w] <= request[mine[w]].to
  /\ attempt' = [attempt EXCEPT ![day[w]] = "running"]
  /\ UNCHANGED <<calendar, conn, runs, broker, want, lock, mine, day, good, bad, seen,
                 cost, saved, done, bounds>>
CostsRead(w) ==
  /\ Goto(w, "fetching", "saving")
  /\ seen' = [seen EXCEPT ![w] = cost]
  /\ UNCHANGED <<calendar, conn, runs, broker, want, lock, mine, day, good, bad, days, done, bounds>>
DayEnds(w) ==
  /\ pc' = [pc EXCEPT ![w] = "day"]
  /\ day' = [day EXCEPT ![w] = @ + 1]
  /\ seen' = [seen EXCEPT ![w] = 0]
  /\ stale' = stale \ {mine[w]}
  /\ UNCHANGED <<calendar, conn, status, request, latest, broker, want, lock, mine, cost, done, requests>>
DayLoads(w) ==
  /\ pc[w] = "saving" /\ DayEnds(w)
  /\ saved' = [saved EXCEPT ![day[w]] = seen[w]]
  /\ attempt' = [attempt EXCEPT ![day[w]] = "succeeded"]
  /\ good' = [good EXCEPT ![w] = TRUE]
  /\ UNCHANGED <<bad, faults>>
DayFails(w) ==
  /\ pc[w] \in {"fetching", "saving"} /\ DayEnds(w) /\ Fault
  /\ attempt' = [attempt EXCEPT ![day[w]] = "failed"]
  /\ bad' = [bad EXCEPT ![w] = TRUE]
  /\ UNCHANGED <<saved, good>>

Leave(w) ==
  /\ lock' = IF lock = w THEN Nobody ELSE lock
  /\ day' = [day EXCEPT ![w] = 1] /\ seen' = [seen EXCEPT ![w] = 0]
  /\ good' = [good EXCEPT ![w] = FALSE] /\ bad' = [bad EXCEPT ![w] = FALSE]

Outcome(w) == IF ~bad[w] THEN "complete" ELSE IF good[w] THEN "partial" ELSE "failed"
FinishRun(w) ==
  /\ Goto(w, "day", "chain")
  /\ day[w] > request[mine[w]].to
  /\ status' = [status EXCEPT ![mine[w]] = Outcome(w)]
  /\ stale' = stale \ {mine[w]}
  /\ conn' = IF Outcome(w) = "failed" THEN "error" ELSE "ready"
  /\ done' = IF Outcome(w) # "failed" /\ request[mine[w]].trigger = "backfill"
               THEN Max2(done, request[mine[w]].to) ELSE done
  /\ Leave(w)
  /\ UNCHANGED <<calendar, request, latest, broker, want, mine, days, bounds>>

(* Ozon refuses the types, the connection cannot be read, a query fails.      *)
RunBreaks(w) ==
  /\ InRun(w) /\ Fault
  /\ pc' = [pc EXCEPT ![w] = "chain"]
  /\ status' = IF status[mine[w]] \in Active THEN [status EXCEPT ![mine[w]] = "failed"] ELSE status
  /\ stale' = stale \ {mine[w]}
  /\ conn' = "error"
  /\ Leave(w)
  /\ UNCHANGED <<calendar, request, latest, broker, want, mine, days, done, requests>>

(* chain_backfill_after_run, after every delivery.                            *)
Chain(w) ==
  /\ Goto(w, "chain", "idle")
  /\ want' = [want EXCEPT ![w] =
       IF request[mine[w]].trigger = "backfill" /\ status[mine[w]] \in Finished
         THEN Resume ELSE Nothing]
  /\ mine' = [mine EXCEPT ![w] = NoRun]
  /\ UNCHANGED <<calendar, conn, runs, broker, lock, day, good, bad, seen, days, done, bounds>>

(* A process dies and with it its database session, which frees the lock.     *)
WorkerCrashes(w) ==
  /\ pc[w] # "idle" \/ want[w] # Nothing
  /\ Fault
  /\ pc' = [pc EXCEPT ![w] = "idle"]
  /\ mine' = [mine EXCEPT ![w] = NoRun]
  /\ want' = [want EXCEPT ![w] = Nothing]
  /\ Leave(w)
  /\ UNCHANGED <<calendar, conn, runs, broker, days, done, requests>>
CallerCrashes(p) ==
  /\ p \in {Api, Beat} /\ want[p] # Nothing
  /\ Fault
  /\ Returns(p, Nothing)
  /\ UNCHANGED <<calendar, conn, runs, broker, task, days, done, requests>>

(* Two hours without an update; over a run that is under way, they count as a *)
(* fault.                                                                     *)
UnderWay == unsent \cup inbox \cup {mine[w] : w \in Workers}
TwoHoursPass ==
  /\ ~(ActiveRuns \subseteq stale) /\ stale' = ActiveRuns
  /\ IF ActiveRuns \subseteq UnderWay THEN Fault ELSE UNCHANGED faults
  /\ UNCHANGED <<calendar, conn, status, request, latest, broker, lock, want, task, days, done, requests>>

(* A call does not last past midnight; a run that does counts as a fault.     *)
(* The calendar stops at MaxDay, where mornings go on.                        *)
NextDay ==
  /\ planned \/ through < MaxDay
  /\ \A p \in Process : want[p] = Nothing
  /\ through' = Min2(through + 1, MaxDay)
  /\ planned' = FALSE
  /\ IF UnderWay \cap Run = {} THEN UNCHANGED faults ELSE Fault
  /\ UNCHANGED <<conn, runs, broker, lock, want, task, cost, saved, attempt, done, requests>>

Init ==
  /\ through = 1 /\ planned = FALSE /\ conn = "missing"
  /\ status = [r \in Run |-> "none"] /\ request = [r \in Run |-> Unused]
  /\ stale = {} /\ latest = NoRun
  /\ unsent = {} /\ inbox = {} /\ unsure = {} /\ lock = Nobody
  /\ want = [p \in Process |-> Nothing]
  /\ pc = [w \in Workers |-> "idle"] /\ mine = [w \in Workers |-> NoRun]
  /\ day = [w \in Workers |-> 1] /\ seen = [w \in Workers |-> 0]
  /\ good = [w \in Workers |-> FALSE] /\ bad = [w \in Workers |-> FALSE]
  /\ cost = 0 /\ saved = [d \in Day |-> NotSaved] /\ attempt = [d \in Day |-> "none"]
  /\ done = 0 /\ requests = 0 /\ faults = 0

Calls(p) == \/ Propose(p) \/ GetLock(p) \/ Refuse(p) \/ RetireStale(p)
            \/ ConnectionSaved(p) \/ CostSaved(p) \/ \E r \in Run : Enqueue(p, r)
Works(w) == \/ TryLock(w) \/ Begin(w) \/ DayBegins(w) \/ CostsRead(w)
            \/ DayLoads(w) \/ FinishRun(w) \/ Chain(w)
Breaks(w) == DayFails(w) \/ RunBreaks(w) \/ WorkerCrashes(w)
Broker(r) == \/ Publish(r) \/ PublishReaches(r) \/ PublishFails(r)
             \/ DispatcherDies(r) \/ LoseMessage(r)

Next ==
  \/ Owner \/ DailyRefresh \/ TwoHoursPass \/ NextDay
  \/ \E p \in Process : Calls(p) \/ CallerCrashes(p)
  \/ \E r \in Run : Broker(r)
  \/ \E w \in Workers : \/ Works(w) \/ Breaks(w)
                        \/ \E r \in Run, again \in BOOLEAN : Receive(w, r, again)
Spec == Init /\ [][Next]_vars

(* Processes that live go on, the broker delivers what it does not lose, each *)
(* morning comes and beat fires on it.                                        *)
FairSpec ==
  /\ Spec
  /\ \A p \in Process : WF_vars(Calls(p))
  /\ \A r \in Run : WF_vars(Publish(r))
  /\ \A w \in Workers : WF_vars(Works(w)) /\ WF_vars(\E r \in Run : Receive(w, r, FALSE))
  /\ WF_vars(DailyRefresh) /\ WF_vars(NextDay) /\ WF_vars(TwoHoursPass)
--------------------------------------------------------------------------------
CallType ==
  /\ want \in [Process -> Runs \cup {Nothing, Resume, Save, SetCost}]
  /\ lock \in Process \cup {Nobody}
RunsType ==
  /\ status \in [Run -> {"none"} \cup Active \cup Finished \cup {"failed"}]
  /\ request \in [Run -> Runs]
  /\ stale \subseteq ActiveRuns /\ latest \in Run \cup {NoRun}
  /\ unsent \subseteq Run /\ inbox \subseteq Run /\ unsure \subseteq Run
TaskType ==
  /\ pc \in [Workers -> {"idle", "trylock", "begin", "day", "fetching", "saving", "chain"}]
  /\ mine \in [Workers -> Run \cup {NoRun}] /\ day \in [Workers -> 1..MaxDay + 1]
  /\ good \in [Workers -> BOOLEAN] /\ bad \in [Workers -> BOOLEAN] /\ seen \in [Workers -> 0..1]
DaysType ==
  /\ through \in Day /\ planned \in BOOLEAN
  /\ conn \in {"missing", "configured", "syncing", "ready", "error"}
  /\ cost \in 0..1 /\ saved \in [Day -> {NotSaved, 0, 1}]
  /\ attempt \in [Day -> {"none", "running", "succeeded", "failed"}]
  /\ done \in 0..MaxDay /\ requests \in 0..MaxRequests /\ faults \in 0..MaxFaults
TypeOK == CallType /\ RunsType /\ TaskType /\ DaysType

(* An owner has one active run, and while a worker is inside a run no other   *)
(* one is active: a retired or repeated message never works beside its        *)
(* replacement.                                                               *)
OneActiveRun ==
  /\ \A r, s \in ActiveRuns : r = s
  /\ \A w \in Workers : InRun(w) => ActiveRuns \subseteq {mine[w]}

(* A run that was carried out is not carried out again, however often its     *)
(* message is delivered; its id becomes active only as a newly inserted run.  *)
FinishedRunsStayFinished ==
  [][\A r \in Run : status[r] \in Finished /\ status'[r] \in Active =>
       status'[r] = "queued" /\ r \in unsent']_vars

(* The backfill leaves no day behind: what the owner is told is loaded has    *)
(* been asked for day by day, each one is saved or carries its failure.       *)
BackfillLeavesNoGap ==
  \A d \in 1..done : saved[d] # NotSaved \/ attempt[d] \in {"running", "failed"}

(* Every saved day was computed with the product costs that are saved now: a  *)
(* change of the costs never falls between a worker's read and its write.     *)
SavedDaysUseCurrentCosts == \A d \in Day : saved[d] \in {NotSaved, cost}

(* While the connection keeps being ready and deliveries do not collide with  *)
(* a request for ever, the backfill reaches yesterday: lost messages, retired *)
(* runs and failed chunks are made up for by the daily job.                   *)
IsAbandoned == ~(ActiveRuns \subseteq UnderWay)
ReadyBackfillEnds ==
  []<>(conn = "ready") =>
    \/ []<><<~IsAbandoned /\ IsAbandoned'>>_vars
    \/ []<>(done >= through)

(* "the lock owner remains responsible for it": without crashes and lost      *)
(* messages an active run is on its way to a worker or in one.                *)
ActiveRunsAreUnderWay == faults = 0 => ActiveRuns \subseteq UnderWay
================================================================================
