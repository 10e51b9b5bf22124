----------------------------- MODULE WbOrchestrator -----------------------------
(******************************************************************************)
(* The durable per-seller scheduler of Wildberries work.  One row of          *)
(* wb_orchestrator_state holds what a seller asked for, when the next step is *)
(* due, and the token and lease of the wake-up that was handed to the broker. *)
(* Kicks merge work into the row, the beat dispatcher turns a due row into a  *)
(* token message, a worker turns a valid message into one step against WB.    *)
(* The row lock makes each database transaction one action; the session       *)
(* advisory lock keeps a worker's tick from the other workers' ticks.  Rows   *)
(* of different sellers share nothing, so there is one row here.              *)
(******************************************************************************)
EXTENDS WbIntents, FiniteSets

CONSTANTS
  Kicks,        \* the requests that are made, of those the callers can send
  Workers,      \* Celery worker processes
  Tokens,       \* dispatch tokens; a uuid is a token nothing refers to any more
  StepDelay,    \* ORCH_STEP_DELAY_SEC
  Lease,        \* DISPATCH_LEASE_SECONDS
  RetryDelays,  \* the waits a retryable WB answer may ask for
  MaxAge,       \* a step's age is counted up to here
  MaxFaults     \* crashes, lost and repeated messages, failed publishes

Legacy == "legacy"        \* a tick message from before tokens existed
NoToken == "none"
NoWorker == "nobody"

ASSUME KicksAssumption == Kicks \subseteq Patches
ASSUME TimeAssumption ==
  /\ StepDelay \in Nat \ {0} /\ Lease \in Nat \ {0}
  /\ RetryDelays \subseteq Nat \ {0}
  /\ MaxAge \in Nat /\ \A d \in RetryDelays : d <= MaxAge
  /\ MaxFaults \in Nat
ASSUME NamesAssumption ==
  /\ Legacy \notin Tokens /\ NoToken \notin Tokens /\ NoWorker \notin Workers

VARIABLES
  intents, blocked, status, cooldown,   \* the row: work and what the UI shows
  next, token, lease,                   \* the row: next_tick_at, dispatch_token, dispatch_lease_until
  claimed,                              \* tokens a dispatcher holds and has not published yet
  queue,                                \* wake-ups in the broker
  lock,                                 \* the session advisory lock
  pc, mine, snap, step, age, err,       \* per worker: its tick
  faults

row == <<intents, blocked, status, cooldown, next, token, lease>>
broker == <<claimed, queue>>
ticks == <<lock, pc, mine, snap, step, age, err>>
vars == <<row, broker, ticks, faults>>

Status == {"idle", "scheduled", "cooldown", "running", "error"}
Step == Key \cup {"blocked_wait", "nothing"}
NoSnap == [intents |-> NoIntents, blocked |-> NotBlocked]

Idle(w) == pc[w] = "idle"
Working(w) == pc[w] \in {"began", "calling", "blocked_set", "finally"}

--------------------------------------------------------------------------------
(* schedule_state(st, now, delay) on a row that will hold the given intents.  *)
ScheduleState(in, delay) ==
  LET due == DueForState(in, blocked, cooldown, delay)
  IN /\ next' = due
     /\ status' = IF due = Null THEN "idle"
                  ELSE IF due > delay THEN "cooldown" ELSE "scheduled"
     /\ cooldown' = IF due > delay THEN due ELSE Null

ClearToken == token' = NoToken /\ lease' = Null

(* A mistake: a kick brings every plan forward, not only a cooldown.          *)
KickAlwaysReplans(due) == due = Null \/ next = Null \/ due < next
KickReplans(due) ==
  due = Null \/ next = Null \/ (status = "cooldown" /\ due < next)

(* wb_orchestrator_kick: merge the request; plan the row unless a plan stands *)
(* that the request must not disturb.                                         *)
Kick(patch) ==
  LET in == Merge(intents, patch)
      due == DueForState(in, blocked, cooldown, 0)
  IN /\ intents' = in
     /\ IF KickReplans(due)
          THEN ScheduleState(in, 0)
          ELSE UNCHANGED <<next, status, cooldown>>
     /\ UNCHANGED <<blocked, token, lease, broker, ticks, faults>>

(* dashboard._clear_funnel_tail_intent: the rolling window has closed.        *)
ClearFunnelTailIntent ==
  LET in == [intents EXCEPT !["funnel_tail"] = Absent]
  IN /\ intents["funnel_tail"] # Absent
     /\ intents' = in
     /\ status' = IF status \in {"scheduled", "cooldown"} /\ in = NoIntents
                    THEN "idle" ELSE status
     /\ UNCHANGED <<blocked, cooldown, next, token, lease, broker, ticks, faults>>

--------------------------------------------------------------------------------
(* Mistakes: a lease that ran out is never looked at; or only with a due time.*)
LeaseNeverRunsOut == lease = Null /\ next = 0
LeaseNeedsDueTime == lease \in {Null, 0} /\ next = 0
(* claim_due: the rows that are due or whose lease ran out.                   *)
Claimable == lease \in {Null, 0} /\ (next = 0 \/ lease = 0)
Due == DueForState(intents, blocked, cooldown, 0)
Fresh(t) == t \notin {token} \cup queue \cup claimed \cup {mine[w] : w \in Workers}

DispatchClaims(t) ==
  /\ Claimable /\ Due = 0
  /\ Fresh(t)
  /\ token' = t /\ lease' = Lease
  /\ claimed' = claimed \cup {t}
  /\ UNCHANGED <<intents, blocked, status, cooldown, next, queue, ticks, faults>>

DispatchDefers ==
  /\ Claimable /\ Due # 0
  /\ ScheduleState(intents, 0)
  /\ ClearToken
  /\ UNCHANGED <<intents, blocked, broker, ticks, faults>>

Publish(t) ==
  /\ t \in claimed
  /\ claimed' = claimed \ {t}
  /\ queue' = queue \cup {t}
  /\ UNCHANGED <<row, ticks, faults>>

(* Mistakes: the token goes but no due time is put in its place; or its lease *)
(* stays.                                                                     *)
ReleaseWithoutPlan(t) ==
  IF token = t THEN ClearToken /\ UNCHANGED <<next, status, cooldown>>
               ELSE UNCHANGED <<next, status, cooldown, token, lease>>
ReleaseFailedPublish(t) ==
  IF token = t
    THEN /\ ClearToken
         /\ IF next = Null THEN ScheduleState(intents, 0)
                           ELSE UNCHANGED <<next, status, cooldown>>
    ELSE UNCHANGED <<next, status, cooldown, token, lease>>

(* apply_async raised (the message may have reached the broker all the same): *)
(* release_failed_publish.                                                    *)
PublishFails(t, reached) ==
  /\ t \in claimed /\ faults < MaxFaults
  /\ faults' = faults + 1
  /\ claimed' = claimed \ {t}
  /\ queue' = IF reached THEN queue \cup {t} ELSE queue
  /\ ReleaseFailedPublish(t)
  /\ UNCHANGED <<intents, blocked, ticks>>

DispatcherCrashes(t) ==
  /\ t \in claimed /\ faults < MaxFaults
  /\ faults' = faults + 1
  /\ claimed' = claimed \ {t}
  /\ UNCHANGED <<row, queue, ticks>>

LoseMessage(m) ==
  /\ m \in queue /\ faults < MaxFaults
  /\ faults' = faults + 1
  /\ queue' = queue \ {m}
  /\ UNCHANGED <<row, claimed, ticks>>

--------------------------------------------------------------------------------
(* The life of a tick in a worker.                                            *)
Goto(w, from, to) == pc[w] = from /\ pc' = [pc EXCEPT ![w] = to]

(* A mistake: the tick does not wait for the advisory lock.                   *)
LockNotTried == TRUE
LockIsFree == lock = NoWorker

(* Taking a message: the advisory lock is tried first, and a message that     *)
(* finds it held is dropped ("already_running").                              *)
Take(m, again) ==
  /\ m \in queue
  /\ IF again THEN /\ faults < MaxFaults /\ faults' = faults + 1 /\ queue' = queue
              ELSE queue' = queue \ {m} /\ faults' = faults
TickAcquires(w, m, again) ==
  /\ Take(m, again)
  /\ LockIsFree
  /\ Goto(w, "idle", "locked")
  /\ lock' = w
  /\ mine' = [mine EXCEPT ![w] = m]
  /\ UNCHANGED <<row, claimed, snap, step, age, err>>
TickAlreadyRunning(w, m, again) ==
  /\ Take(m, again)
  /\ Idle(w) /\ ~LockIsFree
  /\ UNCHANGED <<row, claimed, ticks>>

TickLegacy(w) ==
  /\ mine[w] = Legacy
  /\ Goto(w, "locked", "unlock")
  /\ IF next = Null /\ token = NoToken /\ status # "error"
       THEN ScheduleState(intents, 0) ELSE UNCHANGED <<next, status, cooldown>>
  /\ UNCHANGED <<intents, blocked, token, lease, broker, lock, mine, snap, step, age, err, faults>>

TickStale(w) ==
  /\ mine[w] \notin {Legacy, token}
  /\ Goto(w, "locked", "unlock")
  /\ UNCHANGED <<row, broker, lock, mine, snap, step, age, err, faults>>

(* What a tick writes back when it came early.                                *)
RescheduleEarly ==
  LET due == DueForState(intents, blocked, cooldown, 0)
  IN /\ next' = IF due # Null /\ next # Null THEN Max2(due, next) ELSE due
     /\ status' = IF due = Null THEN "idle" ELSE IF due > 0 THEN "cooldown" ELSE "scheduled"
     /\ cooldown' = IF due > 0 THEN due ELSE Null
     /\ ClearToken

TickNotDue(w) ==
  /\ mine[w] = token
  /\ Due # 0 \/ next > 0
  /\ Goto(w, "locked", "unlock")
  /\ RescheduleEarly
  /\ UNCHANGED <<intents, blocked, broker, lock, mine, snap, step, age, err, faults>>

TickBegins(w) ==
  /\ mine[w] = token
  /\ Due = 0 /\ next <= 0
  /\ Goto(w, "locked", "began")
  /\ next' = Null
  /\ status' = "running"
  /\ age' = [age EXCEPT ![w] = 0]
  /\ UNCHANGED <<intents, blocked, cooldown, token, lease, broker, lock, mine, snap, step, err, faults>>

(* No user or no API key: nothing is called.                                  *)
StepHasNoKey(w) ==
  /\ Goto(w, "began", "finally")
  /\ err' = [err EXCEPT ![w] = TRUE]
  /\ UNCHANGED <<row, broker, lock, mine, snap, step, age, faults>>

(* _run_orchestrator_step reads the row again, after the begin was committed, *)
(* and chooses what to serve from that snapshot.                              *)
StepChooses(w) ==
  LET s == StepFor(intents, blocked)
  IN /\ Goto(w, "began", "calling")
     /\ snap' = [snap EXCEPT ![w] = [intents |-> intents, blocked |-> blocked]]
     /\ step' = [step EXCEPT ![w] = s]
     /\ UNCHANGED <<row, broker, lock, mine, age, err, faults>>

(* Nothing left to serve: the row is only labelled, outside the row lock.     *)
StepHasNothing(w) ==
  LET waits == {blocked[op] : op \in PendingOps(snap[w].intents)} \ {Null, 0}
  IN /\ step[w] \in {"blocked_wait", "nothing"}
     /\ Goto(w, "calling", "finally")
     /\ status' = IF step[w] = "blocked_wait" THEN "cooldown" ELSE "idle"
     /\ IF step[w] = "blocked_wait"
          THEN cooldown' \in {t \in waits : \A u \in waits : t <= u}
          ELSE cooldown' = Null
     /\ UNCHANGED <<intents, blocked, next, token, lease, broker, lock, mine, snap, step, age, err, faults>>

(* A mistake: the key is taken from the latest row, whatever it says by now.  *)
SaveBlindly(w, done) ==
  /\ step[w] \in Key
  /\ step[w] = "finance_range" => done
  /\ Goto(w, "calling", "finally")
  /\ intents' = IF done THEN Served(intents, step[w]) ELSE intents
  /\ status' = "idle"
  /\ cooldown' = Null
  /\ UNCHANGED <<blocked, next, token, lease, broker, lock, mine, snap, step, age, err, faults>>

(* The WB call returned and the step saves its progress on the latest row:    *)
(* `done` when the request is served, otherwise the key stays for more steps  *)
(* (a funnel day, a backfill chunk).                                          *)
StepSaves(w, done) ==
  LET k == step[w]
      remaining == IF done THEN Served(snap[w].intents, k) ELSE snap[w].intents
  IN /\ k \in Key
     /\ k = "finance_range" => done
     /\ Goto(w, "calling", "finally")
     /\ intents' = AfterConsumedStep(intents, snap[w].intents, Lane[k], remaining)
     /\ status' = "idle"
     /\ cooldown' = Null
     /\ UNCHANGED <<blocked, next, token, lease, broker, lock, mine, snap, step, age, err, faults>>

(* WB answered 429 or 5xx: only the operation that was called is blocked,     *)
(* until `d` after the time the tick took at its beginning.                   *)
StepRateLimited(w, d) ==
  /\ step[w] \in Key
  /\ Goto(w, "calling", "blocked_set")
  /\ blocked' = [blocked EXCEPT ![OpOf[step[w]]] = Max2(0, d - age[w])]
  /\ UNCHANGED <<intents, status, cooldown, next, token, lease, broker, lock, mine, snap, step, age, err, faults>>

(* A second transaction, without the row lock, labels the row.                *)
StepLabelsRateLimited(w) ==
  LET own == OpOf[step[w]]
      othersReady == \E op \in PendingOps(intents) \ {own} : snap[w].blocked[op] <= 0
  IN /\ Goto(w, "blocked_set", "finally")
     /\ status' = IF othersReady THEN "scheduled" ELSE "cooldown"
     /\ cooldown' = IF othersReady THEN Null ELSE blocked[own]
     /\ UNCHANGED <<intents, blocked, next, token, lease, broker, lock, mine, snap, step, age, err, faults>>

(* Another HTTP status is permanent; any other exception is not.              *)
StepFails(w, permanent) ==
  /\ step[w] \in Key
  /\ Goto(w, "calling", "finally")
  /\ err' = [err EXCEPT ![w] = permanent]
  /\ UNCHANGED <<row, broker, lock, mine, snap, step, age, faults>>

(* A mistake: only the tick's own token is taken away in error.               *)
EndOwnTokenOnly(w) ==
  /\ Goto(w, "finally", "unlock")
  /\ IF token = mine[w] THEN ClearToken ELSE UNCHANGED <<token, lease>>
  /\ IF err[w] /\ next = Null
       THEN status' = "error" /\ cooldown' = Null /\ next' = next
       ELSE ScheduleState(intents, StepDelay)
  /\ UNCHANGED <<intents, blocked, broker, lock, mine, snap, step, age, err, faults>>

(* The finally of wb_orchestrator_tick.                                       *)
TickEnds(w) ==
  /\ Goto(w, "finally", "unlock")
  /\ IF err[w] /\ next = Null
       THEN /\ ClearToken
            /\ status' = "error" /\ cooldown' = Null /\ next' = next
       ELSE /\ IF token = mine[w] THEN ClearToken ELSE UNCHANGED <<token, lease>>
            /\ ScheduleState(intents, StepDelay)
  /\ UNCHANGED <<intents, blocked, broker, lock, mine, snap, step, age, err, faults>>

Reset(w) ==
  /\ lock' = NoWorker
  /\ mine' = [mine EXCEPT ![w] = NoToken]
  /\ snap' = [snap EXCEPT ![w] = NoSnap]
  /\ step' = [step EXCEPT ![w] = "nothing"]
  /\ age' = [age EXCEPT ![w] = 0]
  /\ err' = [err EXCEPT ![w] = FALSE]
TickUnlocks(w) ==
  /\ Goto(w, "unlock", "idle")
  /\ Reset(w)
  /\ UNCHANGED <<row, broker, faults>>

(* The process dies: its connection closes, and with it the advisory lock.    *)
WorkerCrashes(w) ==
  /\ ~Idle(w) /\ faults < MaxFaults
  /\ faults' = faults + 1
  /\ pc' = [pc EXCEPT ![w] = "idle"]
  /\ Reset(w)
  /\ UNCHANGED <<row, broker>>

--------------------------------------------------------------------------------
(* Time passes while wake-ups wait and while WB is being called; the database *)
(* transactions take none at this scale.                                      *)
Down(t) == IF t > 0 THEN t - 1 ELSE t
TimePasses ==
  /\ \A w \in Workers : Idle(w) \/ (pc[w] = "calling" /\ step[w] \in Key)
  /\ next' = Down(next) /\ lease' = Down(lease) /\ cooldown' = Down(cooldown)
  /\ blocked' = [op \in Op |-> Down(blocked[op])]
  /\ age' = [w \in Workers |-> IF pc[w] = "calling" THEN Min2(MaxAge, age[w] + 1) ELSE age[w]]
  /\ UNCHANGED <<intents, status, token, broker, lock, pc, mine, snap, step, err, faults>>

--------------------------------------------------------------------------------
(* A fresh row, or a row as the migration e3b8f4a12c90 leaves it: due at      *)
(* once, with its old cooldown, and old tick messages still in the broker.    *)
Init ==
  /\ \/ /\ intents = NoIntents /\ status = "idle" /\ cooldown = Null /\ next = Null
     \/ /\ intents \in Kicks
        /\ status = "cooldown" /\ cooldown \in RetryDelays /\ next = 0
  /\ blocked = NotBlocked
  /\ token = NoToken /\ lease = Null
  /\ claimed = {} /\ queue \in {{}, {Legacy}}
  /\ lock = NoWorker
  /\ pc = [w \in Workers |-> "idle"]
  /\ mine = [w \in Workers |-> NoToken]
  /\ snap = [w \in Workers |-> NoSnap]
  /\ step = [w \in Workers |-> "nothing"]
  /\ age = [w \in Workers |-> 0]
  /\ err = [w \in Workers |-> FALSE]
  /\ faults = 0

Request == \/ \E patch \in Kicks : Kick(patch)
           \/ ClearFunnelTailIntent
Dispatch == \/ \E t \in Tokens : DispatchClaims(t)
            \/ DispatchDefers
Broker == \/ \E t \in claimed : Publish(t) \/ DispatcherCrashes(t)
          \/ \E t \in claimed, reached \in BOOLEAN : PublishFails(t, reached)
          \/ \E m \in queue : LoseMessage(m)
Receive(w) == \E m \in queue, again \in BOOLEAN :
                TickAcquires(w, m, again) \/ TickAlreadyRunning(w, m, again)
Validate(w) == TickLegacy(w) \/ TickStale(w) \/ TickNotDue(w) \/ TickBegins(w)
RunStep(w) ==
  \/ StepHasNoKey(w)
  \/ StepChooses(w)
  \/ StepHasNothing(w)
  \/ \E done \in BOOLEAN : StepSaves(w, done)
  \/ \E d \in RetryDelays : StepRateLimited(w, d)
  \/ StepLabelsRateLimited(w)
  \/ \E permanent \in BOOLEAN : StepFails(w, permanent)
Tick(w) == Validate(w) \/ RunStep(w) \/ TickEnds(w) \/ TickUnlocks(w)

Next ==
  \/ Request \/ Dispatch \/ Broker \/ TimePasses
  \/ \E w \in Workers : Receive(w) \/ Tick(w) \/ WorkerCrashes(w)

Spec == Init /\ [][Next]_vars

(* Beat fires every 15 seconds, the broker delivers, a worker that lives goes *)
(* on with its tick, and the clock runs.  Wake-ups do not all reach a worker  *)
(* after their lease: a queue that is always slower than the lease makes      *)
(* every token stale before it is read.                                       *)
PublishInTime == lease > 0 /\ Publish(token)
ReceiveInTime(w) == lease > 0 /\ TickAcquires(w, token, FALSE)
Fairness ==
  /\ SF_vars(PublishInTime)
  /\ SF_vars(\E w \in Workers : ReceiveInTime(w))
  /\ WF_vars(Dispatch) /\ SF_vars(TimePasses)
  /\ WF_vars(\E t \in claimed : Publish(t))
  /\ \A w \in Workers : WF_vars(Receive(w)) /\ WF_vars(Tick(w))
FairSpec == Spec /\ Fairness
--------------------------------------------------------------------------------
(* The types of the row, of the broker and of the workers.                     *)
RowType ==
  /\ intents \in Intents /\ blocked \in Blocks /\ status \in Status
  /\ cooldown \in Time /\ next \in Time /\ lease \in Time
  /\ token \in Tokens \cup {NoToken}
BrokerType ==
  /\ claimed \subseteq Tokens /\ queue \subseteq Tokens \cup {Legacy}
  /\ faults \in 0..MaxFaults
TickType ==
  /\ lock \in Workers \cup {NoWorker}
  /\ pc \in [Workers -> {"idle", "locked", "began", "calling", "blocked_set", "finally", "unlock"}]
  /\ mine \in [Workers -> Tokens \cup {Legacy, NoToken}]
  /\ snap \in [Workers -> [intents : Intents, blocked : Blocks]]
  /\ step \in [Workers -> Step]
  /\ age \in [Workers -> 0..MaxAge]
  /\ err \in [Workers -> BOOLEAN]
TypeOK == RowType /\ BrokerType /\ TickType

(* A seller's work runs one step at a time: of two workers never both are     *)
(* between a tick's beginning and its end, however long a step outlives its   *)
(* lease and whichever messages are repeated (execution_lock).                *)
OneStepPerSeller ==
  \A v, w \in Workers : Working(v) /\ Working(w) => v = w

(* Work that was asked for is never forgotten: unless the row waits in error  *)
(* for a new kick, a due time or a lease that will run out leads the          *)
(* dispatcher back to it, after any crash, lost message or failed publish.    *)
WorkHasWakeup ==
  PendingOps(intents) # {} => next # Null \/ lease # Null \/ status = "error"

(* A permanent failure is quiet: no due time, no lease and no valid token, so *)
(* neither the dispatcher nor a message that is still around resumes it.      *)
ErrorIsQuiet ==
  status = "error" => next = Null /\ lease = Null /\ token = NoToken

(* A wake-up works once: a tick that is over has taken its token out of the   *)
(* row, so a copy of its message that is delivered later finds it stale.      *)
SpentTokenIsDead == \A w \in Workers : pc[w] = "unlock" => token # mine[w]

(* A token is out exactly while its lease is counted.                         *)
TokenHasLease == token = NoToken <=> lease = Null

(* The inductive invariant.  Requested work has a wake-up, an error is quiet,  *)
(* a token is out with its lease, a spent token is dead; and why they hold:   *)
(* a tick that is not over holds the advisory lock and a token, no step works *)
(* on a row in error, and WB only refuses what was called.                    *)
HolderIsLocked == \A w \in Workers : ~Idle(w) => lock = w /\ mine[w] # NoToken
WorkingIsNoError == \A w \in Workers : Working(w) => status # "error"
RefusedWasCalled == \A w \in Workers : pc[w] = "blocked_set" => step[w] \in Key
IInv ==
  /\ TypeOK /\ RefusedWasCalled /\ HolderIsLocked /\ WorkingIsNoError
  /\ TokenHasLease /\ ErrorIsQuiet /\ WorkHasWakeup /\ SpentTokenIsDead

(* A step removes or advances only the request it has read: a request that    *)
(* was changed while it ran is still there after it saved its progress.       *)
SaveKeepsNewWork ==
  [][\A w \in Workers, k \in Key :
       /\ pc[w] = "calling" /\ pc'[w] = "finally"
       /\ intents[k] # snap[w].intents[k]
       => intents'[k] = intents[k]]_vars

(* A finance range that was asked for is tried in the end, or the row waits   *)
(* in error for a new kick: crashes, lost messages and leases only delay it.  *)
Tried(k) == \E w \in Workers : err[w] \/ (pc[w] = "calling" /\ step[w] = k)
RangeIsTried ==
  intents["finance_range"] # Absent
    ~> (Tried("finance_range") \/ status = "error" \/ intents["finance_range"] = Absent)

(* What the seller sees as running does not stay so for ever: a worker that   *)
(* died in the middle of a step is replaced.                                  *)
RunningEnds == status = "running" ~> status # "running"
================================================================================
