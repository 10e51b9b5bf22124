# A verification project for Wb_Finance

Wb_Finance shows sellers of Wildberries and Ozon their finances. A FastAPI
backend takes requests, Celery workers fetch reports from the marketplaces and
recalculate them, PostgreSQL holds everything that must survive, Redis carries
Celery's messages. Around that core stand billing, employees of a store, a
support bot in Telegram, a service that makes product photos, and tools that ask
language models. What is hard about the program sits between these: long calls
to servers that refuse, tasks that die, messages that are lost or repeated, and
users who ask again in the meantime; and, where money is computed, amounts that
are not known. The modules here describe that, TLC checks them on small
instances, and TLAPS proves nearly all of their safety for instances of any size:
the scheduler and the pause between its steps, the archive, the repair of missing
days, the funnel's year, calls of WB, the figures of a day and the plan of a month,
the runs of Ozon and the money of its days, billing, the access to a store, the
support bot, product photos and the AI tools. What is only model-checked is liveness
and the splitting of texts.

Paths without a directory are those of `src/backend`: `tasks.py` is
`celery_app/tasks.py`, `dashboard.py` and other routers are in `app/routers`,
services in `app/services`.

## 1. Inventory

Each part with its state, its operations, what is hard about it and when it is
correct. `PROJECT.json` gives the files and says what of each is modelled.

### WB orchestrator (`tasks.py`, `wb_orchestrator_scheduler.py`, `app/models/wb_orchestrator_state.py`)

*State.* One row of `wb_orchestrator_state` per seller: `intents` (what was
asked for, in lanes `high` and `low`, and a `blocked` map that says until when
WB refuses an operation), `status` and `cooldown_until` (what the UI shows),
`next_tick_at` (when the dispatcher should look), `dispatch_token` and
`dispatch_lease_until` (the wake-up that is out). A PostgreSQL session advisory
lock per seller while a tick runs. Tick messages in the broker.

*Operations.* `wb_orchestrator_kick` merges a request into the row;
`wb_orchestrator_dispatch` (beat, every 15 s) claims due rows (`claim_due`),
publishes one tick message each, gives a claim back when publishing fails
(`release_failed_publish`); `wb_orchestrator_tick` takes the lock, validates
its token, runs one step (`_run_orchestrator_step`: one unit of one request
against WB) and plans the next one in its `finally`.

*Interactions.* Routers and dashboards kick; a step calls `sync_sales`,
`sync_ads`, `sync_funnel` in process and sends `recalculate_pnl`;
`dashboard._clear_funnel_tail_intent` edits the row behind the orchestrator's
back.

*Hard.* A step calls WB for minutes and must not overwrite kicks that commit
meanwhile. Its lease (300 s) can end first, so a replacement wake-up is made
while it runs. Messages are lost, repeated, overtaken; a publish that raised
may have reached the broker. Workers die between any two commits. WB answers
429 for one operation and not for the other.

*Correct when* no two steps of a seller overlap, no request is forgotten
whatever fails, a permanent error stays quiet until the user asks again, a
wake-up works once, a step only takes away what it read, the pause between two
steps is kept, and requests are tried in the end.

### Archive of finances (`tasks.py`: `archive_backfill_manager`, `_run_orchestrator_step` 1213-1282)

*State.* Per seller and year a `status` and `last_completed_date`, the cursor
of a walk from yesterday (or 31 December 2025) back to 1 January; the request
`low.finance_backfill_year`; `raw_sales`, `raw_ads`, `pnl_daily`;
`recalculate_pnl` messages. *Operations.* A kick for a year; a step that checks
`_pnl_daily_covers_range`, loads a chunk, sends its recalculation, moves the
cursor, hands 2026 over to 2025; `recalculate_pnl`. *Hard.* Each of these is a
commit of its own and workers die between them; `sync_sales` swallows errors
that are not HTTP errors; users ask for the other year meanwhile. *Correct when*
the cursor passes no day that was not served, what was loaded reaches the
report, and the walk ends.

### Repair of missing days (`dashboard.py`, `sync.py`, `finance_missing_tail.py`, `tasks.py` `_orch_finance_missing_step`)

*State.* `finance_missing_sync_state`, a row per range with a status and
`updated_at`; kicks in the broker. *Operations.* Every read of a dashboard looks
for a missing tail (days up to yesterday) or for holes, records the range and
publishes a kick; a ten-minute freshness of the row keeps the next reads from
repeating it. `/sync/recent` reserves a row for its own range unless one that
overlaps was just written. A step marks the row running, loads, marks it
complete. *Hard.* The row is written by the dashboard, by requests, by the step
and by `sync_sales`, and nobody owns it: a lost kick, a dead worker or a refused
call leaves it in a status that must not stop later repairs, nor claim what did
not happen. *Correct when* a complete row is true of its days and yesterday's
sales come in as long as somebody looks.

### WB data: client, import, figures, plan (`wb_client.py`, `tasks.py`, `dashboard.py`)

*State.* No state in the client but the call under way. Tables of a day:
`raw_sales`, `raw_ads`, `articles` with costs, expenses and the tax rate in;
`pnl_daily` and `sku_daily` out. `monthly_plan`. *Operations.* Pages of a
report, chunks of articles of a funnel, the spend of campaigns split among their
articles; import of a day (delete and insert); saving of costs, expenses and the
tax rate; `recalculate_pnl` and `recalculate_sku_daily`; plan, fact and forecast
of a month. *Hard.* Rows that are not all the rows are stored as if they were; a
retry after a part was answered; a 200 with an empty or short body, which passes for
all there is; two recalculations and an import that overlap on one day, kept apart
only by unique keys; divisions of money. *Correct when* a call returns all that
Wildberries told or raises, no kopeck of advertising it told of is lost, quiet tables show what the inputs say and agree with each other, and forecasts
of a month fit together.

### The funnel's year (`tasks.py` `sync_funnel_ytd_step`, `dashboard.py`, `sync.py`)

*State.* `funnel_backfill_state` (status, cursor, error), `funnel_daily`,
chains of messages that queue themselves. *Operations.* A click starts a chain;
a link asks for a few days backwards, retries after 429 and 5xx, queues the
next; a dashboard sets a row back that looks dead. *Hard.* Nothing keeps two
chains apart but a row that says running and is younger than two minutes; a
message is acknowledged before its work is done; the count of refusals is written but
never read back, so the limit of tries is never reached and a refused chain asks for
ever. *Correct when* no day is passed that was not answered in full, a partial answer
never replaces a fuller one, and a row that nobody writes does not say running for
ever.

### Ozon: runs, connection, costs (`marketplace_finance_service.py`, `celery_app/ozon_tasks.py`)

*State.* A connection per owner (`status`), runs (`queued`, `running`,
`complete`, `partial`, `failed`, `updated_at`), rows per day, product costs, an
advisory lock per owner, run ids in the broker. *Operations.* `enqueue_sync`
(retire a stale run, refuse while one is active, insert), `save_connection`,
`set_product_cost` (recomputes every saved day), `_dispatch` (publish or fail
the run), `run_sync_run` (one commit per day), `chain_backfill_after_run`,
`plan_daily_refresh_for_ready_connections`. *Interactions.* Requests, the daily
job and workers all take the owner's lock, without waiting: who finds it taken
gives up. *Hard.* A worker dies and leaves `running`; after two hours the run
counts as dead, but it may only have been slow; a publish that raised may have
arrived; a run is read before the lock is taken. *Correct when* an owner has one
active run and nobody works beside it, a run is carried out once, the backfill
leaves no day out and reaches yesterday, and saved days have the present costs.

### Ozon: accruals and what is shown of them (`ozon_finance.py`, `marketplace_finance_service.py`)

*State.* The normalised day: money by category, SKUs, what is not allocated,
whether everything was classified, the mismatch between totals and lines.
*Operations.* One accrual after another; then the day's row, the SKUs' rows, the
list of products, the overview for Ozon and for both marketplaces. *Hard.*
Amounts, SKUs and types that are missing or damaged: two unknowns must not
cancel into a profit. *Correct when* a profit is claimed only where every figure
it rests on is known, parts add up to the whole in every view, and the order of
the accruals changes no money.

### Billing (`billing_service.py`, `billing_invoice_service.py`, `billing.py`)

*State.* A subscription with its end, a licence, payments, events of YooKassa by
key, invoices with status and snapshot. *Operations.* Trial, expiry on a visit,
checkout, the return page (`sync_latest_yookassa_payment`), the webhook
(`process_yookassa_webhook`), a lifetime code; `create_or_reuse_invoice` (under
an advisory lock), `mark_invoice_paid`, cancelling. *Hard.* The return page
reads a pending payment, calls YooKassa, then activates, while the webhook
activates the same payment; events repeat and come late; requests write what
they read before. *Correct when* an event is credited once and only if it was
paid, one invoice is open, and paid time opens the door and is not taken away.

### Store access and invites (`store_invite_service.py`, `store_access_service.py`)

*State.* Invites (`pending`, `accepted`, `revoked`, expiry), grants per owner
and viewer, an audit. *Operations.* create (revokes the older ones), revoke,
accept and register (row lock), grant, revoke of a grant. *Hard.* Only accept
and register lock the row; an owner who read `pending` writes later. *Correct
when* an invite opens access at most once and never after it was withdrawn, who
joined has access, and the audit tells the truth.

### Support bot (`src/tools/support_bot/wbf_support_bot`)

*State.* SQLite: messages, an outbox (`pending`, `sending`, `sent`, `unknown`,
`failed`), an offset; files with a watermark and the reminders made.
*Operations.* `run` polls and transcribes, `watch` prints what is new, `send`
answers with an idempotency key and splits long texts. *Hard.* A crash between
Telegram's answer and the commit; second copies. *Correct when* every message is
stored once and shown, nothing is sent twice, statuses are true.

### Product photos (`src/wb_image_pipeline_service`, `product_generation_service.py`)

*State.* A run with steps and frames, Celery messages, the backend's job.
*Operations.* Start, three steps, a series for a chosen frame, stop, retry, a PATCH
of the job's status. *Hard.* Tasks are repeated, retried and outlive a stop; a
request reads the job, calls the service once or twice and commits, and others come
in between. *Correct when* a completed run has its frames, a series is whole and the
only one, and of a job one run is at work, but for runs that were let go by requests
that crossed.

### AI tools (`ai_*_service.py`, `daily_brief_service.py`, `offer_rag_service.py`, `canonical_offer.py`)

Replies to reviews (synchronised and published at the same time), the brief of a
day (queued by beat and page, kept apart by a status), the index of the offer
(points in Qdrant, a state and a lock with a time limit in Redis, which may not
answer), and tasks from the comparison with competitors (fetched by a browser or
uploaded by the seller, imported in two commits, analysed). *Correct when* what is
shown as published was accepted, a ready brief stays, ready names a version whose
points are there and made of its file, a ready report points to its newest metrics,
and weak metrics leave the seller a task.

### Not modelled

The assistant (read-only tools and a history), the browser that logs in to
Wildberries, scripts that are run by hand, and the frontends.

## 2. Plan

1. `WbIntents`, `WbOrchestrator`, `SellerWork` and their proofs: the scheduler
   everything else runs in. **Done.**
2. `FinanceBackfill`, `FinanceRepair`: the two kinds of work with progress rows
   of their own. They compose with the scheduler through what it guarantees (one
   step of a seller at a time, a step's request is kept unless it is done), not by
   sharing variables. **Done**, checked and proved.
3. `OzonSync`: connection, runs, advisory lock, stale runs, product costs,
   backfill chain and daily job. **Done**, every safety property proved. Left: the
   turn of the year.
4. What data is made into: `WbClient`, `DailyFigures`, `PlanFact`, `OzonLedger`,
   `OzonReport`. **Done**, proved. Left: the list of articles of the combined report,
   charts of the dashboard.
5. `FunnelYear`, the self-queueing chain. **Done**, its safety proved.
6. `Billing` with `BillingAccount`, `StoreAccess`. **Done**, proved. Left:
   reminders, the reservation of promo codes, and an abstract ledger in which each
   payment counts once.
7. `SupportInbox`, `SupportOutbox`, `SupportText`. **Done**, proved.
8. `Studio`, `ReviewReplies`, `DailyBrief`, `OfferIndex`, `AiTasks`. **Done**,
   proved. Left: the local mode of product generation.
9. Several sellers in `archive_backfill_manager`.

## 3. The modules

| module | models | state and actions |
| --- | --- | --- |
| `WbIntents` | the pure functions on intents: `_intents_merge`, `_intents_after_consumed_step`, `pending_ops`, `due_for_state`, the order in which a step picks its request | operators only |
| `WbOrchestrator` | the row of one seller, the broker, the workers | below |
| `SellerWork` | what the scheduler promises about one seller's requests | `work`, `serving` |
| `WbOrchestratorRefinement` | the mapping of the one to the other | `work` is `intents`, `serving` what the holder of the lock calls WB for |
| `WbOrchestratorHistory` | `WbOrchestrator` with history variables for the pause between steps | `pace`, `own` |
| `FinanceBackfill` | the archive lane of a step, its commits one by one | `yearStatus`, `last`, `raw`, `pnl`, `recalcs` |
| `FinanceRepair` | dashboard reads, requests, progress rows, kicks and the repair step | `row`, `stale`, `inbox`, `intent` |
| `FunnelYear` | chains of `sync_funnel_ytd_step` and the row they share | `ytd`, `age`, `chains`, `ytdStep`, `funnel` |
| `WbClient` | `wb_client.py`: how answers become the rows of one call | `call`, `wbAnswers`, `untold` |
| `DailyFigures` | the inputs of a day, the two tables made of them, the tasks that do | `inputs`, `tables`, `todo`, `job` |
| `PlanFact` | plan, fact and forecast of a month | `today`, `pnl`, `orders`, `plan` |
| `OzonSync` | one Ozon owner: callers, workers, the broker and the lock | `status`, `request`, `lock`, `want`, `saved` |
| `OzonLedger` | what the normaliser makes of a day's accruals | `taken`, `ledger` |
| `OzonReport` | the rows shown of it, for Ozon and for both marketplaces | operators on `ledger` |
| `BillingAccount` | what billing computes from a seller's rows | operators only |
| `Billing` | trial, payments, webhook, return page, invoices, licence; extends `BillingAccount` | `sub`, `payment`, `events`, `invoices`, `request` |
| `StoreAccess` | invites and grants as overlapping transactions | `invites`, `grants`, `audit`, `sharing` |
| `SupportInbox`, `SupportOutbox`, `SupportText` | the bot's two halves and the splitting of texts | `rows`, `watermark`; `outbox`, `delivered`; `text` |
| `Studio` | a photo job, its runs and the requests about them | `run`, `queue`, `worker`, `job`, `click` |
| `ReviewReplies`, `DailyBrief`, `OfferIndex`, `AiTasks` | the other AI tools | `reply`; `brief`; `texts`, `index`, `offerLock`; `reports`, `imports`, `aiTasks` |
| `WbOrchestratorProofs` | theorems about the scheduler, its refinement and its pause, and about `FinanceBackfill` | the invariants of section 5 |
| `WbDataProofs` | theorems about `FinanceRepair`, `FunnelYear`, `WbClient`, `DailyFigures`, `PlanFact` | |
| `OzonLedgerProofs` | what the operations of `OzonLedger` and `OzonReport` make of a ledger: the lemmas of `OzonProofs` | |
| `OzonProofs` | theorems about `OzonSync`, and about `OzonLedger` with `OzonReport` | |
| `AccountsProofs` | theorems about `StoreAccess`, `Billing` | |
| `SupportBotProofs` | theorems about `SupportInbox`, `SupportOutbox`, `SupportText` | |
| `AiToolsProofs` | theorems about `ReviewReplies`, `DailyBrief`, `OfferIndex`, `AiTasks`, `Studio` | |
| `SumTheorems` | the lemmas they share: sums over finite sets, induction over sets of numbers, what a loop over an interval computes | |
| `MCWbOrchestrator`, `MCWbOrchestratorHistory`, `MCFinanceBackfill`, `MCFunnelYear`, `MCOzonSync` | instances of one module | |
| `MCAccounts`, `MCSupportBot`, `MCAiTools`, `MCWbData` | instances of several modules that share no state; `part` says which one a behaviour is of | |

**`WbOrchestrator`.** The row's columns are `intents`, `blocked`, `status`,
`cooldown`, `next`, `token`, `lease`. A point in time is the time left until it
(0 is "now or past", `Null` a NULL), so the clock is the action `TimePasses`
that counts every deadline down. A transaction under the row lock is one action:
`Kick`, `DispatchClaims`/`DispatchDefers` (`claim_due`), `PublishFails` (with
`release_failed_publish`), `TickBegins` and the three early returns of a tick,
`StepSaves` (`_save_orch_step_state`), `StepRateLimited` (`_orch_set_blocked`),
`TickEnds` (the `finally`). What the code does without the row lock is an action
of its own (`StepLabelsRateLimited`, `StepHasNothing`), and so is the call of WB
between `StepChooses`, which reads a snapshot, and the saving. Ticks of several
workers interleave; the advisory lock is `lock`. Faults are: a message lost or
delivered twice, a publish that raises with or without the message having
arrived, a dispatcher that dies with a claim in its hands, a worker that dies
anywhere. Rows of different sellers share nothing, so one row is modelled. Dates
of a range are one value. Tokens are uuids: a fresh one is any token that nothing
refers to any more.

**`FinanceBackfill`** and **`FinanceRepair`** model what happens inside a step,
so they do not repeat the tick protocol: a step is a sequence `stage` or `pc`, kicks,
recalculations, dashboard reads and crashes come between its commits.
`StepAborts` and `SalesRefused` stand for an HTTP error or a dead worker, after
which the orchestrator tries the request again or, after a permanent status,
waits in `halted` for a kick. `raw`, `pnl`, `present` are sets of days; amounts
are not modelled here. In `FinanceRepair` `stale` says which rows were updated
more than ten minutes ago; an ORM write that changes no column does not touch
`updated_at`, which `Write` reproduces. Kicks that wait in the broker are a set.

**`FunnelYear`.** A message is taken and acknowledged (`YtdBegins`), the batch is
planned from the row (`YtdPlans`), each day is asked for and committed with the
cursor (`DayIsServed`), and the batch ends in the next message or in complete.
`age` is what tells a click that a chain is running (two minutes) and a dashboard
that it is dead (half an hour). The count of a day stands for its figures: a
greater one is a fuller answer. `error_message` is one of `Markers`: a refusal is kept
by its code alone, since `_retry_http_marker` writes `__retry_http__:code:n`, three
parts, and `_retry_http_parse` reads four, so that `n` is always 1. A refusal like the
one before changes no column, and the row grows older (`Update`).

**`WbClient`.** One call at a time; every answer the server may give is a choice:
a page or chunk, whole, short or empty, 429 and other errors, and codes that are
neither. `rows` are the rows that the caller gets. A 200 that brings less than was
asked for (no list, no rows, a page whose last row has no id, deleted cards under
`skipDeletedNm`) passes for all there is; the client cannot tell, and `untold` keeps
what such answers left out, so that what a call returns can be compared with all that
it was told. The client divides a charge among articles as a float; charges are in units that divide evenly.

**`DailyFigures`.** A recalculation reads, deletes, inserts and commits in steps
of their own, since two of them and an import may overlap; a writer waits where
another has deleted or inserted the same key, and the unique key refuses it when
it wakes. `unsure` is history: it marks a table that was last written by someone
who read before a later writer, by one who was refused, or not at all because its
message died with the worker; costs, expenses and the tax rate queue no
recalculation, so a table that is due is marked as well. Money is in units of which
every tax rate takes a whole number; rounding is left out, or the taxes of articles
would not add up to that of the day.

**`PlanFact`.** Rows of `pnl_daily` are written in any order and again; a forecast
is a fraction `<<sum, days>>`, so that nothing is rounded.

**`OzonLedger`.** An accrual is a record with a total and lines; an amount that may
be missing is a set of at most one number, as is everything computed from it.
Money that may not be known spreads as in the code: to the day, to the SKU it
names, or to all that are known so far. What a helper does to a row (`Booked`,
`Doubted`, `Gapped`, `WithoutUnits`, ...) has a name of its own, and the operation on
the ledger (`AddComponent`, `MarkUnknown`, `MarkGap`, ...) says which rows it is done
to. The same day is read a second time from the accruals alone, without a ledger
(`LineAmount`, `Legible`, `OwnLines`, `UnitsOf`), for the properties to compare.
**`OzonReport`** makes the rows of an overview from it and adds Wildberries' row of
the day.

**`OzonSync`.** A process (`api`, `beat`, a worker) that makes a call has it in
`want`; `enqueue_sync`, `save_connection` and `set_product_cost` take the lock
(`GetLock`), retire a stale run in a commit of its own, and end in their insert
or in `Refuse`. `next_backfill_run` reads the latest chunk before it takes the
lock, so `Propose` is an action of its own. A worker's days are three actions:
mark, read the costs, save. Dates are days of one year. Ids of runs that nothing
refers to are used again. Two kinds of slowness count as faults, since the code
can do nothing about them: two hours over a run that is under way, and a run that
lasts into another day. `done` and `checked` are history. A call does not last
past midnight.

**`Billing`** and **`StoreAccess`.** A request has what it has read in `request`
or `sharing` and writes at its commit only the columns that it changed in memory,
whatever came in between; row locks are taken where the code takes them. `raced`
and `overtaken` are history: a row was written under a request that had read it.
Properties that hold only without it say so; those that hold in spite of it do not.

**The support bot.** `poller` and `watcher` are processes of which a second copy
may run; a transaction of SQLite is one action, and `Tables` gives the table after
each update of a batch, a recursive function. In `SupportText` the loops of
`textsplit.py` go letter by letter or part by part (`NextLetter`, `HardLetter`,
`NextPart`), and `split_text` is a recursive function on texts: `Chunks` cuts a text
with the help of what shorter ones are cut into. A text is a sequence of four
letters: one of width one, one of width two, the space and the line feed. Other
white space is left out; a word of thousands of tabs would be cut into blank parts.

**`Studio` and the AI tools.** A task reads the row, asks a server, and writes the
row; each is an action. So is each step of a request of the photo studio, kept in
`click`: a start reads the job, stops the old run (`DropOldRun`), creates a new one
(`CreateRun`) and commits the job (`AdoptRun`); a stop and a request for content read
the run before they call the service; `PatchStatus` puts any status over any other.
`orphaned` is history: runs that crossing requests, a lost answer or a PATCH let go
without a stop. Of the offer, `texts` tells what the points of a version were made of;
a question that gets no answer from Redis goes on without the lock, and the file is
looked for twice, so a text can come under another version (`crossed`). An import of a
report commits `ready` and then the metrics with the pointer; items that are refused,
none at all, or a death in between leave the first commit alone (`cutShort`). Celery's
message is repeated, or dies with its worker,
where the code acknowledges early. What the model or the marketplace answers is a
choice; texts and pictures are counted, not described.

Definitions that a comment introduces as "a mistake" are what the code would be
with a plausible bug; they are not part of `Next` and exist to show that each
property notices.

## 4. What is checked

| run | shows | distinct states |
| --- | --- | --- |
| `wb_orchestrator` | `IInv` (with `ErrorIsQuiet`, `TokenHasLease`, `SpentTokenIsDead`), `OneStepPerSeller`, `WorkHasWakeup`, `SaveKeepsNewWork`; `ImplementsSellerWork`, the refinement of `SellerWork` | 840 thousand |
| `wb_liveness` | a range that is asked for is tried, a dead step does not stay "running"; `PacingKeptByOwnToken`, the pause between steps | 140 thousand |
| `finance_archive` | `PassedDaysWereServed`, `PassedDaysReachPnl`, and that the archive ends | 500 thousand |
| `ozon_sync` | `OneActiveRun`, `BackfillLeavesNoGap`, `SavedDaysUseCurrentCosts`, `FinishedRunsStayFinished` | 780 thousand |
| `ozon_backfill` | the backfill of a ready connection reaches yesterday | 790 thousand |
| `accounts` | `BillingInv`: an event is credited once and only if it was paid, one invoice is open, paid time opens the door; `PaidTimeIsKept`; `AccessInv`: an invite is accepted once, who joined has access, the audit is true; `WithdrawnIsNotAccepted` | 6.8 million |
| `support_bot` | `InboxInv`: stored once, edits kept, nothing passed over; `OutboxInv`: an answer goes out once, statuses are true; `SplitIsSendable`; `ClientIsHeard` | 520 thousand |
| `ai_tools` | `StudioInv`, `RepliesInv`, `BriefInv`, `OfferInv`, `TasksInv`, `ReadyIsKept` | 4.1 million |
| `wb_data` | `RepairInv`, `TailIsRepaired`; `FunnelInv`, `FunnelRunEnds`; `WbClientInv`: a returned call has all that was told, spend is kept, tries are bounded; `FiguresInv`: quiet tables are current and agree; `PlanFactInv`; `OzonReportInv`: unknown money never becomes a profit, views add up | 240 thousand |
| `ozon_delivery`, `studio_stop`, `funnel_recalc` | disagreements of code and documentation, below | |

An invariant whose name ends in `Inv` is the conjunction of the module's type
invariant and of its named properties, each of which has a comment of its own.
Every property is broken by at least one of the mistakes that stand in the modules.

### Bounds

*`wb_orchestrator`.* Two workers, because every hazard here is a late tick
against a present one; a third adds no new pair. Two tokens, the one in the row
and the one it replaced; a third token in flight would be stale like the second.
Two ranges, so that a kick can replace the request that is being served. Lease 2,
retry 3: a step can outlive its lease, and a window its pause. One fault, of any
kind, anywhere; the proofs lift that bound and all others. `MaxAge` stops counting
a step's age where every retry window is over.

*`wb_liveness`.* One worker and one kind of request, no symmetry. With two workers
a valid message can be dropped as `already_running` while a stale tick holds the
lock; the lease repairs that (`docs/wb-orchestrator-recovery/PROOF.md` 36-37
allows for the delay), but TLC's fair cycles then need an assumption about which
of the two is quicker.

*`finance_archive`.* A 2026 of two months of two days and a 2025 of one month, one
day without sales and one with advertising only: first day of a year, change of
month, change of year, an empty day. Two faults, so that one can hit the repair of
another; one request of a user. The proofs lift these bounds.

*`ozon_sync`.* Two workers, for a message that is repeated or comes late beside
its replacement; two run ids, the one and its successor; chunks of one day in a
year of two, so that there is a second chunk; two requests of the owner (the
connection and a manual run or a change of costs) and two faults, so that a
retired run or a failed answer can meet a crash. `CHECK_DEADLOCK` is off because a
connection that is not ready is left alone by every process. The proofs lift these
bounds. *`ozon_backfill`.* One worker, a third run id (with two, a message that
waits for the worker can keep the worker from getting an id), one fault.

*`accounts`.* Two requests that overlap, which is what a stale read takes. One
payment, which is reported by the webhook and by the return page; two invoices,
the second issued when the first was paid or cancelled; three days, in which a
trial and a paid month of one day each end. Three invitations of two people, so
that one of them is invited again; an audit of three lines.

*`support_bot`.* Two pollers, two updates in batches of one, one fault; two senders
and two reminders with four commands, two keys, a text of one part and one of two;
every text of up to six letters against a limit of three.

*`ai_tools`.* Photos: two runs, workers and requests that overlap, three chains, so
that a run is replaced and its series made or made again, one stop or PATCH. Replies:
two reviews, two synchronisations, two requests. Brief: two workers, two requests,
four tasks. Offer: two versions, two questions and a worker. Comparison: two workers
and an upload, two days, one batch of metrics (that an analysis reads the newest of
several is what the theorem `TasksHold` adds), two tasks; an upload is of a day that
has come, though the request may carry any date. One fault in each.

*`wb_data`.* Repair: four days, the second without sales, holes of at most one
day, so that a hole is longer than a repair; one request and one fault; at the
beginning either no day is missing at the end or all but the first are. Funnel: a
year of three days in batches of two, so that there is a second batch, two workers
and two clicks, one fault of any kind, refusals without number. Client: five articles in chunks
of two (a last chunk of one), a report of four rows in pages of two, one row
without a date, charges that two articles share, that belong to no article, and
one outside the period. Figures: two workers, two events of imports, saves and clicks, a day with
a return and a day with fees that belong to no article. Plan: a month of three
days, a day of returns, four writes. Ozon: every order of up to four of
seventeen accruals, whole and damaged ones of each kind.

Where `CHECK_DEADLOCK` is off, the bounded events of that instance run out.

### Fairness

Beat fires and live workers go on, hence weak fairness of `Dispatch`, `Publish`,
`Receive` and `Tick`. Beyond that two assumptions are named: `TimePasses` goes on
for ever, and `PublishInTime`/`ReceiveInTime` get their turn. The second is real: a
queue in which every wake-up waits longer than its 300 s lease makes every token
stale before it is read, and the scheduler then never starts a step.
`FinanceBackfill` needs only that beat runs the manager and steps go on;
`FinanceRepair` that the seller keeps opening the dashboard, that the broker
delivers each kick that is not lost, that steps go on and that time passes.
`FunnelYear` needs workers that go on, minutes that pass, and that somebody looks
at the dashboard, where a dead row is set back. `FunnelRunEnds` makes one exception:
refusals whose codes alternate without end write the row each time and keep it young;
those that repeat one code do not. `SupportInbox` needs that `run` and
`watch` are started again (launchd, and the session that runs `watch`).
`OzonSync` needs that calls and tasks that live go on, that a message that is not
lost is received and that mornings come with their job. `ReadyBackfillEnds` makes
two exceptions, both real: a connection that stops being ready, and deliveries
that collide with a request on every day again (`ozon_delivery`). Faults, requests
of users and the midnights of the repair are never fair. The other modules promise
no end and assume no fairness.

### Where code and documentation disagree

* `ozon_delivery`: a worker that finds the owner's lock taken drops its message,
  since "the lock owner remains responsible for it"
  (`marketplace_finance_service.py` 873-875), but the owner of the lock may be a
  request that only looks and refuses (lines 385, 434, 223). The queued run is then
  nobody's for two hours; if it was the first chunk, the connection stays
  `configured` and the daily job never resumes it.
* `studio_stop`: `stop_run` (`internal_runs_service.py` 63) marks the run and its
  steps failed "so queued Celery tasks cannot continue token-spending steps", but
  a chain whose first task has not run yet adds its steps and goes on.
* `funnel_recalc`: a batch of the funnel's year runs backwards, and its first day
  is passed as the beginning of the range to recalculate (`tasks.py` 2194):
  `date >= start and date <= end` matches nothing, so `sku_daily` never learns of a
  batch of more than one day, though line 2103 says the recalculation follows.

### Further disagreements, shown by no run

*Orchestrator and archive.* `_clear_funnel_tail_intent` (`dashboard.py` 236) leaves
the due time that was computed for the funnel's block, and a finance kick then does
not replan, though BUGLOG.md 60 says a block never holds back the whole seller. A
block ends `delay` after the beginning of the tick (`tasks.py` 1304-1307), so WB is
called inside the window it asked for when the refusal came late. The archive does
not look at the result of `sync_sales` (1264), which swallows errors that are not
HTTP errors; the cursor passes days that were never loaded.

*Ozon runs.* `docs/ozon-like-wb/README.md` 20 and `celery.py` 110 promise a refresh
of the last three days each morning; each morning there is one new day after the
last chunk, so the fallback that does it (1562-1571) is never reached. "Resume any
unfinished year-to-date backfill" (`celery.py` 111) does not hold for a connection
that a dead worker left `syncing` or a failed run `error`.

*Ozon figures.* A fee of an ambiguous type leaves its SKU `profitability_complete`
with the amount outside its net. Any fee that belongs to no item makes every SKU's
`marketplace_net` of the day null. Which SKUs show their units depends on the order
of the accruals (`ozon_finance.py` 697), though no money does. The combined margin
is a partial sum where Ozon's part is unknown. On a day without accruals the
combined row hides WB's advertising (`marketplace_finance_service.py` 762-775). The
comment at 1752 says SKUs without a card are left out "as in the reports", while
`_build_ozon_products` (1121) reports them; such a SKU cannot be given a cost.

*Plan.* For a plan of zero `_calc_pct_of_plan` returns 100.0 where others are
ratios, and the page shows 10000 %. The forecast of orders counts only days that
have a row of `pnl_daily`. Saving the revenue or a percent alone leaves the derived
plans as they were.

*Figures.* Saving costs, expenses or the tax rate queues no recalculation
(`dashboard.py` 852 says otherwise). Of overlapping recalculations the older may
write last; with different articles their rows may be united.

*Funnel.* `fetch_funnel` asks for ever after a code between 201 and 399, though its
docstring calls that an error. `_retry_http_parse` (`tasks.py` 581-593) does not read
what `_retry_http_marker` (577) writes: in the year's step (2226) as in `sync_sales`,
`sync_ads`, `sync_funnel` and their like (1433, 1576, 1771, 1927, 2346) the counter
stays at 1, `FUNNEL_YTD_429_RETRY_LIMIT` is never reached, "retry limit reached" (2243)
never written, and Wildberries is asked for as long as it refuses. A row that waits
longer than half an hour for its retry is set back while its chain goes on. A row of a day mixes counts of one answer with percents of another. A chain
of an earlier click may turn a complete year into error or running.

### Hazards met that no property covers

*WB.* A kick for the very range that is being served is consumed with it
(`tasks.py` 829): equal values look like nothing new. A replacement token after a
step that outlived its lease starts the next step without the pause (1150). A month
is loaded once for each of its days, as the cursor moves by one (1268). A hole whose
row says running is never asked for again (`dashboard.py` 408), while a tail is; a
repeated kick of a running row leaves `updated_at` (341-347), so every read repeats
it. `archive_backfill_manager` takes the oldest sellers whose 2026 is not complete
(`tasks.py` 915); one that can never complete keeps the others waiting.

*Ozon.* A partial chunk counts as finished (1517-1523): its failed days are never
asked for again by the chain.

*Billing and access.* Webhook and return page may both extend the subscription for
one payment (`billing_service.py` 357, 404): `EventAppliedOnce` speaks of the event.
A trial may overwrite an active subscription that was activated meanwhile (145).
`mark_invoice_paid` takes no lock, promo codes are reserved without one. Two
requests may leave two pending invites of one person (`store_invite_service.py`
119-122), a pending invite survives the revocation of a direct grant, and an owner
who read early may overwrite `accepted`. These are what `raced` and `overtaken`
exempt.

*Support bot.* One voice message that waits for a key holds back what follows; an
edit of a message that was shown is not shown; a row stays `sending` after a crash;
a repeated key with another text keeps the first; a reminder may come after the
answer.

*Studio and AI tools.* A task that is acknowledged early is lost with its worker; a
step that answers late overwrites `failed`; a POST that times out orphans a run; two
clicks make two; a request for content that read the old run revives it after a start
has stopped it; a PATCH of `error` to `draft` makes the next start skip the stop
(`product_generation_service.py` 181). A brief stays `generating` when its worker dies. A reply can be
posted twice by two requests. The lock of the offer index is deleted by whoever
waited out its time or got no answer from Redis, although `canonical_offer.py` 9-12
says only one indexes; a file uploaded meanwhile is indexed under the version of the
one before. A report can be ready before its metrics are imported, and stays so without
metrics when its import fails after the first commit (`ai_competitor_service.py` 103,
123). Most of these are behaviours of the modules, and the properties exempt them by a
history variable.

### What the properties exempt

Where the code does what it should not, a property says for which behaviours it holds.
`PacingKeptByOwnToken`: until a step ends under a replacement of its token (`own`).
`ReadyBackfillEnds`: not for a connection that a dead worker left `syncing`. The
archive and the repair: not for days whose failure `sync_sales` swallowed (`lost`).
Billing and access: until a request was overtaken (`raced`, `overtaken`).
`ClientIsHeard`: not while voices wait for a key. `AnsweredOnce`: until a
synchronisation wrote over a publication (`disturbed`); `PublishedWasAnswered` holds
through it. The brief: until two read its row before either wrote it (`briefRaced`).
`FiguresInv`: not for a table whose last writer was not the newest, or was lost
(`unsure`). `OneLiveRun`: not for runs that were let go (`orphaned`). The offer: until a
question goes on without the lock (`unlocked`), a file comes between its two looks
(`crossed`), or two work on the index (`mixed`). `ReadyHasMetrics`: not for days whose
import was cut short (`cutShort`). Of the hazards in `PROJECT.json` that name such a
property, the exempted half is a behaviour of the model and promised by nobody.

## 5. What is proved

For every set of ranges, requests, workers, tokens, people, runs and days, every
delay and any number of faults, from the assumptions named in the modules:

| module | theorems |
| --- | --- |
| `WbOrchestratorProofs` | `Invariant`, `TypeCorrect`, `OneStep`, `NoWorkForgotten`, `QuietError`, `TokensDieOnce`, `TokenAndLease`, `NewWorkKept`, `PacingKept`, `Implements`; `ArchiveTypeCorrect`, `NoDayIsSkipped`, `LoadedDaysAreShown` |
| `WbDataProofs` | `RepairHolds`, `FunnelHolds`, `ClientHolds`, `FiguresHolds`, `PlanHolds` |
| `OzonProofs` | `TypeCorrect`, `OneRun`, `CurrentCosts`, `DoneOnce`, `NoGap`, `OzonHolds` |
| `AccountsProofs` | `AccessHolds`, `WithdrawnStaysOut`, `BillingHolds`, `PaidTime` |
| `SupportBotProofs` | `InboxHolds`, `OutboxHolds`, `TextHolds` |
| `AiToolsProofs` | `RepliesHold`, `BriefHolds`, `ReadyBriefIsKept`, `OfferHolds`, `TasksHold`, `StudioHolds` |

`Invariant` and the theorems whose names end in `Holds` or `Hold` are about the
`...Inv` of a module, that is the type invariant and every invariant of it that a run
checks; `TextHolds` is about `SplitIsSendable`. Proofs of components that do not
interact stand in one module when one run
composes them.

*Assumptions.* Delays, lengths of years, months, batches and chunks are positive,
bounds are numbers, the markers for "no token", "nobody" and "absent" are not
themselves tokens, workers or ranges, and what an owner or a user asks for by hand is
a range of days. Where the argument counts, what is counted is finite: Celery
processes of the funnel, keys of answers, rows of a report, articles. Runs of photos
are numbered from 1, as the database makes them; processes that ask the offer and
processes that index it are different ones; a text to be sent has at least one part.
Telegram takes texts of at least two units (4096 in the code), so any letter fits.
Three assumptions are about money, which the models count in whole units: a charge
for advertising divides evenly among the articles of its campaign, a price is taken
whole by every tax rate, figures of a plan are numbers. Rounding is then outside
these proofs, as it is outside the models. TLC evaluates all assumptions on every
run.

*The scheduler.* No property of the row is inductive alone. A tick in its `finally`
may set the row to error and wipe its token, so `ErrorIsQuiet` needs to know that no
other tick is at work then, which is the lock. So `IInv` has, beside the properties:
`HolderIsLocked` (a tick that is not over holds the advisory lock and carries a
token), `WorkingIsNoError` (no step works on a row in error) and `RefusedWasCalled`.
The lock part is inductive by itself (`LockStep`); the row part (`RowStep`) uses it
together with lemmas about the pure functions: `DueForState` is `Null` exactly when
nothing is asked for, a merge and a save never add an operation that nobody asked
for. `NewWorkKept` is `IInv` and one look at `StepSaves`. The refinement needs from
`IInv` that only the lock's holder calls WB: a step that begins, ends or dies then
changes `Serving` and nobody else's.

*Its pause.* While a pause lasts that began under the step's own token, no token is
out, the row is due when the pause is over and not before, it is not in cooldown, and
nobody works on it (`PaceInv`). The delicate step is a kick in the meantime: it plans
the row anew if it finds nothing due, no plan, or a cooldown that ends later. A kick
always asks for something (`KicksAsk`), so something is due; a plan there is, and no
cooldown; hence the pause stands.

*The archive.* `PassedDaysWereServed` says nothing of the step under way.
`ChunkIsAhead` does: its chunk ends where the cursor stands, so no later commit of
the step touches a day that was passed. `ChunkIsServed`: once the sales were asked
for, the chunk's last day is answered, covered or lost, which is what the cursor
needs to move by one day. `ChunkReachesPnl`: before it moves, what was loaded of the
chunk is in the report or in a message.

*The repair.* A row is marked complete at the end of a step, and true of its days
because from WB's answer on the days being served are loaded or lost
(`ServingIsLoaded`), whatever dashboards and requests write into the row meanwhile.

*The funnel's year.* Nothing keeps two chains apart, so the invariant speaks of each
chain alone: the days of its batch behind it are answered (`DaysBehindAreAnswered`),
whoever moves the row meanwhile; so whichever chain writes the cursor last writes a
true one. That a row which says running has a chain needs a count: messages and busy
workers together are no more than the clicks (`ChainsAreClicks`), which is where the
theorems about finite sets come in.

*Calls of WB.* Each way of asking keeps its own account of what is still to come:
articles that are neither in the answer nor left are those a 200 left out
(`HistoryGoesOn`), and what a report has delivered is all of its rows up to the mark
that the next page begins after (`SalesGoOn`). That the advertising adds up is a sum
over updates, each of which was split among the articles of its campaign; it is
regrouped once, by induction over the set of updates.

*The figures of a day.* Two workers may build one table at once, the second from
older inputs than the first. `OneIsOlder` orders them by when they began: an order
without cycles, in which any two are comparable. `OneCommits`: the database lets one
at a time through, and a commit that would repeat a key fails. The heart is
`Promised`. A table for which no recalculation is due, lost or in doubt either shows
what the inputs say, and then whoever still works on it has read the same inputs or
will be refused (`Shown`); or a worker with current inputs that nobody overtook will
write it, and everybody whose inputs are old began before that worker
(`OneWillShow`). That `pnl_daily` and `sku_daily` agree is then about numbers: the
rows of a report, summed at once, are the rows of each article, summed first
(`SumOfGroups`).

*The plan.* The forecast counts the days that passed and the pace on the days that
remain; it is true because the sum over the month's days is the sum over both parts.

*Ozon.* The owner's lock carries everything, and four layers rest on it.
`LockStep`: a worker inside a run holds the lock, and a worker that makes a call of
its own has no task (it gives the lock back when its call returns, which must not be
the lock of a run). `RunStep`: hence nobody inserts or retires a run while one is
worked on, so `OneActiveRun` holds, and what a worker takes up under the lock was
read under it and is not finished (`BegunIsNotFinished`, without which `DoneOnce`
fails). `CostStep`: the costs a worker has read are the owner's until its day is
saved (`ReadCostsAreCurrent`), because `set_product_cost` needs the same lock.
`NoGap`: a chunk, whether it is a call, a run or worked on, begins no later than the
day after `done` (`ChunksAdjoin`), and the days behind a worker were answered
(`DaysBehindAnswered`), so a run that finishes moves `done` over no gap. Calls that
were proposed from an older read only begin earlier.

*The money of an Ozon day.* `OzonHolds` is about any accruals, of any number of lines
and SKUs, in any order. The ledger is filled in by one operation after another, and
what an operation does depends on what the ledger holds already (a charge without a
SKU spoils the rows of all the SKUs known so far), so nothing can be said of it step
by step. The proof says instead that the ledger of the accruals taken is what the
ledgers of each of them *alone* come to. `Merges` states what "come to" means for two
ledgers: money, units, gaps and marks of each row add, an unknown amount or a mark
spreads, and what depends on the order (the rows of SKUs, once a posting lost its
SKU) is claimed only while no such mark stands. Every operation is shown to respect
it: done to a ledger that holds another, it leaves one that holds what it makes of the
empty ledger. From operations this climbs to lines, to an accrual's lines one after
another (`RunsMerge`, an induction over their number), to the null deliveries and to
the difference from the total.

What is left is to look at one accrual alone, and there line by line. Three things
are kept: `Firm` (what holds of every ledger: a SKU nobody named has no money, every
revenue is one the tax takes whole), `AddsUp` (if it is known what was paid, the
columns, the SKUs with what belongs to none, and the revenues of the SKUs come to it)
and `Says` (a row that is sound tells the money and the units of the SKU's own
lines). All three survive merging, and `Holds`, the inductive invariant, is that they
hold of the day with sums over the accruals taken, beside which mark stands because
of which accrual. `Tagged` follows the ids by which a SKU remembers who named it; with
`reconciled` they tell that a SKU's claim rests on legible accruals only.

The properties then follow from `Holds` alone. `MismatchesDoNotCancel`: differences
are not negative, so they sum to zero only if each is. `OrderDoesNotMatter`: two
ledgers that hold the same accruals are alike in all that is told (`Alike`), and the
ledger of another order also holds them, by induction over the subsets.
`ShownMarginsAgree` and `ProductsAddUpToTheDay`: margins are sums of balances,
costs and taxes; where all are shown, each of these is a sum over SKUs.

*Access to a store.* An invitation that a request holds by its row lock is pending
and held by no other (`LockInv`), so its acceptance is the only one and the first.
The promises to an owner whom nobody overtook rest on `ReadIsCurrent`: until then
what a request has read is still so. For the audit, the last line about a person
decides, and appending a line changes the last line of that person only.

*Billing.* A request that reports a payment carries one that was made
(`RequestsKnowTheirRows`; payments are numbered in the order of their making). The
request that holds the lock has read every invoice that is still to be paid
(`LockedKnowsIssued`): it cancels all of them but the one it uses again, so at most
one is open. What has no lock is the subscription, which every request reads, changes
in memory and flushes; until one is overtaken what it has read is still so, and one
that is about to shut a seller out has seen a paid time that is over
(`ReadIsStillSo`). That is why `PaidTimeIsKept` and the open door are promised until
then and no longer.

*The support bot.* A batch is stored update by update, so what the table says after
it is found by induction over the batch (`Tables` is a recursive function, the
induction goes over the sets 1..n). Telegram forgets what was stored before the
offset moves (`StoreIsAhead`). One copy of `run` finds rows and offset as it left
them (`OneCopy`), which is what edits and voices need. For `watch`, every mark that
is in the file or in somebody's hands is behind what was shown (`MarksAreCovered`).
Of the answers: a sender that claimed a row has it alone until it is finished
(`ClaimsAreExclusive`), and what Telegram took for a key is the beginning of the
text its sender carries, as long as the sender says it is (`DeliveryIsAsSaid`).

*Long texts.* `TextHolds` is about texts of any length and any limit. Each loop is
followed by induction over its interval. For `split`: the closed parts
and the open one say what was read, and each that a separator closed is shorter. For the hard
split: the buffer is narrow and has no blank, because a text that no space divides has
none once it is stripped. For the packing: what is flushed so far says what the parts
so far say, and every chunk is narrow; stripping then leaves the blank ones out and
takes no word from the others. What a text says is the sum of what its letters say
(`JoinedIs`), so cutting and joining preserve it. That `split_text` is a function at
all rests on the parts being shorter than the text (`CutsUptoExist`, `CutsAgree`);
then it is right for all texts by induction on their length.

*Product photos.* A run that is at work and was not orphaned is the job's, or was just
made by a request to start, because of what each request knows (`JobKnowsItsRun`): the
run it has read is there, and one it has stopped is at work no more, unless it was taken
up again and orphaned by that. What a task does suits the run it is about: before a run is
finished its main frames are there, before a series begins it is empty (`TasksFit`).
A run has one task, in the broker or at a worker, unless a message was repeated or a
chain outlived a stop (`OneTaskPerRun`); the series is whole and the only one because
of that.

*The AI tools.* In all four a task and a request meet over one row. Until one of them
is overtaken what each has read is still in the row (`ReadIsInTheRow` for the brief),
so the row it writes is the one it decided about. The offer index has a lock, which
its holder may lose by being slow, or never had because Redis did not answer: until
then one question holds it (`LockIsHeldByOne`), and until two work at once the points
of a version are missing only between the delete and the upsert of the one that works
(`PointsFollowTheWork`). Until a file comes between the two looks of a question, who
carries a text carries that of its version (`TextIsOfItsVersion`). Of the comparison:
an analysis on its way through the rule has seen the task that is open
(`AnalysisSeesTask`), and pointer and metrics are one commit, so a pointer is to the
last batch of its day, and a fetch that confirms its import finds one
(`BatchIsImported`), whatever happened to the imports before it.

*Only model-checked.* All liveness, which needs fairness and ENABLED. Where a proof
above needs induction over data, it is stated first-order, about the
set of numbers or of subsets for which the claim holds (`SetInduction`,
`SubsetInduction`), which the provers can instantiate.

## 6. What is not modelled

The assistant, the browser that logs in to Wildberries, the scripts that are run by
hand and the frontends; `PROJECT.json` gives the reason for each. Of modelled parts:
the parsing of single columns and dates of reports, currencies, the list of articles
of the combined report, charts; the legacy tasks that only old messages still run
(`sync_funnel`, `sync_funnel_tail_repair`, `sync_finance_backfill_step`,
`sync_finance_missing_range`), `_sales_finance_pace`, and of `dashboard.py`
`_repair_hollow_funnel_ytd`, which looks for a complete row whose cursor stands at
yesterday (a complete year ends with its cursor at 1 January), and
`_maybe_start_funnel_ytd_backfill`, which nothing calls; the turn of
the year of the Ozon backfill, its settings and the entry of operational expenses;
billing's reminders and the reservation of promo codes; the local mode of product
generation; updates of Telegram that are malformed or no messages, which the poller
skips (`poller.py` 127-141); thresholds of the analysis rules; the search and the answers of the
offer chat; messages users see; authentication. Processes outside the program (WB,
Ozon, YooKassa, Telegram, OpenAI, Redis, Celery's redelivery, PostgreSQL's locks)
appear by what the code can see of them.
