------------------------------- MODULE FunnelYear -------------------------------
(******************************************************************************)
(* The sales funnel of a year.  POST /sync/funnel/backfill-ytd queues         *)
(* sync_funnel_ytd_step, which asks Wildberries for a few days backwards from *)
(* yesterday, commits each, and queues itself for the rest.  What keeps two   *)
(* such chains apart is only a row that says running and was written in the   *)
(* last two minutes; a dashboard calls a row dead that was not written for    *)
(* half an hour.  Days are numbered from 1, the beginning of the year.        *)
(******************************************************************************)
EXTENDS Integers, FiniteSets

CONSTANTS
  FunnelWorkers,              \* Celery processes
  Yesterday,                  \* through
  WeekLen,                    \* days the history method is asked for
  FUNNEL_YTD_DAYS_PER_RUN,
  FUNNEL_YTD_HTTP_RETRY_CODES,
  MaxFigure,                  \* bound: a figure of funnel_daily
  MaxClicks,                  \* bound: clicks on the button
  FunnelFaults                \* bound: errors other than a refusal, deaths of workers

ASSUME FunnelYearAssumption ==
  /\ IsFiniteSet(FunnelWorkers)
  /\ {Yesterday, WeekLen, FUNNEL_YTD_DAYS_PER_RUN} \subseteq Nat \ {0}
  /\ {MaxFigure, MaxClicks, FunnelFaults} \subseteq Nat
  /\ FUNNEL_YTD_HTTP_RETRY_CODES \cap {"none", "retry_scheduled", "text"} = {}

VARIABLES
  ytd,        \* the row of funnel_backfill_state
  age,        \* how long ago it was written
  catalogue,  \* the seller has articles, sales or ads: _funnel_nm_ids finds some
  funnel,     \* funnel_daily by day: a count, 0 without a row
  chains,     \* sync_funnel_ytd_step messages in the broker
  ytdStep,    \* what each worker is about
  clicks, funnelFaults,
  answered,   \* history: days Wildberries has answered for, all articles
  best,       \* history: the highest count it has told of each day
  unshown,    \* history: days written since their sku_daily was last recalculated
  died        \* history: a worker died with a message

funnelHistory == <<answered, best, unshown, died>>
funnelVars == <<ytd, age, catalogue, funnel, chains, ytdStep, clicks, funnelFaults, funnelHistory>>

FunnelDays == 1..Yesterday
NoDay == 0
Resting == [pc |-> "idle"]
Busy(w) == ytdStep[w] # Resting

\* error_message.  A refusal is written as __retry_http__:code:n, three parts, and
\* _retry_http_parse reads four: n is never read back, so it is always 1, and the
\* limit of tries is never reached.
NoMarker == "none"
Markers == {NoMarker, "retry_scheduled", "text"} \cup FUNNEL_YTD_HTTP_RETRY_CODES
YtdRow == [status : {"idle", "running", "complete", "error"}, last : {NoDay} \cup FunnelDays,
           marker : Markers]

FunnelTypeOK ==
  /\ ytd \in YtdRow
  /\ age \in {"fresh", "old", "stuck"}
  /\ catalogue \in BOOLEAN
  /\ funnel \in [FunnelDays -> 0..MaxFigure] /\ best \in [FunnelDays -> 0..MaxFigure]
  /\ chains \in 0..MaxClicks
  /\ \A w \in FunnelWorkers :
       \/ ytdStep[w] \in {Resting, [pc |-> "plan"]}
       \/ /\ ytdStep[w] \in [pc : {"day", "end"}, day : FunnelDays, low : FunnelDays, high : FunnelDays]
          /\ ytdStep[w].low <= ytdStep[w].day /\ ytdStep[w].day <= ytdStep[w].high
  /\ clicks \in 0..MaxClicks /\ funnelFaults \in 0..FunnelFaults
  /\ answered \subseteq FunnelDays /\ unshown \subseteq FunnelDays /\ died \in BOOLEAN

FunnelInit ==
  /\ ytd = [status |-> "idle", last |-> NoDay, marker |-> NoMarker] /\ age = "stuck"
  /\ catalogue \in BOOLEAN
  /\ funnel = [d \in FunnelDays |-> 0] /\ best = funnel
  /\ chains = 0
  /\ ytdStep = [w \in FunnelWorkers |-> Resting]
  /\ clicks = 0 /\ funnelFaults = 0
  /\ answered = {} /\ unshown = {} /\ died = FALSE

--------------------------------------------------------------------------------
FunnelFault == funnelFaults < FunnelFaults /\ funnelFaults' = funnelFaults + 1

\* An UPDATE is sent, and updated_at moves, when a column changes.
Update(row) ==
  /\ ytd' = row
  /\ age' = IF row = ytd THEN age ELSE "fresh"

Rest(w) == ytdStep' = [ytdStep EXCEPT ![w] = Resting]

\* trigger_funnel_backfill_ytd: a row that is running and fresh answers for itself.
Click ==
  /\ clicks < MaxClicks /\ clicks' = clicks + 1
  /\ chains' = IF ytd.status = "running" /\ age = "fresh" THEN chains ELSE chains + 1
  /\ UNCHANGED <<ytd, age, catalogue, funnel, ytdStep, funnelFaults, funnelHistory>>

\* A year that is complete without a single row is taken up again.
Hollow ==
  ytd.status = "complete" /\ ytd.last = 1 /\ catalogue /\ \A d \in FunnelDays : funnel[d] = 0
AsFound == IF Hollow THEN [status |-> "idle", last |-> NoDay, marker |-> NoMarker] ELSE ytd
IsComplete(row) == row.status = "complete" /\ row.last = 1

\* Without articles the step tries once more in ninety seconds, then gives up.
NothingToAsk(w) ==
  /\ ~Busy(w) /\ chains > 0
  /\ \/ IsComplete(AsFound) /\ UNCHANGED <<ytd, age>> /\ chains' = chains - 1
     \/ /\ ~IsComplete(AsFound) /\ ~catalogue
        /\ IF ytd.marker = "retry_scheduled"
             THEN /\ Update([ytd EXCEPT !.status = "idle", !.marker = NoMarker])
                  /\ chains' = chains - 1
             ELSE /\ Update([ytd EXCEPT !.status = "idle", !.marker = "retry_scheduled"])
                  /\ UNCHANGED chains
  /\ UNCHANGED <<catalogue, funnel, ytdStep, clicks, funnelFaults, funnelHistory>>

YtdBegins(w) ==
  /\ ~Busy(w) /\ chains > 0 /\ chains' = chains - 1
  /\ ~IsComplete(AsFound) /\ catalogue
  /\ Update([AsFound EXCEPT !.status = "running"])
  /\ ytdStep' = [ytdStep EXCEPT ![w] = [pc |-> "plan"]]
  /\ UNCHANGED <<catalogue, funnel, clicks, funnelFaults, funnelHistory>>

\* _funnel_insert_only: a count never falls.
Upsert(days, v) ==
  /\ funnel' = [d \in FunnelDays |-> IF d \in days /\ v > funnel[d] THEN v ELSE funnel[d]]
  /\ best' = [d \in FunnelDays |-> IF d \in days /\ v > best[d] THEN v ELSE best[d]]

Changed == {d \in FunnelDays : funnel'[d] # funnel[d]}
Week == {d \in FunnelDays : d > Yesterday - WeekLen}
Cursor == IF ytd.last = NoDay THEN Yesterday ELSE ytd.last - 1
Oldest(day) == IF day > FUNNEL_YTD_DAYS_PER_RUN THEN day - FUNNEL_YTD_DAYS_PER_RUN + 1 ELSE 1

\* Without a row of yesterday the last week is asked for first; then the row,
\* read again, tells where to go on, whoever moved it meanwhile.
YtdPlans(w) ==
  /\ ytdStep[w].pc = "plan"
  /\ \E v \in 0..MaxFigure :
       /\ funnel[Yesterday] # 0 => v = 0
       /\ Upsert(Week, v)
  /\ unshown' = unshown \cup Changed
  /\ IF Cursor < 1
       THEN /\ Update([ytd EXCEPT !.status = "complete", !.marker = NoMarker])
            /\ Rest(w)
       ELSE /\ ytdStep' = [ytdStep EXCEPT ![w] =
                 [pc |-> "day", day |-> Cursor, low |-> Oldest(Cursor), high |-> Cursor]]
            /\ UNCHANGED <<ytd, age>>
  /\ UNCHANGED <<catalogue, chains, clicks, funnelFaults, answered, died>>

\* Every chunk of articles was answered with 200: the day is closed.
DayIsServed(w) ==
  /\ ytdStep[w].pc = "day"
  /\ LET s == ytdStep[w] IN
     /\ \E v \in 0..MaxFigure : Upsert({s.day}, v)
     /\ answered' = answered \cup {s.day}
     /\ ytd' = [ytd EXCEPT !.last = s.day, !.marker = NoMarker] /\ age' = "fresh"
     /\ ytdStep' = [ytdStep EXCEPT ![w] =
          IF s.day > s.low THEN [s EXCEPT !.day = @ - 1] ELSE [s EXCEPT !.pc = "end"]]
  /\ unshown' = unshown \cup Changed
  /\ UNCHANGED <<catalogue, chains, clicks, funnelFaults, died>>

\* The days of the batch run backwards, and recalculate_sku_daily takes its first for the
\* start of the range: no day of a longer batch lies in it.
Recalculated(s) == s.high..s.low

\* The batch is recalculated; the row, read again, ends the chain or not.
BatchEnds(w) ==
  /\ ytdStep[w].pc = "end"
  /\ unshown' = unshown \ Recalculated(ytdStep[w])
  /\ IF ytd.last = 1
       THEN /\ Update([ytd EXCEPT !.status = "complete", !.marker = NoMarker])
            /\ UNCHANGED chains
       ELSE chains' = chains + 1 /\ UNCHANGED <<ytd, age>>
  /\ Rest(w)
  /\ UNCHANGED <<catalogue, funnel, clicks, funnelFaults, answered, best, died>>

Asking(w) == ytdStep[w].pc = "day" \/ (ytdStep[w].pc = "plan" /\ funnel[Yesterday] = 0)

\* A mistake: a refused day is closed like one that was answered.
ClosesRefusedDay(w, code) ==
  /\ ytdStep[w].pc = "day"
  /\ Update([ytd EXCEPT !.last = ytdStep[w].day])
  /\ chains' = chains + 1
  /\ Rest(w)
  /\ UNCHANGED <<catalogue, funnel, clicks, funnelFaults, funnelHistory>>

\* An HTTP error that may pass, as often as Wildberries likes: the chain asks again.
\* A row refused with the same code as before is not written again, and grows older.
YtdRefused(w, code) ==
  /\ Asking(w)
  /\ Update([ytd EXCEPT !.status = "running", !.marker = code])
  /\ chains' = chains + 1
  /\ Rest(w)
  /\ UNCHANGED <<catalogue, funnel, clicks, funnelFaults, funnelHistory>>

\* Any other exception ends the chain.
YtdFails(w) ==
  /\ Busy(w) /\ FunnelFault
  /\ Update([ytd EXCEPT !.status = "error", !.marker = "text"])
  /\ Rest(w)
  /\ UNCHANGED <<catalogue, funnel, chains, clicks, funnelHistory>>

\* The message was acknowledged when it was taken.
YtdDies(w) ==
  /\ Busy(w) /\ FunnelFault
  /\ died' = TRUE
  /\ Rest(w)
  /\ UNCHANGED <<ytd, age, catalogue, funnel, chains, clicks, answered, best, unshown>>

\* A mistake: a row that was just written is taken for a dead one.
RepairsFresh ==
  /\ ytd.status = "running" /\ age = "fresh"
  /\ Update([ytd EXCEPT !.status = "idle", !.marker = NoMarker])
  /\ UNCHANGED <<catalogue, funnel, chains, ytdStep, clicks, funnelFaults, funnelHistory>>

\* _repair_stuck_funnel_ytd_running, on every read of the dashboard.
RepairsStuck ==
  /\ ytd.status = "running" /\ age = "stuck"
  /\ Update([ytd EXCEPT !.status = "idle", !.marker = NoMarker])
  /\ UNCHANGED <<catalogue, funnel, chains, ytdStep, clicks, funnelFaults, funnelHistory>>

MinutesPass ==
  /\ age # "stuck" /\ age' = IF age = "fresh" THEN "old" ELSE "stuck"
  /\ UNCHANGED <<ytd, catalogue, funnel, chains, ytdStep, clicks, funnelFaults, funnelHistory>>

\* The first sales bring articles.
CatalogueFills ==
  /\ ~catalogue /\ catalogue' = TRUE
  /\ UNCHANGED <<ytd, age, funnel, chains, ytdStep, clicks, funnelFaults, funnelHistory>>

YtdStep(w) ==
  NothingToAsk(w) \/ YtdBegins(w) \/ YtdPlans(w) \/ DayIsServed(w) \/ BatchEnds(w)
YtdFaults(w) ==
  (\E code \in FUNNEL_YTD_HTTP_RETRY_CODES : YtdRefused(w, code)) \/ YtdFails(w) \/ YtdDies(w)
FunnelNext ==
  \/ Click \/ RepairsStuck \/ MinutesPass \/ CatalogueFills
  \/ \E w \in FunnelWorkers : YtdStep(w) \/ YtdFaults(w)
FunnelSpec == FunnelInit /\ [][FunnelNext]_funnelVars

\* Workers go on, minutes pass, and somebody looks at the dashboard.
FunnelFairness ==
  /\ \A w \in FunnelWorkers : WF_funnelVars(YtdStep(w))
  /\ WF_funnelVars(MinutesPass) /\ WF_funnelVars(RepairsStuck)

--------------------------------------------------------------------------------
(* No day is passed over: whatever chains overtake each other, fail or die,   *)
(* every day from last_completed_date to yesterday was answered in full.      *)
PassedFunnelDaysAreAnswered ==
  /\ ytd.last # NoDay => ytd.last..Yesterday \subseteq answered
  /\ ytd.status = "complete" => answered = FunnelDays

(* A partial answer never hides a fuller one, before it or after it.          *)
FunnelKeepsBest == funnel = best

(* A row that says running has a chain behind it, unless a worker died.       *)
RunningHasChain ==
  ytd.status = "running" => died \/ chains > 0 \/ \E w \in FunnelWorkers : Busy(w)

FunnelInv ==
  FunnelTypeOK /\ PassedFunnelDaysAreAnswered /\ FunnelKeepsBest /\ RunningHasChain

\* A refusal that writes the row, and so keeps it young.
RefusedAnew ==
  \E w \in FunnelWorkers, code \in FUNNEL_YTD_HTTP_RETRY_CODES : YtdRefused(w, code) /\ ytd' # ytd

(* A row does not say running for ever, though its worker died or the same    *)
(* refusal comes back without end: the dashboard finds it old and sets it     *)
(* back.  Only refusals that alternate between codes keep it young for ever.  *)
FunnelRunEnds ==
  []<><<RefusedAnew>>_funnelVars \/ (ytd.status = "running" ~> ytd.status # "running")

(* What the funnel wrote is recalculated once its batch is done: when the     *)
(* year is complete, sku_daily knows every day of funnel_daily.               *)
FunnelReachesSku == ytd.status = "complete" /\ ~died => unshown = {}
================================================================================
