------------------------------ MODULE DailyFigures ------------------------------
(******************************************************************************)
(* One day of one seller: what is imported (raw_sales, raw_ads), what the     *)
(* seller enters (costs, expenses) and the two tables a dashboard reads,      *)
(* pnl_daily and sku_daily, which recalculate_pnl and recalculate_sku_daily   *)
(* build from all of it.  Each is a task of its own that reads, deletes the   *)
(* day and inserts it; nothing keeps two of a kind apart but the unique keys. *)
(* Money is in units that the tax rate divides without remainder.             *)
(******************************************************************************)
EXTENDS Integers, Sequences, FiniteSets, SequencesExt, Functions

CONSTANTS
  FigureWorkers,    \* Celery processes
  SalesReports,     \* days of sales Wildberries may tell: sets of rows
  AdReports,        \* days of advertising: functions of article to spend
  Costs,            \* cost prices a seller enters
  ExpenseSums,      \* operational expenses of the day
  TAX_RATE,         \* percent, until the seller saves another
  TaxRates,         \* those a seller saves
  MaxEvents,        \* bound: imports, saves and clicks
  FigureFaults      \* bound: deaths of workers

\* What is sold or advertised without an article.
NoArticle == 0

ASSUME DailyFiguresAssumption ==
  /\ {TAX_RATE, MaxEvents, FigureFaults} \cup TaxRates \subseteq Nat
  /\ Costs \subseteq Nat /\ ExpenseSums \subseteq Nat
  /\ \A report \in SalesReports : IsFiniteSet(report) /\ \A r \in report :
       /\ r.nm \in Nat /\ r.doc \in {"sale", "return", "other"}
       /\ {r.price, r.pay, r.fees} \subseteq Int
       /\ \A rate \in TaxRates \cup {TAX_RATE} : (r.price * rate) % 100 = 0
       /\ r.quantity \in Nat \ {0}  \* a row without one counts as one
  /\ \A report \in AdReports :
       IsFiniteSet(DOMAIN report) /\ DOMAIN report \subseteq Nat /\ Range(report) \subseteq Nat

VARIABLES
  inputs,     \* raw_sales, raw_ads, articles with costs, expenses, tax rate, orders of the funnel
  tables,     \* pnl_daily and sku_daily of the day: sets of rows
  todo,       \* recalculations in the broker, by table
  job,        \* what each worker is about
  events, figureFaults,
  unsure       \* history: tables that need not show the inputs, see below

figureVars == <<inputs, tables, todo, job, events, figureFaults, unsure>>

Tables == {"pnl", "sku"}
Articles == ({r.nm : r \in UNION SalesReports} \cup UNION {DOMAIN a : a \in AdReports}) \ {NoArticle}
CostOf(in, nm) == IF nm \in DOMAIN in.cost THEN in.cost[nm] ELSE 0
NoJob == [pc |-> "idle"]

--------------------------------------------------------------------------------
\* The arithmetic of both tasks.
SignOf(r) == CASE r.doc = "sale" -> 1 [] r.doc = "return" -> -1 [] OTHER -> 0
\* A mistake: a day with more returns than sales has no tax.
TaxOfGain(revenue, tax_rate) == IF revenue > 0 THEN (revenue * tax_rate) \div 100 ELSE 0
wb_tax(revenue, tax_rate) == (revenue * tax_rate) \div 100

\* Revenue, commission, fees, cost of goods, tax and margin of some rows of sales and
\* some spend; fees stands for logistics, penalties and storage.
Figures(in, rows, spend, expenses) ==
  LET revenue == SumFunctionOnSet([r \in rows |-> SignOf(r) * r.price], rows)
      commission == revenue - SumFunctionOnSet([r \in rows |-> SignOf(r) * r.pay], rows)
      fees == SumFunctionOnSet([r \in rows |-> r.fees], rows)
      cogs == SumFunctionOnSet([r \in rows |-> SignOf(r) * CostOf(in, r.nm) * r.quantity], rows)
      tax == wb_tax(revenue, in.rate)
  IN [revenue |-> revenue, commission |-> commission, fees |-> fees, ads |-> spend,
      cogs |-> cogs, tax |-> tax, expenses |-> expenses,
      margin |-> revenue - commission - fees - spend - cogs - tax - expenses]

SpendOf(ads, nms) == SumFunctionOnSet(ads, nms \cap DOMAIN ads)

\* recalculate_pnl: every row counts; a day without anything has no row.
PnlOf(in) ==
  IF in.sales = {} /\ DOMAIN in.ads = {} /\ in.expenses = << >> THEN {}
  ELSE {Figures(in, in.sales, SpendOf(in.ads, DOMAIN in.ads),
                SumFunctionOnSet(in.expenses, DOMAIN in.expenses))}

\* recalculate_sku_daily: what has no article belongs to none.
SkuOf(in) ==
  LET sold == {r.nm : r \in in.sales} \ {NoArticle}
      advertised == DOMAIN in.ads \ {NoArticle}
      row(nm) == [nm |-> nm, orders |-> IF nm \in in.ordered THEN 1 ELSE 0,
                  figures |-> Figures(in, {r \in in.sales : r.nm = nm}, SpendOf(in.ads, {nm}), 0)]
  IN {row(nm) : nm \in sold \cup advertised \cup in.ordered}

Built(table, in) == IF table = "pnl" THEN PnlOf(in) ELSE SkuOf(in)

--------------------------------------------------------------------------------
FigureTypeOK ==
  /\ inputs.sales \in SalesReports \cup {{}}
  /\ DOMAIN inputs.cost \subseteq Articles /\ Range(inputs.cost) \subseteq Costs \cup {0}
  /\ inputs.expenses \in Seq(ExpenseSums) /\ inputs.rate \in TaxRates \cup {TAX_RATE}
  /\ inputs.ordered \subseteq Articles
  /\ DOMAIN tables = Tables /\ Cardinality(tables["pnl"]) <= 1
  /\ \A nm \in Articles : Cardinality({r \in tables["sku"] : r.nm = nm}) <= 1
  /\ todo \in [Tables -> Nat] /\ unsure \subseteq Tables
  /\ events \in 0..MaxEvents /\ figureFaults \in 0..FigureFaults

FiguresInit ==
  /\ inputs = [sales |-> {}, ads |-> << >>, cost |-> << >>, expenses |-> << >>,
                rate |-> TAX_RATE, ordered |-> {}]
  /\ tables = [t \in Tables |-> {}]
  /\ todo = [t \in Tables |-> 0]
  /\ job = [w \in FigureWorkers |-> NoJob]
  /\ events = 0 /\ figureFaults = 0 /\ unsure = {}

Event == events < MaxEvents /\ events' = events + 1
Becomes(w, j) == job' = [job EXCEPT ![w] = j]
Enqueued(t) == todo' = [todo EXCEPT ![t] = @ + 1]
\* What changes now is read by no recalculation that is queued already.
Unread == {t \in Tables : todo[t] = 0}

\* sync_sales and sync_ads replace the day and commit.  A report without a row
\* changes nothing and queues nothing.
ImportStores(w) ==
  /\ job[w] = NoJob /\ Event
  /\ \/ \E report \in SalesReports \ {{}} : inputs' = [inputs EXCEPT !.sales = report]
     \/ \E report \in AdReports : DOMAIN report # {} /\ inputs' = [inputs EXCEPT !.ads = report]
  /\ Becomes(w, [pc |-> "articles"])
  /\ unsure' = unsure \cup Unread
  /\ UNCHANGED <<tables, todo, figureFaults>>

\* _ensure_articles_from_raw: new articles have no cost price.
ArticlesEnsured(w) ==
  /\ job[w].pc = "articles"
  /\ LET nms == ({r.nm : r \in inputs.sales} \cup DOMAIN inputs.ads) \ {NoArticle} IN
     inputs' = [inputs EXCEPT !.cost =
                  [nm \in DOMAIN @ \cup nms |-> IF nm \in DOMAIN @ THEN @[nm] ELSE 0]]
  /\ Becomes(w, [pc |-> "queue_pnl"])
  /\ UNCHANGED <<tables, todo, events, figureFaults, unsure>>

QueueRecalculation(w) ==
  /\ \/ job[w].pc = "queue_pnl" /\ Enqueued("pnl") /\ Becomes(w, [pc |-> "queue_sku"])
        /\ unsure' = unsure \ {"pnl"}
     \/ job[w].pc = "queue_sku" /\ Enqueued("sku") /\ Becomes(w, NoJob)
        /\ unsure' = unsure \ {"sku"}
  /\ UNCHANGED <<inputs, tables, events, figureFaults>>

\* trigger_recalculate; the broker may refuse the second message.
AskForRecalculation ==
  /\ Event
  /\ \E queued \in {Tables, {"pnl"}} :
       /\ todo' = [t \in Tables |-> IF t \in queued THEN todo[t] + 1 ELSE todo[t]]
       /\ unsure' = unsure \ queued
  /\ UNCHANGED <<inputs, tables, job, figureFaults>>

\* What is saved without asking for a recalculation.
Saved ==
  /\ Event
  /\ unsure' = unsure \cup Unread
  /\ UNCHANGED <<tables, todo, job, figureFaults>>

\* save_articles_cost, for articles that are known.
CostIsSaved ==
  /\ \E nm \in DOMAIN inputs.cost, c \in Costs : inputs' = [inputs EXCEPT !.cost[nm] = c]
  /\ Saved
ExpenseIsCreated == \E x \in ExpenseSums : inputs' = [inputs EXCEPT !.expenses = Append(@, x)] /\ Saved
\* An expense may move to another day; Celery is not told of that day either.
ExpenseIsUpdated ==
  /\ \E i \in DOMAIN inputs.expenses :
       \/ \E x \in ExpenseSums : inputs' = [inputs EXCEPT !.expenses[i] = x]
       \/ inputs' = [inputs EXCEPT !.expenses = RemoveAt(@, i)]
  /\ Saved
TaxRateIsSaved == \E rate \in TaxRates : inputs' = [inputs EXCEPT !.rate = rate] /\ Saved
\* A step of the funnel's year that is refused halfway.
FunnelIsWritten == \E nm \in Articles : inputs' = [inputs EXCEPT !.ordered = @ \cup {nm}] /\ Saved

--------------------------------------------------------------------------------
OnTable(t) == {v \in FigureWorkers : "table" \in DOMAIN job[v] /\ job[v].table = t}
At(t, pc) == {v \in OnTable(t) : job[v].pc = pc}

\* The jobs without that of w, which no later one of w is taken for.
Without(w) ==
  [v \in FigureWorkers |->
     IF v = w THEN NoJob
     ELSE IF "older" \in DOMAIN job[v] THEN [job[v] EXCEPT !.older = @ \ {w}] ELSE job[v]]

\* Costs and expenses are read first, what was imported after them: two statements see
\* two states of the database.
RecalcBegins(w) ==
  /\ job[w] = NoJob
  /\ \E t \in Tables :
       /\ todo[t] > 0 /\ todo' = [todo EXCEPT ![t] = @ - 1]
       /\ Becomes(w, [pc |-> "reads", table |-> t, in |-> inputs, older |-> OnTable(t),
                      overtaken |-> FALSE, blind |-> FALSE])
  /\ UNCHANGED <<inputs, tables, events, figureFaults, unsure>>

RecalcReads(w) ==
  /\ job[w].pc = "reads"
  /\ Becomes(w, [job[w] EXCEPT !.pc = "deletes", !.in.sales = inputs.sales, !.in.ads = inputs.ads,
                               !.in.ordered = inputs.ordered])
  /\ UNCHANGED <<inputs, tables, todo, events, figureFaults, unsure>>

\* The key of a row: the day, in sku_daily with its article.
KeysOf(t, rows) == IF t = "pnl" THEN {t : r \in rows} ELSE {r.nm : r \in rows}
Own(w) == Built(job[w].table, job[w].in)
\* What was committed while its DELETE waited was not deleted by it.
Unseen(w) == IF job[w].blind THEN tables[job[w].table] ELSE {}

\* The rows of the day are deleted and new ones inserted, not committed yet.  A
\* transaction that did so before makes it wait; a key that one brought refuses it.
RecalcWrites(w) ==
  LET t == job[w].table IN
  /\ job[w].pc \in {"deletes", "waits"}
  /\ \/ /\ job[w].pc = "deletes" /\ At(t, "commits") # {}
        /\ Becomes(w, [job[w] EXCEPT !.pc = "waits"]) /\ UNCHANGED unsure
     \/ /\ At(t, "commits") = {} /\ KeysOf(t, Unseen(w)) \cap KeysOf(t, Own(w)) = {}
        /\ Becomes(w, [job[w] EXCEPT !.pc = "commits"]) /\ UNCHANGED unsure
     \/ /\ At(t, "commits") = {} /\ KeysOf(t, Unseen(w)) \cap KeysOf(t, Own(w)) # {}
        /\ job' = Without(w)
        /\ unsure' = IF job[w].overtaken THEN unsure ELSE unsure \cup {t}
  /\ UNCHANGED <<inputs, tables, todo, events, figureFaults>>

\* Those that began to read before this one will bring older figures back.
RecalcCommits(w) ==
  /\ job[w].pc = "commits"
  /\ LET t == job[w].table IN
     /\ tables' = [tables EXCEPT ![t] = Own(w) \cup Unseen(w)]
     /\ job' = [v \in FigureWorkers |->
          IF v \in OnTable(t) \ {w}
            THEN [Without(w)[v] EXCEPT !.overtaken = @ \/ v \in job[w].older,
                                !.blind = @ \/ v \in At(t, "waits")]
          ELSE Without(w)[v]]
     /\ unsure' = IF job[w].overtaken \/ Unseen(w) # {} THEN unsure \cup {t} ELSE unsure
  /\ UNCHANGED <<inputs, todo, events, figureFaults>>

\* Messages are acknowledged when they are taken; an exception ends a task as well.
FigureWorkerDies(w) ==
  /\ job[w] # NoJob /\ figureFaults < FigureFaults /\ figureFaults' = figureFaults + 1
  /\ unsure' = IF "table" \in DOMAIN job[w] THEN unsure \cup {job[w].table} ELSE unsure
  /\ job' = Without(w)
  /\ UNCHANGED <<inputs, tables, todo, events>>

FiguresNext ==
  \/ AskForRecalculation \/ CostIsSaved \/ ExpenseIsCreated \/ ExpenseIsUpdated
  \/ TaxRateIsSaved \/ FunnelIsWritten
  \/ \E w \in FigureWorkers :
       \/ ImportStores(w) \/ ArticlesEnsured(w) \/ QueueRecalculation(w)
       \/ RecalcBegins(w) \/ RecalcReads(w) \/ RecalcWrites(w) \/ RecalcCommits(w)
       \/ FigureWorkerDies(w)
FiguresSpec == FiguresInit /\ [][FiguresNext]_figureVars

--------------------------------------------------------------------------------
Quiet(t) == todo[t] = 0 /\ OnTable(t) = {} /\ t \notin unsure

(* Once its recalculations are done, a table shows what the inputs say now,   *)
(* however imports, clicks and workers overlapped; unless a later save queued *)
(* none, one was lost, or an older one was the last to write.                 *)
FiguresAreCurrent == \A t \in Tables : Quiet(t) => tables[t] = Built(t, inputs)

(* The two tables tell one story: the margin of the day, its expenses apart,  *)
(* is the margin of the articles and of what belongs to no article.           *)
SkuAgreesWithPnl ==
  Quiet("pnl") /\ Quiet("sku") =>
    LET nobody == Figures(inputs, {r \in inputs.sales : r.nm = NoArticle},
                          SpendOf(inputs.ads, {NoArticle}), 0)
    IN SumFunctionOnSet([r \in tables["pnl"] |-> r.margin + r.expenses], tables["pnl"])
         = SumFunctionOnSet([r \in tables["sku"] |-> r.figures.margin], tables["sku"]) + nobody.margin

FiguresInv == FigureTypeOK /\ FiguresAreCurrent /\ SkuAgreesWithPnl
================================================================================
