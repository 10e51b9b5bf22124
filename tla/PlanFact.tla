-------------------------------- MODULE PlanFact --------------------------------
(******************************************************************************)
(* A month of the plan-fact report: pnl_daily and the orders of the funnel    *)
(* come in day by day, a recalculation may write any day again, the owner     *)
(* saves plans, and get_plan_fact_months tells fact, forecast and how much of *)
(* the plan they are.  A forecast is a fraction: <<sum, days>>.  tax stands   *)
(* for penalties and operational expenses too, commission for the costs that  *)
(* are read with the revenue.                                                 *)
(******************************************************************************)
EXTENDS Integers, FiniteSets, Functions

CONSTANTS
  MonthLen,      \* days of the month
  PnlFigures,    \* what a day may come to: records of revenue, commission and tax
  OrderSums,     \* what is ordered on a day
  Plans,         \* what the owner may save: functions of metrics to numbers
  MaxWrites      \* bound: rows written and plans saved

PlanMetrics == {"revenue", "commission", "commission_pct"}
PnlMetrics == {"revenue", "commission", "tax", "margin"}
ASSUME PlanFactAssumption ==
  /\ MonthLen \in Nat \ {0} /\ MaxWrites \in Nat /\ OrderSums \subseteq Nat
  /\ PnlFigures \subseteq [revenue : Int, commission : Int, tax : Int]
  /\ \A p \in Plans : DOMAIN p \subseteq PlanMetrics /\ Range(p) \subseteq Nat

VARIABLES
  today,       \* 0 before the month, MonthLen + 1 after it
  pnl,         \* rows of pnl_daily by day, at most one each
  orders,      \* order_sum of funnel_daily by day
  plan,        \* monthly_plan of the month
  writes,
  savedApart   \* history: the revenue or the percent was last saved without the other

planVars == <<today, pnl, orders, plan, writes, savedApart>>

MonthDays == 1..MonthLen

PlanInit ==
  /\ today \in 0..MonthLen
  /\ pnl = [d \in MonthDays |-> {}] /\ orders = [d \in MonthDays |-> 0]
  /\ plan = << >> /\ writes = 0 /\ savedApart = FALSE

--------------------------------------------------------------------------------
\* Expenses may be entered for days to come, so any day may have a row.
RowIsWritten ==
  /\ writes < MaxWrites /\ writes' = writes + 1
  /\ \E d \in MonthDays :
       \/ \E r \in PnlFigures : pnl' = [pnl EXCEPT ![d] = {r}] /\ UNCHANGED orders
       \/ pnl' = [pnl EXCEPT ![d] = {}] /\ UNCHANGED orders
       \/ \E o \in OrderSums : orders' = [orders EXCEPT ![d] = o] /\ UNCHANGED pnl
  /\ UNCHANGED <<today, plan, savedApart>>

DayPasses ==
  /\ today <= MonthLen /\ today' = today + 1
  /\ UNCHANGED <<pnl, orders, plan, writes, savedApart>>

\* _derive_numeric_plans_from_revenue: with a revenue, percents become sums.
Derived(values) ==
  IF {"revenue", "commission_pct"} \subseteq DOMAIN values
    THEN [k \in DOMAIN values \cup {"commission"} |->
            IF k = "commission" THEN (values["revenue"] * values["commission_pct"]) \div 100
            ELSE values[k]]
  ELSE values

\* save_plan_fact_month: what is not sent stays.
PlanIsSaved ==
  /\ writes < MaxWrites /\ writes' = writes + 1
  /\ \E values \in Plans :
       LET sent == Derived(values) IN
       /\ plan' = [k \in DOMAIN plan \cup DOMAIN sent |-> IF k \in DOMAIN sent THEN sent[k] ELSE plan[k]]
       /\ savedApart' = IF {"revenue", "commission_pct"} \subseteq DOMAIN values THEN FALSE
                        ELSE savedApart \/ DOMAIN values # {}
  /\ UNCHANGED <<today, pnl, orders>>

PlanNext == RowIsWritten \/ DayPasses \/ PlanIsSaved
PlanSpec == PlanInit /\ [][PlanNext]_planVars

--------------------------------------------------------------------------------
\* get_plan_fact_months
FigureOf(r, m) == IF m = "margin" THEN r.revenue - r.commission - r.tax ELSE r[m]
\* A day without a row comes to nothing.
DayFigure(m, d) == SumFunctionOnSet([r \in pnl[d] |-> FigureOf(r, m)], pnl[d])
OverDays(m, days) == SumFunctionOnSet([d \in days |-> DayFigure(m, d)], days)
OrdersOver(days) == SumFunctionOnSet(orders, days)

Fact(m) == IF m = "orders_sum" THEN OrdersOver(MonthDays) ELSE OverDays(m, MonthDays)

\* Two ways to the days before today: the rows that were read, one by one, and a query up to
\* yesterday.  Orders count on days that have a row.
FactToYesterday(m) ==
  LET passed == {d \in MonthDays : d < today}
      yesterday == IF today - 1 < MonthLen THEN today - 1 ELSE MonthLen
  IN CASE m = "orders_sum" -> OrdersOver({d \in passed : pnl[d] # {}})
       [] m = "tax" -> OverDays("tax", 1..yesterday)
       [] OTHER -> OverDays(m, passed)

\* A mistake: today counts as a day that has passed.
TodayHasPassed == IF today < MonthLen THEN today ELSE MonthLen
PassedDays == IF today - 1 < MonthLen THEN today - 1 ELSE MonthLen
RemainingDays == Cardinality({d \in MonthDays : d >= today})

_forecast_total_for_month(m) ==
  IF today = 0 \/ PassedDays <= 0 THEN <<FactToYesterday(m), 1>>
  ELSE <<FactToYesterday(m) * PassedDays + FactToYesterday(m) * RemainingDays, PassedDays>>

--------------------------------------------------------------------------------
PlanTypeOK ==
  /\ today \in 0..MonthLen + 1
  /\ pnl \in [MonthDays -> {{}} \cup {{r} : r \in PnlFigures}]
  /\ orders \in [MonthDays -> OrderSums \cup {0}]
  /\ DOMAIN plan \subseteq PlanMetrics /\ writes \in 0..MaxWrites

(* The forecasts of a month fit together like its days: that of the margin is *)
(* that of the revenue less those of its costs, though they are read in       *)
(* different queries.                                                         *)
ForecastsAddUp ==
  LET f(m) == _forecast_total_for_month(m) IN
  /\ \A m \in PnlMetrics : f(m)[2] = f("margin")[2]
  /\ f("margin")[1] = f("revenue")[1] - f("commission")[1] - f("tax")[1]

(* A month that is over forecasts what it came to, and one whose days were    *)
(* all alike so far goes on like that.                                        *)
PastAndPace ==
  \A m \in PnlMetrics : LET f == _forecast_total_for_month(m) IN
    /\ today > MonthLen => f[1] = Fact(m) * f[2]
    /\ \A r \in PnlFigures :
         today > 1 /\ (\A d \in MonthDays : d < today => pnl[d] = {r})
           => f[1] = FigureOf(r, m) * MonthLen * f[2]

(* Today and the days to come, which are not whole, change no forecast.       *)
OnlyPassedDaysForecast ==
  (\A d \in MonthDays : d < today => pnl[d] = {})
    => \A m \in PnlMetrics \cup {"orders_sum"} : _forecast_total_for_month(m)[1] = 0

(* The planned sum is the planned percent of the planned revenue, unless one  *)
(* of them was saved without the other.                                       *)
PlannedSumsAgree ==
  {"revenue", "commission_pct"} \subseteq DOMAIN plan /\ ~savedApart
    => /\ "commission" \in DOMAIN plan
       /\ plan["commission"] = (plan["revenue"] * plan["commission_pct"]) \div 100

PlanFactInv ==
  PlanTypeOK /\ ForecastsAddUp /\ PastAndPace /\ OnlyPassedDaysForecast /\ PlannedSumsAgree
================================================================================
