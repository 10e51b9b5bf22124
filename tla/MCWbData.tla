-------------------------------- MODULE MCWbData --------------------------------
(******************************************************************************)
(* Small instances of what brings in a seller's data and makes figures of it: *)
(* the repair of missing days (FinanceRepair), the year of the funnel         *)
(* (FunnelYear), the client of Wildberries (WbClient), the tables of a day    *)
(* (DailyFigures), the plan of a month (PlanFact) and a day of Ozon's         *)
(* accruals with what is shown of it (OzonReport).  A behaviour is one of     *)
(* any: part says which.                                                      *)
(******************************************************************************)
EXTENDS FinanceRepair, FunnelYear, WbClient, DailyFigures, PlanFact, OzonReport, TLC

CONSTANTS w1, w2, s1, s2, none

--------------------------------------------------------------------------------
\* Repair: the second day has no sales, a hole of two days is longer than it may be.
DaysOfSales == {1, 3, 4}
TwoDays == {<<2, 3>>}

\* Client: a campaign of two articles, one of one, one of none.
ThreeCampaigns == [c \in {"a", "b", "c"} |-> CASE c = "a" -> {1, 2} [] c = "b" -> {3} [] OTHER -> {}]
Charge(id, c, sum, in) == [id |-> id, campaign |-> c, sum |-> sum, within |-> in]
FiveCharges ==
  {Charge(1, "a", 2, TRUE), Charge(2, "a", 4, TRUE), Charge(3, "b", 1, TRUE),
   Charge(4, "c", 3, TRUE), Charge(5, "b", 5, FALSE)}

\* Figures: rows with and without an article, a return, a fee without a sale.
Row(nm, doc, price, pay, fees) ==
  [nm |-> nm, doc |-> doc, price |-> price, pay |-> pay, fees |-> fees, quantity |-> 1]
TwoReports ==
  {{Row(3, "sale", 100, 80, 5), Row(NoArticle, "other", 0, 0, 7)},
   {Row(1, "return", 100, 80, 5), Row(2, "sale", 50, 40, 0)}}
OneDayOfAds == {NoArticle :> 3 @@ 1 :> 4}

\* Plan: a day of sales and one of returns; plans saved together and apart.
TwoFigures ==
  {[revenue |-> 100, commission |-> 20, tax |-> 6], [revenue |-> -50, commission |-> -10, tax |-> 7]}
ThreePlans ==
  {"revenue" :> 400 @@ "commission_pct" :> 20, "commission_pct" :> 10 @@ "commission" :> 30,
   "revenue" :> 100}

\* Ozon: whole accruals, and one of each way in which they may be damaged.
Line(s, sale, commission, quantity, delivery, amounts) ==
  [damaged |-> FALSE, sku |-> s, sells |-> TRUE, sale |-> sale, commission |-> commission,
   quantity |-> quantity, delivery |-> delivery, amounts |-> amounts, returns |-> FALSE]
Service(s, delivery, amounts) == [Line(s, {}, {}, {}, delivery, amounts) EXCEPT !.sells = FALSE]
Of(category, id, total, lines) ==
  [id |-> id, category |-> category, total |-> total, listed |-> TRUE, lines |-> lines]
AFee(s, type, amount) == [sku |-> s, type |-> type, amount |-> amount, returns |-> FALSE]
SomeAccruals ==
  {Of("POSTING", 1, 80, <<Line(s1, {100}, {-10}, {2}, "amounts", <<{-10}>>)>>),
   Of("POSTING", 2, -90, <<Line(s1, {-100}, {10}, {1}, "null", << >>)>>),
   Of("POSTING", 3, 75, <<Line(s2, {80}, {-5}, {1}, "null", << >>)>>),
   Of("POSTING", 4, 60, <<Line(s2, {50}, {}, {1}, "amounts", <<{-5}, {}>>)>>),
   Of("POSTING", 5, 40, <<Line(none, {50}, {-10}, {1}, "null", << >>)>>),
   [Of("POSTING", 6, 40, << >>) EXCEPT !.listed = FALSE],
   Of("POSTING", 7, 30, <<Line(s2, {}, {-10}, {}, "spoiled", <<{-5}>>), Service(none, "broken", << >>)>>),
   Of("POSTING", 8, -5, <<Service(s2, "amounts", <<{-5}>>), Service(s1, "amounts", << >>)>>),
   Of("POSTING", 17, 3, <<Service(s1, "amounts", << >>)>>),
   Of("ITEM", 9, -6, <<AFee(s1, "storage", {-4}), [AFee(s2, "logistics", {-2}) EXCEPT !.returns = TRUE]>>),
   Of("ITEM", 10, 7, <<AFee(s1, "ambiguous", {9})>>),
   Of("ITEM", 11, -5, <<AFee(s2, "unlisted", {-5})>>),
   Of("ITEM", 12, -5, <<AFee(s1, "ambiguous", {-5})>>),
   Of("NON_ITEM", 13, -3, <<AFee(none, "other_expenses", {-3})>>),
   Of("NON_ITEM", 14, 12, <<AFee(none, "compensation", {10})>>),
   Of("CONTAINER_FEES", 15, 9, <<AFee(none, "unlisted", {4}), AFee(none, "storage", {})>>),
   [Of("UNSPECIFIED", 16, 6, << >>) EXCEPT !.listed = FALSE]}
ADayOfWb ==
  {[revenue |-> 100, commission |-> 10, logistics |-> 20, storage |-> 3, ads_spend |-> 4, tax |-> 6,
    operation_expenses |-> 5, cogs |-> 30, margin |-> 22]}
CostsOfBoth == s1 :> {20} @@ s2 :> {30}

--------------------------------------------------------------------------------
VARIABLE part
Parts == {"repair", "funnel", "client", "figures", "plan", "ozon"}

MCInit ==
  /\ part \in Parts
  /\ Init /\ FunnelInit /\ WbClientInit /\ FiguresInit /\ PlanInit /\ OzonInit
  \* Either nothing is missing at the end yet, or three days are.
  /\ part = "repair" => \/ through = 3 /\ 3 \in present
                        \/ through = 4 /\ present = {1}
  /\ part # "repair" => through = 1 /\ present = {}
  /\ part # "funnel" => catalogue = TRUE
  /\ part # "plan" => today = 0

MCNext ==
  /\ UNCHANGED part
  /\ \/ /\ part = "repair" /\ Next
        /\ UNCHANGED <<funnelVars, wbClientVars, figureVars, planVars, ozonVars>>
     \/ /\ part = "funnel" /\ FunnelNext
        /\ UNCHANGED <<vars, wbClientVars, figureVars, planVars, ozonVars>>
     \/ /\ part = "client" /\ WbClientNext
        /\ UNCHANGED <<vars, funnelVars, figureVars, planVars, ozonVars>>
     \/ /\ part = "figures" /\ FiguresNext
        /\ UNCHANGED <<vars, funnelVars, wbClientVars, planVars, ozonVars>>
     \/ /\ part = "plan" /\ PlanNext
        /\ UNCHANGED <<vars, funnelVars, wbClientVars, figureVars, ozonVars>>
     \/ /\ part = "ozon" /\ OzonNext
        /\ UNCHANGED <<vars, funnelVars, wbClientVars, figureVars, planVars>>

\* Fairness of the two parts that promise an end, each where it runs.
MCFairness ==
  /\ WF_vars(part = "repair" /\ DashboardRead) /\ WF_vars(part = "repair" /\ Step)
  /\ \A r \in Ranges : WF_vars(part = "repair" /\ Deliver(r))
  /\ WF_vars(part = "repair" /\ TenMinutesPass)
  /\ \A w \in FunnelWorkers : WF_funnelVars(part = "funnel" /\ YtdStep(w))
  /\ WF_funnelVars(part = "funnel" /\ MinutesPass) /\ WF_funnelVars(part = "funnel" /\ RepairsStuck)

MCSpec ==
  /\ MCInit /\ [][MCNext]_<<vars, funnelVars, wbClientVars, figureVars, planVars, ozonVars, part>>
  /\ MCFairness
================================================================================
