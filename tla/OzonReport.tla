------------------------------- MODULE OzonReport -------------------------------
(******************************************************************************)
(* The rows that marketplace_finance_service.py shows of a day, for Ozon      *)
(* alone ("ozon") and together with Wildberries ("all"): build_overview, and  *)
(* the dashboard's rows made of it.  Ozon's half is the ledger of OzonLedger, *)
(* Wildberries' half a row of pnl_daily, which has no unknown figures.        *)
(******************************************************************************)
EXTENDS OzonLedger

CONSTANT WbDays    \* rows of pnl_daily that the day may have

\* Figures that both shops have a column for; WB keeps no acquiring or compensation of its own.
Columns == {"revenue", "commission", "logistics", "storage", "ads_spend", "tax", "operation_expenses"}
WB_SHAPED_PNL_FIELDS == Columns \cup {"cogs", "margin"}
ReportFields == WB_SHAPED_PNL_FIELDS \cup {"known_cost_revenue"}

ASSUME WbAssumption == WbDays \subseteq [WB_SHAPED_PNL_FIELDS -> Int]

\* The day's row of WB, or none; of none every figure is unknown.
WbRows == {{}} \cup {{row} : row \in WbDays}
_wb_daily(wb) == [f \in WB_SHAPED_PNL_FIELDS |-> {row[f] : row \in wb}]

\* Ozon's day as it was saved.  Of a day without accruals nobody claims to know the ads.
_replace_complete_day(n) ==
  [f \in Columns \ {"tax", "operation_expenses"} |->
     CASE f # "ads_spend" -> Settled(n.day)[f]
       [] f = "ads_spend" -> IF n = EmptyLedger THEN Unknown ELSE {0 : x \in Settled(n.day)["storage"]}]

\* With the tax of its revenue and the expenses entered for it; none entered is 0.
OzonDay(n) ==
  [f \in Columns |->
     CASE f = "tax" -> _derive_ozon_tax(Settled(n.day)["revenue"])
       [] f = "operation_expenses" -> {OzonExpense}
       [] f \notin {"tax", "operation_expenses"} -> _replace_complete_day(n)[f]]

\* Ozon's rows of the day, one for each SKU of its accruals.
_build_ozon_products(n) ==
  {[sku |-> s, revenue |-> SkuRow(n, s).money["revenue"], cogs |-> ShownCogs(n, s), margin |-> SkuMargin(n, s)] :
     s \in Named(n)}
\* Revenue that carries a cost.
KnownRevenue(n) ==
  SumOf([row \in {p \in _build_ozon_products(n) : p.cogs # Unknown /\ p.revenue # Unknown} |-> The(row.revenue)])

\* _sum_known_sources adds Both: unknown when it is unknown for one of them.
\* The profit instead counts what is known.
KnownPart(a) == IF a = Unknown THEN {0} ELSE a

_day_profit_known(marketplace, revenue, n, wb) ==
  LET own == [cogs |-> ShownDayCogs(n), margin |-> DayMargin(n), known_cost_revenue |-> {KnownRevenue(n)}]
      saved == [cogs |-> _wb_daily(wb)["cogs"], margin |-> _wb_daily(wb)["margin"],
                known_cost_revenue |-> _wb_daily(wb)["revenue"]]
  IN [f \in DOMAIN own |->
        IF revenue = Unknown THEN Unknown
        ELSE IF marketplace = "ozon" THEN own[f]
        ELSE Both(saved[f], KnownPart(own[f]))]

\* loaded: Ozon is connected and its day is complete or empty.
Covered(marketplace, loaded, wb) == loaded /\ (marketplace = "all" => wb # {})

build_overview(marketplace, loaded, n, wb) ==
  LET shown == [f \in Columns |-> IF marketplace = "ozon" THEN OzonDay(n)[f]
                                  ELSE Both(_wb_daily(wb)[f], OzonDay(n)[f])]
      profit == _day_profit_known(marketplace, shown["revenue"], n, wb)
  IN [f \in ReportFields |->
        IF ~Covered(marketplace, loaded, wb) THEN Unknown ELSE IF f \in Columns THEN shown[f] ELSE profit[f]]

--------------------------------------------------------------------------------
(* The combined row is what the two shops' own rows say together: a column is *)
(* shown exactly when both know it, and a profit is never shown without WB's  *)
(* day, nor before Ozon's revenue is known; it may lack Ozon's profit.        *)
CombinedIsBoth ==
  \A wb \in WbRows, loaded \in BOOLEAN :
    LET all == build_overview("all", loaded, ledger, wb)
        ozon == build_overview("ozon", loaded, ledger, wb)
    IN /\ \A f \in Columns : all[f] = Both(ozon[f], _wb_daily(wb)[f])
       /\ \A f \in {"cogs", "margin"} :
            all[f] = IF all["revenue"] = Unknown THEN Unknown
                     ELSE Both(_wb_daily(wb)[f], KnownPart(ozon[f]))

(* The list of products agrees with the day: when all of Ozon's day is known, *)
(* the combined margin is WB's, those of Ozon's products and what belongs to  *)
(* none of them; and all the revenue carries its cost.                        *)
ProductsAddUpToTheDay ==
  \A wb \in WbRows :
    LET all == build_overview("all", TRUE, ledger, wb)
        products == _build_ozon_products(ledger)
    IN ( /\ wb # {} /\ ledger.mismatch = {0} /\ DayMargin(ledger) # Unknown
         /\ \A row \in products : row.margin # Unknown ) =>
         /\ all["margin"] = Both(_wb_daily(wb)["margin"],
              {SumOf([row \in products |-> The(row.margin)]) + ledger.day.unallocated - OzonExpense})
         /\ all["known_cost_revenue"] = all["revenue"]

OzonReportInv == OzonMoneyInv /\ CombinedIsBoth /\ ProductsAddUpToTheDay
================================================================================
