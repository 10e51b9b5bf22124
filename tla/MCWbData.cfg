\* Repair: tails and holes over four days, a request of a user and one fault.
\* Funnel: two workers, three days, a click and a fault.
\* Client: five articles in chunks of two, a report of four rows, five charges.
\* Figures: two workers, two of imports, saves and clicks, and one death.
\* Plan: a month of three days, four rows or plans written.
\* Ozon: every order of up to four of seventeen accruals.
SPECIFICATION MCSpec
CONSTANTS
  w1 = w1  w2 = w2  s1 = s1  s2 = s2  none = none
  MaxDay = 4
  HasSales <- DaysOfSales
  MaxHole = 1
  RecentLen = 2
  ManualRanges <- TwoDays
  MaxRequests = 1
  MaxFaults = 1
  FunnelWorkers = {w1, w2}
  Yesterday = 3
  WeekLen = 2
  FUNNEL_YTD_DAYS_PER_RUN = 2
  FUNNEL_YTD_HTTP_RETRY_CODES = {"429", "503"}
  MaxFigure = 1
  MaxClicks = 2
  FunnelFaults = 1
  Nms = {1, 2, 3, 4, 5}
  FUNNEL_CHUNK_SIZE = 2
  FUNNEL_CHUNK_MAX_ATTEMPTS = 3
  ReportLen = 4
  NoDateRows = {3}
  PageLimit = 2
  Campaigns <- ThreeCampaigns
  Updates <- FiveCharges
  MaxWbAnswers = 9
  FigureWorkers = {w1, w2}
  SalesReports <- TwoReports
  AdReports <- OneDayOfAds
  Costs = {30}
  ExpenseSums = {20}
  TAX_RATE = 10
  TaxRates = {20}
  MaxEvents = 2
  FigureFaults = 1
  MonthLen = 3
  PnlFigures <- TwoFigures
  OrderSums = {5}
  Plans <- ThreePlans
  MaxWrites = 4
  Skus = {s1, s2}
  NoSku = none
  Accruals <- SomeAccruals
  SkuCosts <- CostsOfBoth
  OzonTaxRate = 10
  WbDays <- ADayOfWb
  OzonExpense = 15
  MaxAccruals = 4
INVARIANTS RepairInv FunnelInv WbClientInv FiguresInv PlanFactInv OzonReportInv
PROPERTIES TailIsRepaired FunnelRunEnds
\* Every part but the repair comes to an end.
CHECK_DEADLOCK FALSE
