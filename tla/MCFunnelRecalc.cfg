\* One chain and no fault: both days are written, neither is recalculated.
SPECIFICATION FunnelSpec
CONSTANTS
  FunnelWorkers = {1}
  Yesterday = 2
  WeekLen = 1
  FUNNEL_YTD_DAYS_PER_RUN = 2
  FUNNEL_YTD_HTTP_RETRY_CODES = {}
  MaxFigure = 1
  MaxClicks = 1
  FunnelFaults = 0
INVARIANT FunnelReachesSku
CHECK_DEADLOCK FALSE
