\* A stopped run that goes on.
SPECIFICATION MCSpec
CONSTANTS
  w1 = w1  w2 = w2  c1 = c1  c2 = c2  v1 = v1  v2 = v2  o1 = o1
  Runs = {1, 2}
  Workers = {w1, w2}
  Clicks = {c1, c2}
  MainCount = 2
  SeriesCount = 2
  MaxChains = 3
  MaxStops = 1
  StudioFaults = 1
  Feedbacks = {v1, v2}
  Syncs = {w1, w2}
  Publishers = {c1, c2}
  TakeLimit = 2
  SuggestLimit = 1
  MaxPublications = 2
  BriefWorkers = {w1, w2}
  BriefRequests = {c1, c2}
  MaxBriefTasks = 4
  BriefFaults = 1
  Versions = {v1, v2}
  Askers = {c1, c2}
  OfferWorkers = {o1}
  MaxUploads = 2
  MaxAsks = 2
  OfferFaults = 1
  Fetchers = {w1, w2}
  Uploaders = {o1}
  LastReportDay = 2
  ValidDays = 0
  MaxImports = 1
  MaxTasks = 2
  MaxHypotheses = 1
  AiFaults = 1
SYMMETRY Symmetry
CHECK_DEADLOCK FALSE
PROPERTY StoppedRunSpendsNothing
