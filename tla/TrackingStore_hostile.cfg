SPECIFICATION Spec
CONSTANTS
  t1 = t1
  t2 = t2
  Threads = {t1, t2}
  NoThread = NoThread
  r1 = r1
  r2 = r2
  Runs = {r1, r2}
  Params = {p}
  Metrics = {}
  Tags = {g}
  g = g
  HistoryTags = {h}
  Inputs = {}
  Outputs = {m}
  p = p
  h = h
  m = m
  HistoryModels <- MCHistoryModels
  BatchTags = {h}
  Taggers <- MCAnyThread
  Finishers <- MCAnyThread
  Statuses = {"FINISHED", "FAILED"}
  Lossy = TRUE
  MaxCalls = 4
  MaxCrashes = 1
SYMMETRY MCSymmetry
CHECK_DEADLOCK FALSE
INVARIANT TypeOK
INVARIANT TerminalCarriesLogged
INVARIANT ReportedIsStored
PROPERTY ImplementsLedger
