SPECIFICATION Spec
CONSTANTS
  t1 = t1
  t2 = t2
  Threads = {t1, t2}
  NoThread = NoThread
  r1 = r1
  Runs = {r1}
  Params = {p}
  Metrics = {}
  Tags = {g}
  HistoryTags = {h}
  Inputs = {d}
  Outputs = {m}
  p = p
  g = g
  h = h
  d = d
  m = m
  HistoryModels <- MCHistoryModels
  BatchTags = {g, h}
  Taggers <- MCOwnThread
  Finishers <- MCOwnThread
  Statuses = {"FINISHED", "FAILED"}
  Lossy = FALSE
  MaxCalls = 4
  MaxCrashes = 0
INVARIANT NoSelfDeadlock
