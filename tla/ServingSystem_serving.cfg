SPECIFICATION FairServingSpec
CONSTANTS
  None = None
  v1 = v1
  e1 = e1
  e2 = e2
  a1 = a1
  a2 = a2
  m1 = m1
  t1 = t1
  t2 = t2
  Timer = Timer
  Api = Api
  r1 = r1
  r2 = r2
  j1 = j1
  o1 = o1
  Views = {v1}
  Entities = {e1, e2}
  Appliers = {a1, a2}
  Materializers = {m1}
  Repos <- MCRepos
  MaxFeastFaults = 1
  Threads = {t1, t2, Api}
  Registrars = {r1, r2}
  Promoters = {j1}
  Operators = {o1}
  MaxModelFaults = 1
  Workloads <- MCWorkloads
CHECK_DEADLOCK FALSE
INVARIANT ServingTypeOK
INVARIANT UnracedRowsAreSequential
INVARIANT UndisturbedApplyIsExact
INVARIANT RecordedIsOnline
INVARIANT NoOrphanedEnd
INVARIANT EntitiesAreFound
INVARIANT UnracedChampionIsNewest
PROPERTY CopyCatchesUp
PROPERTY ServedNeverGoesBack
PROPERTY ArchiveSparesOthers
