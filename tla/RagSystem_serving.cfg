SPECIFICATION SystemSpec
CONSTANTS
  r1 = r1
  r2 = r2
  p1 = p1
  Ingestions = {r1, r2}
  Pods = {p1}
  Corpora <- MCCorpora
  Settings <- MCSettings
  DelimiterSize <- MCDelimiterSize
  MaxRagFaults = 1
  MaxInjectFaults = 1
SYMMETRY MCSymmetry
CHECK_DEADLOCK FALSE
INVARIANT ChunksCoverDocuments
INVARIANT UndisturbedStoreIsExact
INVARIANT MixedOnlyByOverlap
INVARIANT RowsAreTraced
INVARIANT UndisturbedAnswersAreCurrent
INVARIANT ServingPodsAreRegistered
