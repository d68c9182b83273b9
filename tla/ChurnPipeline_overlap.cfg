SPECIFICATION PipelineSpec
CONSTANTS
  Runs = {a, b}
  a = a
  b = b
  MaxFaults = 1
SYMMETRY MCSymmetry
INVARIANT IsolatedRunIsItsOwn
INVARIANT RegisteredIsTraceable
INVARIANT NoStepStaysRunning
INVARIANT EffectsAreAudited
PROPERTY ImplementsChain
