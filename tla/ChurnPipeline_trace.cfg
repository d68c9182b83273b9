SPECIFICATION PipelineSpec
CONSTANTS
  Runs = {a, b}
  a = a
  b = b
  MaxFaults = 0
INVARIANT TraceLeadsToRows
