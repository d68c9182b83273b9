SPECIFICATION LogSpec
CONSTANTS
  p = p
  l = l
  Procs = {p}
  Logs = {l}
  LogOf <- MCSharedLog
  Payloads = {x1, x2, x3, x4}
  x1 = x1
  x2 = x2
  x3 = x3
  x4 = x4
  RekorUpload = TRUE
  MaxTorn = 1
INVARIANT ChainIsLinear
