SPECIFICATION LogSpec
CONSTANTS
  p = p
  q = q
  r = r
  l = l
  Procs = {p, q, r}
  Logs = {l}
  LogOf <- MCSharedLog
  Payloads = {x1, x2, x3}
  x1 = x1
  x2 = x2
  x3 = x3
  RekorUpload = TRUE
  MaxTorn = 2
INVARIANT LinksResolve
INVARIANT ReadYourAppends
INVARIANT LossBoundedByTears
PROPERTY ReturnedStays
