SPECIFICATION Spec
CONSTANTS
  c1 = c1
  c2 = c2
  Clients = {c1}
  Upstreams = {}
  Workers = {w1}
  Fds = {f1, f2}
  Ptrs = {p1, p2}
  None = None
  In <- H2In
  Out <- MCOut
  MaxCall = 4
  MaxBuf = 3
  MaxRing = 16
  MaxEvictions = 0
INVARIANT DesyncIsPoisoned
CHECK_DEADLOCK FALSE
