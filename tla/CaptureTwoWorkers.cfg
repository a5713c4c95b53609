SPECIFICATION Spec
CONSTANTS
  c1 = c1
  c2 = c2
  Clients = {c1, c2}
  Upstreams = {}
  Workers = {w1, w2}
  Fds = {f1, f2}
  Ptrs = {p1}
  None = None
  In <- H1In
  Out <- NoOut
  MaxCall = 2
  MaxBuf = 3
  MaxRing = 16
  MaxEvictions = 0
INVARIANT WholeMessages
CHECK_DEADLOCK FALSE
