SPECIFICATION Spec
CONSTANTS
  c1 = c1
  c2 = c2
  Clients = {c1, c2}
  Upstreams = {}
  Workers = {w1}
  Fds = {f1, f2}
  Ptrs = {p1, p2}
  None = None
  In <- MCIn
  Out <- MCOut
  MaxCall = 3
  MaxBuf = 2
  MaxRing = 16
  MaxEvictions = 0
SYMMETRY MCSymmetry
INVARIANTS WholeMessages NothingMissed ConnectionsReleased PoisonReportedOnce 
CHECK_DEADLOCK FALSE
