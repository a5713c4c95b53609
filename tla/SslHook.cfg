SPECIFICATION HookSpec
CONSTANTS
  c1 = c1
  c2 = c2
  u1 = u1
  Clients = {c1, c2}
  Upstreams = {u1}
  Workers = {w1, w2}
  Fds = {f1, f2}
  Ptrs = {p1, p2}
  None = None
  In <- MCIn
  Out <- MCOut
  MaxCall = 2
  MaxBuf = 1
  MaxRing = 1
  MaxEvictions = 1
SYMMETRY MCSymmetry
INVARIANTS TypeOK InboundAttribution ThreadStateConsumed NeverBlamesALiveClient
CHECK_DEADLOCK FALSE
