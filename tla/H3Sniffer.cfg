SPECIFICATION Spec
CONSTANTS
  s1 = s1
  s2 = s2
  a1 = a1
  a2 = a2
  None = None
  Streams = {s1, s2}
  Workers = {w1, w2}
  Conns = {c1, c2}
  Addr <- MCAddr
  Plans <- MCPlans
  StaticLen = 2
  MaxRing = 2
INVARIANTS TypeOK RequestsWhole ResponsesWhole NamesResolved TableInStep
CHECK_DEADLOCK FALSE
PROPERTY EverythingReported
