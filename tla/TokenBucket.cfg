SPECIFICATION Spec
CONSTANTS
  Sources = {s1}
  BURST = 2
  NS_PER_TOKEN = 2
  MaxTime = 6
INVARIANTS TypeOK RateBound
PROPERTY SlowNeverRefused
CHECK_DEADLOCK FALSE
