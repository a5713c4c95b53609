SPECIFICATION Spec
CONSTANTS
  s1 = s1
  s2 = s2
  c1 = c1
  c2 = c2
  NoSource = NoSource
  Sources = {s1}
  Cpus = {c1, c2}
  Steer <- Spread
  BURST = 2
  NS_PER_TOKEN = 2
  Word = 32
  MaxEntries = 1
  MaxTime = 3
INVARIANT TokensAreTimeSpent
