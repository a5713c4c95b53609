SPECIFICATION FairSpec
CONSTANTS
  a = a
  b = b
  Hosts <- MCHosts
  V6Hosts <- MCHosts
  Prefixes <- MCPrefixes
  Malformed = Malformed
  Mapped = Mapped
  Writers = {w1}
  Cpus = {c1}
  Durations = {1}
  MaxEntries = 2
  ReplaceInFull = FALSE
  MaxTime = 2
  MaxHits = 1
  MaxGcErrors = 1
INVARIANTS TypeOK Enforced
PROPERTIES DropJustified ExpiredReclaimed
