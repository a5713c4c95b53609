SPECIFICATION Spec
CONSTANTS
  a = a
  b = b
  Hosts <- MCHosts
  V6Hosts <- MCHosts
  Prefixes <- MCPrefixes
  Malformed = Malformed
  Mapped = Mapped
  Writers = {w1}
  Cpus = {}
  Durations = {1}
  MaxEntries = 2
  ReplaceInFull = TRUE
  MaxTime = 3
  MaxHits = 0
  MaxGcErrors = 0
PROPERTY GcDeletesOnlyExpired
