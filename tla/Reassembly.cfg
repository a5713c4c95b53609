SPECIFICATION ReassemblySpec
CONSTANTS
  Requests <- MCRequests
  Responses <- MCResponses
  MaxMessages = 3
  MaxRead = 30
  Streams <- ThreeStreams
  MaxStreams = 2
  MaxHeaderBlock = 2
  MaxBody = 1
  Faulty = TRUE
  Pushes = TRUE
  MaxBlocks = 4
  MaxFragments = 3
  MaxData = 2
  DataSizes <- UpToTwo
INVARIANTS HandedOnWhenWhole CloseDelimitedPrefix
INVARIANTS TypeOK StreamsBounded HpackInSync EmittedIsSent EmittedOnce KeptStreamsAreOpen
PROPERTIES PoisonIsFinal BlocksAreContiguous
CHECK_DEADLOCK FALSE
