SPECIFICATION FairStreamSpec
CONSTANTS
  Reqs <- TwoReqs
  Kinds <- GetOnly
  Bodies <- LongBody
  Window = 4
  MaxStreams = 1
  HubMayRestart = FALSE
  MaxLosses = 1
PROPERTY StreamsEnd
