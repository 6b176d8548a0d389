SPECIFICATION StreamSpec
CONSTANTS
  Reqs <- TwoReqs
  Kinds <- AllKinds
  Bodies <- LongBody
  Window = 4
  MaxStreams = 2
  HubMayRestart = TRUE
  MaxLosses = 1
INVARIANTS StreamTypeOK EndedIsComplete CreditSound
