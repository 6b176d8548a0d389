SPECIFICATION FairSpec
CONSTANTS
  Records <- AllRecords
  Setups <- AllSetups
INVARIANTS TypeOK SequentialCompletedMeansDone CompensatesWhatSucceeded OrderKept
PROPERTIES RunEnds
CHECK_DEADLOCK FALSE
