SPECIFICATION Spec
CONSTANTS
  Records <- ParallelRecords
  Setups <- HubSetup
INVARIANT CompensatesOnlySuccess
CHECK_DEADLOCK FALSE
