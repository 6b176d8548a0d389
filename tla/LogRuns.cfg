SPECIFICATION FairSpec
CONSTANTS
  Sinks = {"file", "hook"}
  Files = {"file"}
  Hooks = {"hook"}
  MaxTries = 2
  Loads = {{"app"}, {"app", "audit"}}
  BatchSize = 2
  MaxEvents = 2
  MaxEpochs = 2
INVARIANTS TypeOK NothingLost AppFilesSound
PROPERTIES AuditAnswered
CHECK_DEADLOCK FALSE
