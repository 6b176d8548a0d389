SPECIFICATION FairSpec
CONSTANTS
  Slots = {1, 2}
  Values = {0, 1, 2}
  Deadband = 2
  MaxFaults = 1
INVARIANTS TypeOK TablesFollow
PROPERTIES ReadingsSettle
CHECK_DEADLOCK FALSE
