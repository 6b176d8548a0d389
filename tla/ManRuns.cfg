SPECIFICATION FairManeuverSpec
CONSTANTS
  a = a
  b = b
  Devices = {a, b}
  Maneuvers <- AllRecords
INVARIANTS ManeuverTypeOK StepsAccounted UndoExact
PROPERTIES ImplementsLocalStep
CHECK_DEADLOCK FALSE
