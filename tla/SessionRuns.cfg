SPECIFICATION Spec
CONSTANTS
  MaxOpens = 4
  MaxSessions = 1
  MaxFaults = 3
INVARIANTS TypeOK EndsAgree LimitUnlessOverlap AuditAgrees
CHECK_DEADLOCK FALSE
