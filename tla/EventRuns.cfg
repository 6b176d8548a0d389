SPECIFICATION FairSpec
CONSTANTS
  MaxEvents = 3
  Wanted = {1, 3}
  Polls = {1, 2}
  Limit = 2
  Overlap = 2
  Backlog = 2
  MaxTime = 4
  MaxFaults = 1
INVARIANTS TypeOK NothingSkipped
PROPERTIES EventsArrive
CHECK_DEADLOCK FALSE
