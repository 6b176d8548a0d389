SPECIFICATION FairSpec
CONSTANTS
  Points = {1, 2}
  RuleNames = {1, 2}
  RuleFiles <- Files
  MaxAge = 2
  MaxDebounce = 2
  MaxRestarts = 1
INVARIANTS TypeOK
PROPERTIES ActsWithCause EdgeIsTaken
CHECK_DEADLOCK FALSE
