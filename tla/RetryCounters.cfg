SPECIFICATION Spec
CONSTANTS
  None = None
  PyFalse = PyFalse
  Initials <- Mixed
  BackoffFactor = 1
  BackoffMax = 5
  MaxEvents = 5
CHECK_DEADLOCK FALSE
INVARIANTS CountersMatchHistory GivesUpOnlyWhenSpent
PROPERTIES StopsWhenSpent BackoffDoubles
