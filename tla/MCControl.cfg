SPECIFICATION FairSpec
CONSTANTS
  Event <- Events
  Ask <- Asks
  Locked = TRUE
  MaxAttempts = 2
  MaxCalls = 2
  MaxWork = 1
  MaxDeaths = 1
INVARIANTS TypeOK GateSettlesOnce EachMoveCommitsOnce AcknowledgedIsDurable RetryIsNoConflict
PROPERTIES CallsReturn
CHECK_DEADLOCK FALSE
