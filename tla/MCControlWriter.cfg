SPECIFICATION Spec
CONSTANTS
  Event <- Events
  Ask <- Asks
  Locked = FALSE
  MaxAttempts = 1
  MaxCalls = 2
  MaxWork = 1
  MaxDeaths = 1
INVARIANTS FallbackIsSoleWriter
CHECK_DEADLOCK FALSE
