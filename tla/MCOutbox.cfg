SPECIFICATION FairSpec
CONSTANTS
  monitor = monitor
  call = call
  None = none
  Confirmed = confirmed
  Host <- Hosts
  Waiter <- Waiters
  MaxAttempts = 2
  MaxDeaths = 1
  Overlap = FALSE
INVARIANTS TypeOK NoticeMatchesStatus ConfirmedWasNotified 
 
CHECK_DEADLOCK FALSE
