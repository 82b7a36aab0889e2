SPECIFICATION FairSpec
CONSTANTS
  State <- States
  Event <- Events
  Kind <- Kinds
  Outcome <- Outcomes
  Target <- Targets
  On <- Ons
  To <- Tos
  Says <- Saying
  Count <- Counts
  Endpoints = 1
  Workers <- Pool
  Rest <- Idle
  First = "ask"
  Limit = 1
  MaxItems = 2
  Sizes <- Ranges
  Aborts = {"use"}
  MaxRounds = 2
  MaxCrashes = 1
INVARIANTS TypeOK GateHolds ReservedAreFirst DoneMeansDrained FailsOnlyWhenStuck NothingElseThrows DecisionsStand
PROPERTIES RunEnds
CHECK_DEADLOCK FALSE
