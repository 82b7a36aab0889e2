SPECIFICATION FairSpec
CONSTANTS
  State <- States
  Event <- Events
  Kind <- Kinds
  Outcome <- Outcomes
  Target <- Targets
  On <- Ons
  To <- Tos
  Says <- Saying
  Count <- Counts
  Endpoints = 2
  Workers <- Ordinary
  Rest <- Initials
  First = "give"
  Limit = 1
  MaxItems = 1
  Sizes <- Ranges
  Aborts = {}
  MaxRounds = 1
  MaxCrashes = 0
PROPERTIES RunEnds
CHECK_DEADLOCK FALSE
