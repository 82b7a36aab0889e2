SPECIFICATION FairSpec
CONSTANTS
  main = main
  side = side
  Branch <- BranchSet
  Launch <- FirstMain
  Durable <- OnlyMain
  Heirs <- HeirsOf
  Entry <- Reservations
  Op <- Ops
  MaxCalls = 4
  MaxFails = 1
INVARIANTS TypeOK  SealsCanBeLifted SealedOnlyByOvertaken
PROPERTIES  CallsReturn
CHECK_DEADLOCK FALSE
