SPECIFICATION Spec
CONSTANTS
  main = main
  side = side
  Branch <- OneBranch
  Launch <- FirstMain
  Durable <- OnlyMain
  Heirs <- NoHeirs
  Entry <- Readmission
  Op <- Ops
  MaxCalls = 5
  MaxFails = 0
INVARIANT RunningMayAppend
CHECK_DEADLOCK FALSE
