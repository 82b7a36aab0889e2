SPECIFICATION FairSpec
CONSTANTS
  None = None
  Cycle = Cycle
  Poll = Poll
  Fix = Fix
  File = File
  Filed = Filed
  End = End
  Aborted = Aborted
  AGAIN = AGAIN
  READY = READY
  BACK = BACK
  QUIT = QUIT
  Node <- MCNode
  Event <- MCEvent
  Top = Cycle
  Kind <- MCKind
  Parent <- MCParent
  Initial <- MCInitial
  OnDone <- MCOnDone
  On <- MCOn
  After <- MCAfter
  Rank <- MCRank
  Action <- MCAction
  Guarded <- MCGuarded
  Nudge <- MCNudge
  Restart <- MCRestart
  Failures <- MCFailures
  IgnoreReplayWarnings = FALSE
  MaxSeq = 7
  MaxCrashes = 2
INVARIANTS
  OneSessionPerAction
  MachineCatchesUp
PROPERTIES
  Settles
  QuietAfterDrain
