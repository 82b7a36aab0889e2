SPECIFICATION Spec
CONSTANTS
  None = None
  Review = Review
  Writing = Writing
  Draft = Draft
  Drafted = Drafted
  Late = Late
  Asking = Asking
  Approve = Approve
  Approved = Approved
  Done = Done
  Stopped = Stopped
  FINISH = FINISH
  ABORT = ABORT
  YES = YES
  NO = NO
  Node <- MCNode
  Event <- MCEvent
  Top = Review
  Kind <- MCKind
  Parent <- MCParent
  Initial <- MCInitial
  OnDone <- MCOnDone
  On <- MCOn
  After <- MCAfter
  Rank <- MCRank
  Action <- MCAction
  Guarded <- MCGuarded
  Nudge <- MCNudge
  Restart <- MCRestart
  Failures <- MCFailures
  IgnoreReplayWarnings = TRUE
  MaxSeq = 8
  MaxCrashes = 2
INVARIANTS
  TypeOK
  NoWorkIsLost
  PendingIsActive
  GatesArePending
PROPERTIES
  LogIsARun
  RecoveryRunsOut
