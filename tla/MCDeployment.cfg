\* What an interrupted run leaves, and what one more makes of it.
CONSTANTS
  None = None
  Mishaps = {3}
  MaxRuns = 3
SPECIFICATION FairSpec
INVARIANTS
  TypeOK
  JudgesItsOwnJob
  SuccessIsReal
PROPERTY ScriptEnds
CHECK_DEADLOCK FALSE
