SPECIFICATION FairSpec
CONSTANTS
  MaxPid = 3
  MaxStages = 3
  MaxSignals = 3
  MaxGaps = 1
  Places = 2
  FlagValues = {0, 1}
INVARIANTS TypeOK StoppedReachable StacksInBounds ForegroundDone
PROPERTIES InterruptReaps PromptReturns
CHECK_DEADLOCK FALSE
