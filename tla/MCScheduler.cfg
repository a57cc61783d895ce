SPECIFICATION FairSpec
CONSTANTS
  NVMACHINES = 3
  TICKS_BEFORE_SCHEDULING = 3
  TICK_MOD = 16
  FastInt = {2, 3}
INVARIANTS SchedTypeOK FastNotRenewed AtMostOneSkip
PROPERTIES EveryVmRuns ImplementsPolicy
