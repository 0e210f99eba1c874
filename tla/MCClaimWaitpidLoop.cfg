SPECIFICATION FairSpec
CONSTANTS
  PROCESS_TABLE_SIZE = 3
  MAX_PRIO = 1
  StartPrios = {1}
  NewPrios = {}
  Pids <- ChildPids
  KillPids = {}
  RetVals = {}
  Clocks = {}
  CLOCKFREQ = 1
  MaxTick = 0
PROPERTIES WaitpidAlwaysReturns
CHECK_DEADLOCK FALSE
