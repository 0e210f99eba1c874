SPECIFICATION FairSpec
CONSTANTS
  PROCESS_TABLE_SIZE = 3
  MAX_PRIO = 2
  StartPrios = {1}
  NewPrios = {}
  Pids <- ChildPids
  KillPids = {1}
  RetVals = {}
  Clocks = {2, 3}
  CLOCKFREQ = 1
  MaxTick = 3
PROPERTIES SleepersWake EqualsShareTheProcessor WaitpidReturns
CHECK_DEADLOCK FALSE
