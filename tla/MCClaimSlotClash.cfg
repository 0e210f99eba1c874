SPECIFICATION AnyStartSpec
CONSTANTS
  PROCESS_TABLE_SIZE = 4
  MAX_PRIO = 1
  StartPrios = {1}
  NewPrios = {}
  Pids <- ChildPids
  KillPids = {}
  RetVals = {}
  Clocks = {1}
  CLOCKFREQ = 1
  MaxTick = 1
INVARIANTS QueueAssertionsHold
CHECK_DEADLOCK FALSE
