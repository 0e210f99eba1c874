SPECIFICATION Spec
CONSTANTS
  PROCESS_TABLE_SIZE = 3
  MAX_PRIO = 2
  StartPrios = {1, 2}
  NewPrios = {}
  Pids <- AllPids
  KillPids <- AllPids
  RetVals = {7}
  Clocks = {1}
  CLOCKFREQ = 1
  MaxTick = 1
INVARIANTS TypeOK IdleKept BrotherCyclesAreSelfLoops
PROPERTIES DisorderHasACause
CHECK_DEADLOCK FALSE
