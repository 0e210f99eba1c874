SPECIFICATION DisciplinedSpec
CONSTANTS
  PROCESS_TABLE_SIZE = 4
  MAX_PRIO = 1
  StartPrios = {1}
  NewPrios = {}
  Pids <- SomePids
  KillPids <- ChildPids
  RetVals = {}
  Clocks = {2, 3}
  CLOCKFREQ = 1
  MaxTick = 3
INVARIANTS SleepListSorted OnePlace StartTakesAFreeSlot
PROPERTIES WakesOnTime BuriedOnce
CHECK_DEADLOCK FALSE
