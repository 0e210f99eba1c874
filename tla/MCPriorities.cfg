SPECIFICATION DisciplinedSpec
CONSTANTS
  PROCESS_TABLE_SIZE = 3
  MAX_PRIO = 2
  StartPrios = {1, 2}
  NewPrios = {0, 1, 2}
  Pids <- AllPids
  KillPids = {}
  RetVals = {7}
  Clocks = {1, 2}
  CLOCKFREQ = 1
  MaxTick = 2
INVARIANTS QueueSorted NeverHalts ValuesAreOfTheDead
PROPERTIES SwitchesToTheHighest BoostStaysBelowWaiter
CHECK_DEADLOCK FALSE
