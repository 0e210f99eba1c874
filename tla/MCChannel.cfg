SPECIFICATION MFairSpec
CONSTANTS
  PROCESS_TABLE_SIZE = 3
  MAX_PRIO = 2
  StartPrios = {1, 2}
  NewPrios = {}
  Pids = {}
  KillPids = {}
  RetVals = {7}
  Clocks = {1}
  CLOCKFREQ = 1
  MaxTick = 1
  NBQUEUE = 1
  BootSize = 2
  CELLS = 1073741824
  MaxElements = 3
  m1 = m1
  m2 = m2
  none = none
  NoMsg = none
  Msgs = {m1, m2}
  Counts = {1}
  Fids = {0}
  Senders = {1}
  Receivers = {2}
  Creators = {}
  Resetters = {}
  Counters = {}
PROPERTIES IsAChannel WaitersGoOn
CHECK_DEADLOCK FALSE
