SPECIFICATION MSpec
CONSTANTS
  PROCESS_TABLE_SIZE = 4
  MAX_PRIO = 2
  StartPrios = {1}
  NewPrios = {}
  Pids = {}
  KillPids = {}
  RetVals = {}
  Clocks = {}
  CLOCKFREQ = 1
  MaxTick = 0
  NBQUEUE = 1
  BootSize = 1
  CELLS = 1073741824
  MaxElements = 2
  m1 = m1
  m2 = m2
  none = none
  NoMsg = none
  Msgs = {m1, m2}
  Counts = {1}
  Fids = {0}
  Senders = {1}
  Receivers = {2, 3}
  Creators = {}
  Resetters = {}
  Counters = {}
INVARIANTS ReceiversAreRemembered
CHECK_DEADLOCK FALSE
