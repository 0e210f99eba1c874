SPECIFICATION MSpec
CONSTANTS
  PROCESS_TABLE_SIZE = 4
  MAX_PRIO = 2
  StartPrios = {1}
  NewPrios = {2}
  Pids = {1}
  KillPids = {1, 2, 3}
  RetVals = {}
  Clocks = {}
  CLOCKFREQ = 1
  MaxTick = 0
  NBQUEUE = 1
  BootSize = 1
  CELLS = 1073741824
  MaxElements = 2
  m1 = m1
  m2 = m2
  none = none
  NoMsg = none
  Msgs = {m1}
  Counts = {1, 2}
  Fids = {0}
  Senders = {1, 2}
  Receivers = {3}
  Creators = {0}
  Resetters = {0}
  Counters = {2}
INVARIANTS MTypeOK BlockedIsQueued
PROPERTIES RingsBreakForACause
CHECK_DEADLOCK FALSE
