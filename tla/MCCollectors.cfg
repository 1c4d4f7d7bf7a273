\* One collector at a time, seven reads, four changes of what it reads.
CONSTANTS
  None = None
  inst1 = inst1
  inst2 = inst2
  Insts = {inst1, inst2}
  Pkg = inst1
  Luid <- MCLuid
  Loopbacks = {inst2}
  LoopbackNames = {}
  Mute = {inst2}
  RebuildEvery = 3
  InventoryEvery = 2
  BackoffBase = 1
  MaxShift = 1
  MaxBackoff = 2
  MaxEngines = 2
  TopPids = 1
  TopN = 1
  EnumEvery = 3
  Kinds = {"cpu", "gpu", "storage", "net", "proc", "self", "usb", "display", "os_power", "battery"}
  MaxReads = 7
  MaxChanges = 4
SPECIFICATION Spec
CHECK_DEADLOCK FALSE
INVARIANTS
  SteadyRates
  NewDeviceSeen
  RecoversInTime
  EventsReplay
