SPECIFICATION VISpec
CONSTANTS
  NVMACHINES = 2
  TICKS_BEFORE_SCHEDULING = 2
  TICK_MOD = 2
  FastInt = {2}
  Reg = {"EPC", "Compare"}
  RegMod = 2
  IrqCount = 0
  irq_vm <- NoIrq
  Notifiers = {1}
PROPERTY ImplementsMachines
