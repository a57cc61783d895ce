SPECIFICATION VISpec
CONSTANTS
  NVMACHINES = 2
  TICKS_BEFORE_SCHEDULING = 2
  TICK_MOD = 2
  FastInt = {}
  Reg = {"EPC"}
  RegMod = 1
  IrqCount = 2
  irq_vm <- OneEach
  Notifiers = {}
INVARIANTS VITypeOK MaskedIsInFlight ExecutingIsFlushed
PROPERTIES ImplementsMachines MaskedIsReenabled
