SPECIFICATION IVSpec
CONSTANTS
  NVMACHINES = 2
  FastVMs = {}
  MESSAGELIST_SZ = 2
  MESSAGE_SZ = 2
  Sizes = {0, 2, 3}
  BufSize = 1
  Senders = {1}
  Targets = {2, 3}
  Window = 5
  IdMod = 2
  ColdStart = TRUE
INVARIANTS IVTypeOK RingsConsistent
PROPERTY ImplementsChannel
