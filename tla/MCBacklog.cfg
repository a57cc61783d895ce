SPECIFICATION IVSpec
CONSTANTS
  NVMACHINES = 2
  FastVMs = {}
  MESSAGELIST_SZ = 2
  MESSAGE_SZ = 2
  Sizes = {1}
  BufSize = 1
  Senders = {1}
  Targets = {2}
  Window = 5
  IdMod = 1
  ColdStart = FALSE
PROPERTY BlockedWakes
