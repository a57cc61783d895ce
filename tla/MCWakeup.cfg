SPECIFICATION IVSpec
CONSTANTS
  NVMACHINES = 2
  FastVMs = {2}
  MESSAGELIST_SZ = 2
  MESSAGE_SZ = 2
  Sizes = {1}
  BufSize = 1
  Senders = {1, 2}
  Targets = {2}
  Window = 2
  IdMod = 1
  ColdStart = FALSE
INVARIANT BacklogIsAnnounced
PROPERTY BlockedWakes
