CONSTANTS
  PAGE = 2
  PageSizes = {1, 4, 16}
  MemSizes = {1, 4, 8}
  Devices <- MCDevices
  Buffers <- MCBuffers
  RAM_BASE = 8
  FLASH_BASE = 80
  RAM_VA = 0
  FLASH_VA = 64
  ENTRIES = 6
  MAX_VMS = 3
  MAX_MAPS = 2
SPECIFICATION MemSpec
CHECK_DEADLOCK FALSE
INVARIANTS
  MemTypeOK
  VmSeesItsOwn
  VmsApart
  BufferIsTheCallers
