CONSTANTS
    DESCRIPTOR_SZ = 3
    SIZE_AT = 1
    MAX_PACKET = 2
    Counts = {0, 1}
    Bytes = {4}
    MAX_REQUESTS = 1
SPECIFICATION UsbSpec
INVARIANT UsbTypeOK AvailableIffRunning AvailableIsWhole PresenceIsKnown NoHalfTransfer
PROPERTY DetectionAdvances EnumerationEnds
