CONSTANTS
    RX_DESCRIPTORS = 4
    RX_BYTES_PER_DESC = 2
    FrameId = {1, 2}
    FrameSize = {1, 3, 4}
    SendId = {1, 2}
    MTU = 1
    SendSize = {1}
    SIZE_RANGE = 4
SPECIFICATION EthSpec
INVARIANT HandedWhole
