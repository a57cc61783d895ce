CONSTANTS
    RX_DESCRIPTORS = 3
    RX_BYTES_PER_DESC = 2
    FrameId = {1}
    FrameSize = {1, 4}
    SendId = {1, 2}
    MTU = 2
    SendSize = {0, 1, 2, 3, 5}
    SIZE_RANGE = 4
SPECIFICATION EthSpec
INVARIANT EthTypeOK RingInSync TornByNextOnly
PROPERTY ImplementsQueue CallAdvances CallReturns
