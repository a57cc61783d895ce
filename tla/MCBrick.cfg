CONSTANTS
    FLASH_QUADS = 15
    PAGE_QUADS = 3
    DATA_QUADS = 3
    VM = {"vm1", "vm2"}
    FlashBase <- MCFlashBase
    FlashSize <- MCFlashSize
    KeyOf <- MCKeyOf
    NoKey = "none"
    Layouts = {4}
    Data = {"a", "b"}
SPECIFICATION FlashSpec
INVARIANT NeverHalted
