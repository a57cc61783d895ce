CONSTANTS
    FLASH_QUADS = 15
    PAGE_QUADS = 3
    DATA_QUADS = 3
    VM = {"vm1", "vm2"}
    FlashBase <- MCFlashBase
    FlashSize <- MCFlashSize
    KeyOf <- MCKeyOf
    NoKey = "none"
    Layouts = {0, 4, 10, 12}
    Data = {"a", "b"}
SPECIFICATION FlashSpec
INVARIANT FlashTypeOK UnexposedStarts ReadsBack NoMixture KeysStayKnown
