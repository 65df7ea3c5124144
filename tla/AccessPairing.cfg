SPECIFICATION Spec
CONSTANTS
    Phones = {a, b}
    Ble = Ble
    Clients = {tcp}
    NSlots = 2
    None = None
    FlashFails = TRUE
    MaxKeys = 1
INVARIANT AskedCanAnswer
