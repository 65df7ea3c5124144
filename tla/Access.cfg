SPECIFICATION Spec
CONSTANTS
    Phones = {a, b}
    Ble = Ble
    Clients = {tcp}
    NSlots = 2
    None = None
    FlashFails = TRUE
    MaxKeys = 2
SYMMETRY Symmetry
INVARIANT BondDurable
INVARIANT LastSessionServed
INVARIANT RevokedRefused
