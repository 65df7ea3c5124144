SPECIFICATION Spec
CONSTANTS
    Tasks = {usb, ble}
    Button = button
    Words = {w1, w2}
    Salts = {s1, s2, s3, s4}
    None = None
    Shut = Shut
    Lockout = 2
    Toggles = {1}
    FlashFails = TRUE
    MaxCycles = 1
CHECK_DEADLOCK FALSE
SYMMETRY Symmetry
INVARIANT OnlyChosenOpens
INVARIANT WrongIsCounted
INVARIANT RamIsDurable
INVARIANT ResetNotBlocked
PROPERTY ImplementsPassphraseGuard
