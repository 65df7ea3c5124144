SPECIFICATION FairSpec
CONSTANTS
    Tasks = {usb}
    Button = button
    Words = {w1, w2}
    Salts = {s1, s2, s3, s4}
    None = None
    Shut = Shut
    Lockout = 2
    Toggles = {0}
    FlashFails = FALSE
    MaxCycles = 0
CHECK_DEADLOCK FALSE
PROPERTY LockoutResets
