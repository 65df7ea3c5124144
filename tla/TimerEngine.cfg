SPECIFICATION FairWatchedSpec
CONSTANTS
    Display = Display
    Usb = Usb
    Long = Long
    Short = Short
    NoFace = NoFace
    Faces <- MCFaces
    Duration <- MCDuration
    LockSec = 2
    WarnSec = 1
    QCap = 2
INVARIANT TimeAccounted
INVARIANT OneChainOneCooldown
INVARIANT NeverStranded
INVARIANT LocksInTime
PROPERTY WarnedBeforeExpiry
PROPERTY LockHolds
PROPERTY ExpiresWhenServed
PROPERTY ImplementsFocusSession
PROPERTY KeepsFocusPromise
