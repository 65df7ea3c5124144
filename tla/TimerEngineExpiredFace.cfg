SPECIFICATION WatchedSpec
CONSTANTS
    Display = Display
    Usb = Usb
    Long = Long
    Short = Short
    NoFace = NoFace
    Faces <- MCFaces
    Duration <- MCDuration
    LockSec = 2
    WarnSec = 1
    QCap = 2
PROPERTY ExpiredNamesItsFace
