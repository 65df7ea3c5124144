SPECIFICATION CubeSpec
CONSTANTS
    None = none
    Display = display
    Faces = {none, display, f1}
    Debounce = 2
    TiltTrigger = 1
    PollActive = 1
    PollScreen = 1
    PollLow = 2
    QueueLen = 3
    ScreenOff = 2
    LowPower = 4
    CheckPeriod = 2
    Prompt = TRUE
    Burst = 1
INVARIANT SettlesInTime
INVARIANT DarkForAReason
INVARIANT DarkInTime
PROPERTY Debounced
