SPECIFICATION FairSpec
CONSTANTS
    Volts <- MCVolts
    PresentMin = 2500
    LockoutMv = 3100
    CritMv = 3133
    LowMv = 3400
    OkMv = 3550
    FullMv = 4150
    LockoutSamples = 3
    FullSamples = 3
    PatternsLen = 2
    Taps = 3
    Window = 1
    EventsLen = 3
    Scenarios <- MCScenarios
    Burst = 2
INVARIANT ScreenTruthful
INVARIANT SceneFollowsTimer
INVARIANT HoldBarFollows
PROPERTY WipeMeant
PROPERTY LockoutLifts
