SPECIFICATION FairOta
CONSTANTS
    Checks = {c1}
    Downloads = {d1, d2}
    Images = {factory, new}
    Factory = factory
    NoHash = NoHash
    Incomplete = Incomplete
    Overrides = TRUE
PROPERTY ImplementsSlotUpdate
INVARIANT HashHolds
PROPERTY BusyEnds
