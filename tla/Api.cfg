SPECIFICATION MCSpec
CONSTANTS
    UserSlots = 1
    SystemSlots = 2
    Names = {a}
    Bodies = {x, y}
    Peers = {p, q}
    None = None
    Calls = {c1}
    Ops = 3
    Cuts = 1
    Losses = 1
CHECK_DEADLOCK FALSE
INVARIANT ReloadsSame
INVARIANT ChainReachesAll
PROPERTY Settles
