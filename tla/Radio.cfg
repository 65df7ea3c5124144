SPECIFICATION MCSpec
CONSTANTS
    home = home
    office = office
    Nets = {home, office, odd}
    Bad = {odd}
    None = None
    MaxFails = 2
    Ops = 2
    Peers = {p1}
    Nobody = Nobody
CHECK_DEADLOCK FALSE
INVARIANT RetryAlive
INVARIANT DownStays
INVARIANT StatusNamesLink
INVARIANT BondedReachable
PROPERTY FailsOver
