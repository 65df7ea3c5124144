SPECIFICATION Spec
CONSTANTS
    Keys = {k1, k2}
    Small = small
    Big = big
    Values = {small, big}
    None = None
    Weight <- MCWeight
    PlainCap = 3
    MaxEntries = 2
    Bytes = {0, 1}
    UserCap = 2
    MasterKeys = {m1, m2, m3, m4, m5}
    FlashFails = TRUE
SYMMETRY Symmetry
INVARIANT KvKept
INVARIANT UserKept
