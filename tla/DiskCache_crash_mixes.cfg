CONSTANTS
    Keys = {k1}
    Slots = {s1}
    Versions = {v1, v2}
    v1 = v1
    v2 = v2
    v3 = v3
    BodySize <- LenSame
    Life <- LifeSame
    Storable = {v1, v2}
    NoCache = {}
    ConfigTtl = 2
    ConfirmTtls = {1}
    MetaSize = 1
    MaxSize = 3
    ResultMax = 0
    LeftBy = {NoMeta}
    Faults = FALSE
    Cancels = FALSE
    MaxTime = 1
    MaxCrashes = 1
    NoMeta = NoMeta
    Garbled = Garbled
    Foreign = Foreign
    NoBody = NoBody
    NoEntry = NoEntry
    NoKey = NoKey
    NoVersion = NoVersion
SPECIFICATION Spec
INVARIANTS ServedIsWhole
