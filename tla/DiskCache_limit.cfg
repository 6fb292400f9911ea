CONSTANTS
    Keys = {k1, k2}
    Slots = {s1}
    Versions = {v1, v2, v3}
    v1 = v1
    v2 = v2
    v3 = v3
    BodySize <- LenGrow
    Life <- LifeGrow
    Storable = {v1, v2, v3}
    NoCache = {}
    ConfigTtl = 2
    ConfirmTtls = {1}
    MetaSize = 1
    MaxSize = 3
    ResultMax = 0
    LeftBy = {NoMeta, Foreign}
    Faults = FALSE
    Cancels = FALSE
    MaxTime = 1
    MaxCrashes = 1
    NoMeta = NoMeta
    Garbled = Garbled
    Foreign = Foreign
    NoBody = NoBody
    NoEntry = NoEntry
    NoKey = NoKey
    NoVersion = NoVersion
SPECIFICATION Spec
INVARIANTS LimitKept WritersCleanUp OvershootBounded ServedIsWhole
PROPERTIES CleanStart
