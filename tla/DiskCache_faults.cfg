CONSTANTS
    Keys = {k1}
    Slots = {s1}
    Versions = {v1, v2}
    v1 = v1
    v2 = v2
    v3 = v3
    BodySize <- LenDiffer
    Life <- LifeTwo
    Storable = {v1, v2}
    NoCache = {v1}
    ConfigTtl = 2
    ConfirmTtls = {1}
    MetaSize = 1
    MaxSize = 3
    ResultMax = 1
    LeftBy = {NoMeta, Garbled, Foreign}
    Faults = TRUE
    Cancels = TRUE
    MaxTime = 2
    MaxCrashes = 2
    NoMeta = NoMeta
    Garbled = Garbled
    Foreign = Foreign
    NoBody = NoBody
    NoEntry = NoEntry
    NoKey = NoKey
    NoVersion = NoVersion
SPECIFICATION FairSpec
INVARIANTS BodiesComplete
PROPERTIES ImplementsStore RequestsEnd StartupEnds
