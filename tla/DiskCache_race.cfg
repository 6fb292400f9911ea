CONSTANTS
    Keys = {k1}
    Slots = {s1, s2}
    Versions = {v1, v2}
    v1 = v1
    v2 = v2
    v3 = v3
    BodySize <- LenDiffer
    Life <- LifeTwo
    Storable = {v1, v2}
    NoCache = {}
    ConfigTtl = 2
    ConfirmTtls = {1}
    MetaSize = 1
    MaxSize = 2
    ResultMax = 0
    LeftBy = {NoMeta}
    Faults = FALSE
    Cancels = FALSE
    MaxTime = 2
    MaxCrashes = 0
    NoMeta = NoMeta
    Garbled = Garbled
    Foreign = Foreign
    NoBody = NoBody
    NoEntry = NoEntry
    NoKey = NoKey
    NoVersion = NoVersion
SPECIFICATION Spec
SYMMETRY SlotSymmetry
INVARIANTS IndInv
PROPERTIES AcceptedIsWhole HitIsRecent
