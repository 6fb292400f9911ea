CONSTANTS
    Buckets = {b1}
    Streams = {s1, s2}
    NumTiers = 2
    Period <- Periods
    Max <- Maxima
    ResultMax = 3
    Top = 4
    Chunks = {1, 2}
    MaxTime = 2
    MaxPulled = 5
    MaxSeen = 5
    NoBucket = NoBucket
    NoWindow = NoWindow
SPECIFICATION Spec
SYMMETRY StreamSymmetry
INVARIANTS IndInv WindowsHonest HardCap SoftCap LaterTiersCount
