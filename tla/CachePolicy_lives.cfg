CONSTANTS
    Host = "h"
    Path = "/p"
    none = none
    a = a
    t1 = t1
    NoTag = NoTag
    NoEntry = NoEntry
    Versions = {1, 2, 3, 4}
    Answer <- MCAnswer
    Tags = {t1}
    Requests <- MCRequests
    Values = {none, a}
    Blank = none
    Configs <- MCConfigs
    MaxReal = 2
    MaxDrift = 1
SPECIFICATION Spec
INVARIANTS HitsWithinLife HitsAllowed LastRuleDecides VariantKept ConfirmedIsCurrent
