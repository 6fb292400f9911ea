CONSTANTS
    Requests <- MCRequests
    Answers <- MCAnswers
    Configs <- MCConfigs
    Target = "target"
    Urls = {"target", "cdn"}
    Refusals = {"Denied", "Upstream"}
    Opaque = {"junk"}
    NoEntry = NoEntry
    NoReply = NoReply
SPECIFICATION Spec
INVARIANTS OriginHonoured  ManagedHonest HitLikeMiss
