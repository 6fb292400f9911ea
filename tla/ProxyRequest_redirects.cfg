CONSTANTS
    api = api
    cdn = cdn
    lan = lan
    ftp = ftp
    apiHost = apiHost
    cdnHost = cdnHost
    lanHost = lanHost
    app = app
    tool = tool
    r1 = r1
    NoSite = NoSite
    NoUrl = NoUrl
    NoEntry = NoEntry
    Slots = {s1}
    Urls = {api, cdn, lan, ftp}
    Web = {api, cdn, lan}
    Hosts = {apiHost, cdnHost, lanHost}
    HostOf <- HostTable
    TargetBlack = {lanHost}
    TargetWhite = {}
    Sites = {app, tool}
    OriginBlack = {app}
    OriginWhite = {}
    Planned = {api}
    Rules = {r1}
    RuleUrls <- RuleTable
    MaxRedirects = 2
    NumTiers = 1
    Quota <- OneQuota
    Left <- FromLan
SPECIFICATION FairSpec
INVARIANTS EveryHopPermitted CacheBehindPolicy HopsBounded
PROPERTIES RequestsEnd
