CONSTANTS
    api = api
    cdn = cdn
    lan = lan
    ftp = ftp
    apiHost = apiHost
    cdnHost = cdnHost
    lanHost = lanHost
    app = app
    tool = tool
    r1 = r1
    NoSite = NoSite
    NoUrl = NoUrl
    NoEntry = NoEntry
    Slots = {s1, s2}
    Urls = {api, cdn}
    Web = {api, cdn}
    Hosts = {apiHost, cdnHost}
    HostOf <- TwoHosts
    TargetBlack = {cdnHost}
    TargetWhite = {apiHost, cdnHost}
    Sites = {app}
    OriginBlack = {}
    OriginWhite = {app}
    Planned = {api}
    Rules = {}
    RuleUrls <- NoRules
    MaxRedirects = 0
    NumTiers = 2
    Quota <- Quotas
    Left <- FromCdn
SPECIFICATION Spec
SYMMETRY SlotSymmetry
INVARIANTS IndInv CredentialsBypass LabelsHonest ChargedFirst
