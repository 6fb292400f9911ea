CONSTANTS
    v4 = v4
    v6 = v6
    junk = junk
    broken = broken
    site = site
    Hosts = {v4, v6, junk}
    BadHosts = {junk}
    BadPatterns = {broken}
    Files <- MCFiles
    Template <- MCTemplate
    Torn <- MCTorn
    MaxWord = 15
    Null = Null
    Absent = Absent
    NoConf = NoConf
    MaxInFlight = 2
SPECIFICATION FairSpec
INVARIANTS ConfigSound AllOrNothing NoneCut
PROPERTIES TemplateOnlyIfMissing StartsOrFails NotifiedEnds
