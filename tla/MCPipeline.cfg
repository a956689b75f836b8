SPECIFICATION MCFairSpec
CONSTANTS
    Sides = {"intake", "pipeline"}
    a = a
    b = b
    c = c
    d = d
    e = e
    press = press
    blog = blog
    Tokens <- MCTokens
    Fetchable <- MCFetchable
    MaxFetched = 3
    Domains = {press, blog}
    TrustedDomains = {press}
    MinTokens = 3
    MinLength = 2
    MaxItems = 2
    Concurrency = 1
    Filters <- MCFilters
    Items = {a, b}
    Trusted = {a}
    BatchSize = 1
    Configs <- MCConfigs
INVARIANTS
    EnrichIsComplete
    TypeOK
    EveryArticleCounted
    LossNeedsFault
    SiteAgreesWithTable
PROPERTIES
    OneItemPerStory
    EnrichReturns
    RunsEnd
CHECK_DEADLOCK FALSE
