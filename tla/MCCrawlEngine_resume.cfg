\* A three-page site crawled over up to three sessions: crashes and cancels
\* anywhere, a page that may fail or be rate limited.
CONSTANTS
    a = a  b = b  c = c  d = d  e = e  f = f  g = g  h = h  x = x  y = y
    NoUrl = NoUrl
    Urls = {a, b, c, x}
    Internal = {a, b, c}
    Seeds <- FromA
    SitemapUrls <- MapC
    Links <- ChainLinks
    Location <- ChainRedirects
    NofollowLinks = {}
    Filtered = {}
    RobotsBlocked = {}
    Unprobeable = {}
    BlockedAddress = {}
    ResumeBarred = {}
    Flaky = {b}
    HostOf <- TwoHosts
    Mode = "http"
    MaxUrls = 5
    MaxDepth = 5
    MaxExternal = 1
    MaxExternalUrls = 1
    CheckExternal = TRUE
    HasDeadline = FALSE
    MayPanic = FALSE
    PoolSize = 2
    NRules = 2
    FullGraphRules = {2}
    MaxSessions = 3
SPECIFICATION FairSpec
INVARIANTS
    TargetsOnDisk
    NoRefetch
    DoneIsComplete
    PendingIsResumable
PROPERTY
    SessionEnds
