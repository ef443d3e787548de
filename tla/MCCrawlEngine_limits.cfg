\* Every limit at once, over two sessions: depth, pages, externals registered
\* and probed, a deadline, patterns, robots.txt, nofollow and the perimeter.
CONSTANTS
    a = a  b = b  c = c  d = d  e = e  f = f  g = g  h = h  x = x  y = y
    NoUrl = NoUrl
    Urls = {a, b, c, d, e, f, g, h, x, y}
    Internal = {a, b, c, d, e, f, g, h}
    Seeds <- FromADEG
    SitemapUrls <- FanSitemap
    Links <- FanLinks
    Location <- NoRedirects
    NofollowLinks <- FanNofollow
    Filtered = {b, f}
    RobotsBlocked = {e}
    Unprobeable = {}
    BlockedAddress = {g}
    ResumeBarred = {y}
    Flaky = {}
    HostOf <- TwoHosts
    Mode = "http"
    MaxUrls = 1
    MaxDepth = 0
    MaxExternal = 1
    MaxExternalUrls = 1
    CheckExternal = TRUE
    HasDeadline = TRUE
    MayPanic = TRUE
    PoolSize = 2
    NRules = 1
    FullGraphRules = {1}
    MaxSessions = 2
SPECIFICATION Spec
INVARIANTS
    BudgetPerSession
