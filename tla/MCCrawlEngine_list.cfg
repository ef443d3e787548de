\* A list: its pages are fetched and nothing else, and what they lead to is
\* registered; one of its pages is filtered and one is disallowed; some of the
\* externals are not to be probed on a resume.
CONSTANTS
    a = a  b = b  c = c  d = d  e = e  f = f  g = g  h = h  x = x  y = y
    NoUrl = NoUrl
    Urls = {a, b, c, d, e, x, y}
    Internal = {a, b, c, d, e}
    Seeds <- FromABE
    SitemapUrls <- ListSitemap
    Links <- ListLinks
    Location <- ListRedirects
    NofollowLinks = {}
    Filtered = {b}
    RobotsBlocked = {e}
    Unprobeable = {}
    BlockedAddress = {x}
    ResumeBarred = {x}
    Flaky = {a}
    HostOf <- TwoHosts
    Mode = "list"
    MaxUrls = 5
    MaxDepth = 5
    MaxExternal = 1
    MaxExternalUrls = 2
    CheckExternal = TRUE
    HasDeadline = FALSE
    MayPanic = FALSE
    PoolSize = 2
    NRules = 2
    FullGraphRules = {2}
    MaxSessions = 3
SPECIFICATION Spec
INVARIANTS
    IInv
    NoReprobe
    OnlyWhatWasAsked
