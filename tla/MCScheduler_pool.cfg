\* Pages and probes of four hosts, every way a task may end.
CONSTANTS
    a = a  b = b  x = x  y = y
    a1 = a1  a2 = a2  a3 = a3  b1 = b1
    x1 = x1  x2 = x2  x3 = x3  x4 = x4  y1 = y1
    NoUrl = NoUrl
    Hosts = {a, b, x, y}
    Foreign = {x, y}
    Pages = {a1, a2, a3, b1}
    Probes = {x1, x2, x3, x4, y1}
    PageHost <- MCPageHost
    ProbeHost <- MCProbeHost
    Seeds <- MCSeeds
    Found <- MCFound
    DefaultLimit = 2
    OverloadStreak = 2
    RecoveryStreak = 1
    MaxWait = 2
    MaxPerHost = 3
    FailureStreak = 2
    MaybeSlow = {a}
    MaxScan = 1
    MaxInFlight = 2
    MaxRetries = 1
    Delay = 1
SPECIFICATION FairSpec
INVARIANTS
    NothingStranded
    SerialHosts
PROPERTIES
    RetryAfterObeyed
    LoopEnds
