\* Commands that crawl and resume at once, and die anywhere.
CONSTANTS
    Procs = {p1, p2, p3}
    NoProc = NoProc
    MaxFiles = 3
    MaxSessions = 4
SPECIFICATION Spec
SYMMETRY Symmetry
INVARIANTS
    OneWriter
    LastCrawlKept
    NoForeignWal
