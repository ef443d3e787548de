\* A resume of the backup while the next crawl rotates.
CONSTANTS
    Procs = {p1, p2}
    NoProc = NoProc
    MaxFiles = 3
    MaxSessions = 6
SPECIFICATION Spec
SYMMETRY Symmetry
INVARIANTS
    LiveFileStays
