\* Two requests at a time, two scanners, two selections and a crash.
SPECIFICATION Spec
CONSTANTS
    Scanners = {s1, s2}
    Threads = {r1, r2}
    None = None
    Torn = Torn
    MaxPicks = 2
    MaxWrites = 1
    MaxCrashes = 1
INVARIANTS
    TypeOK
    CacheNotOlder
    DiskKeepsSelection
SYMMETRY Symmetry
