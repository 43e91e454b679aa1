\* README.md's rule of the shutdown, against a change of the host.
SPECIFICATION HistorySpec
CONSTANTS
    Threads = {r1, main}
    Main = main
    Scanners = {s1, s2}
    FirstHost = s1
    MaxGen = 1
INVARIANT ShutdownRestoresOwn
