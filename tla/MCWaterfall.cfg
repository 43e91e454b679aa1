\* Two requests, the shutdown, two scanners and two loops.
SPECIFICATION Spec
CONSTANTS
    Threads = {r1, r2, main}
    Main = main
    Scanners = {s1, s2}
    FirstHost = s1
    MaxGen = 2
INVARIANTS
    TypeOK
    RunningHasLoop
    ModeIsRestored
    NoOrphanLoop
SYMMETRY Handlers
