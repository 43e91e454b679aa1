\* README.md's "TEARDOWN on shutdown", against the code: a counterexample.
SPECIFICATION Spec
CONSTANTS
    Threads = {r1, main}
    Main = main
    Listeners = {}
    NoThread = nobody
    MaxGen = 1
INVARIANT ShutdownTearsDown
