\* Liveness: App.Close against two requests and one session.
SPECIFICATION FairSpec
CONSTANTS
    Threads = {r1, r2, main}
    Main = main
    Listeners = {}
    NoThread = nobody
    MaxGen = 1
PROPERTY ShutdownEnds
