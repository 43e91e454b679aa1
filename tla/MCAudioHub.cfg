\* Safety: two requests and the shutdown, two sessions.
SPECIFICATION Spec
CONSTANTS
    Threads = {r1, r2, main}
    Main = main
    Listeners = {l1}
    NoThread = nobody
    MaxGen = 2
INVARIANTS
    TypeOK
    StartingIsLocked
    NoSessionAbandoned
    OneConnection
    SessionHasOwner
    PanicAfterTeardown
PROPERTY ImplementsOneSession
