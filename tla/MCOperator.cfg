\* Two clients, three requests at a time, three turns of every loop.
SPECIFICATION Spec
CONSTANTS
    Clients = {c1, c2}
    Threads = {r1, r2, r3}
    None = None
    Polls = 3
INVARIANTS
    TypeOK
    OneOperator
    FuncKeyShifted
    HoldAnswerTrue
SYMMETRY Symmetry
