\* Two networks, two addresses; two calls, two faults.
\* With its calls made and nothing to retry the panel rests.
CHECK_DEADLOCK FALSE
SPECIFICATION FairSpec
CONSTANTS
    home = home
    shed = shed
    pw1 = pw1
    pw2 = pw2
    Entries <- TwoNetworks
    Addresses = {a1, a2}
    Bytes = {1, 2}
    DefaultByte = 1
    BadByte = 0
    None = None
    Torn = Torn
    MaxCalls = 2
    MaxFaults = 2
INVARIANTS
    TypeOK
    WritesThrough
    NothingForgotten
    LinkAgrees
PROPERTY
    Reconnects
