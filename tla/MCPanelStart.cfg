\* A first start, with nothing saved: a counterexample.
SPECIFICATION Spec
CONSTANTS
    home = home
    shed = shed
    pw1 = pw1
    pw2 = pw2
    Entries <- TwoNetworks
    Addresses = {a1}
    Bytes = {1, 2}
    DefaultByte = 1
    BadByte = 0
    None = None
    Torn = Torn
    MaxCalls = 0
    MaxFaults = 0
INVARIANT SetupOpens
CHECK_DEADLOCK FALSE
