\* The panel restarts with the scanner's session held.
SPECIFICATION Spec
CONSTANTS
    Prebuffer = 2
    MaxBuffer = 2
    Ring = 3
    MaxPacket = 2
    MaxCalls = 3
INVARIANT RebootTearsDown
