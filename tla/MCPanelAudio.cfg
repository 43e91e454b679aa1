\* Packets that fill, overflow and trim a small ring.
SPECIFICATION FairSpec
CONSTANTS
    Prebuffer = 2
    MaxBuffer = 2
    Ring = 3
    MaxPacket = 2
    MaxCalls = 3
INVARIANTS TypeOK IdleIsQuiet PlayingIsHeard
PROPERTIES ImplementsOneSession StopEnds CodecCloses
