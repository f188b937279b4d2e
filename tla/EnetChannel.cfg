SPECIFICATION FairSpec
CONSTANTS
    Packets = 14
    Long = {10}
    FragmentCount = 3
    FreeWindows = 3
    WindowSize = 2
    MaxInTransit = 3
    Lifetime = 6
    MaxOnWire = 2
    Base = 8
    MaxQueued = 0
INVARIANTS TypeOK AckMeansReceived StaysInWindow WindowsCounted
PROPERTY KeepsPromise
CHECK_DEADLOCK FALSE
