SPECIFICATION FairSpec
CONSTANTS
    Clients = {c1, c2}
    PeerCount = 1
    MaxConnects = 2
    MaxOnWire = 2
PROPERTIES KeepsOrder HalfOpenEnds
CHECK_DEADLOCK FALSE
