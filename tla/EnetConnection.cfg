SPECIFICATION Spec
CONSTANTS
    Clients = {c1}
    PeerCount = 2
    MaxConnects = 3
    MaxOnWire = 2
INVARIANTS TypeOK NamesInv NoMixUp EndsAgree
CHECK_DEADLOCK FALSE
