CONSTANTS
    Clients = {c1}
    Slots = {s1}
    NoClient = NoClient
    MaxCuts = 1
    InitDelay = 2
    MaxInFlight = 3
    MaxCorrupt = 2
    MaxRefused = 1
    Files = {"INIT_SCRIPT", "IMAGE"}
    FreeAborts = TRUE
    MaxAdrift = 1
SPECIFICATION FairSpec
INVARIANTS OneRequest RequestKept
PROPERTIES RequestRetired
CHECK_DEADLOCK FALSE
