CONSTANTS
    Clients = {c1, c2}
    Slots = {s1}
    NoClient = NoClient
    MaxCuts = 1
    InitDelay = 1
    MaxInFlight = 1
    MaxCorrupt = 0
    MaxRefused = 0
    Files = {"INIT_SCRIPT"}
    FreeAborts = TRUE
    MaxAdrift = 1
SPECIFICATION FairSpec
INVARIANTS IInv IDInv
PROPERTIES ScriptArrives
