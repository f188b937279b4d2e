CONSTANTS
    Clients = {c1, c2}
    Slots = {s1, s2}
    NoClient = NoClient
    MaxCuts = 0
    InitDelay = 1
    MaxInFlight = 1
    MaxCorrupt = 0
    MaxRefused = 0
    Files = {"INIT_SCRIPT", "IMAGE"}
    FreeAborts = FALSE
    MaxAdrift = 0
SPECIFICATION Spec
INVARIANTS RequestFromSender
