CONSTANTS
    Clients = {c1}
    Slots = {s1}
    NoClient = NoClient
    MaxCuts = 0
    InitDelay = 1
    MaxInFlight = 2
    MaxCorrupt = 0
    MaxRefused = 0
    Files = {"INIT_SCRIPT", "IMAGE"}
    FreeAborts = FALSE
    MaxAdrift = 0
SPECIFICATION Spec
INVARIANT RunsClientInit
