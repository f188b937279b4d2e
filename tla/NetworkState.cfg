CONSTANTS
    MaxAttempts = 5
    StartupDelayEnough = FALSE
SPECIFICATION FairSpec
INVARIANTS IInv HostCreatedOnce ConnectNeedsHost ConnectedMeansComplete
PROPERTIES ConnectedIsFinal Settles
