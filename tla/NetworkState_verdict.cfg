CONSTANTS
    MaxAttempts = 5
    StartupDelayEnough = TRUE
SPECIFICATION FairSpec
PROPERTY VerdictFollows
