\* Two sessions one after the other, surfaces set and released around them.
CONSTANTS
    MaxSessions = 2
    MaxWindows = 3
    MaxFrames = 2
SPECIFICATION FairSpec
PROPERTY EndDataAccessUnlocks
CHECK_DEADLOCK FALSE
