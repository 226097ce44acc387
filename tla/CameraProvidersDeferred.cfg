\* Two processes and no clients: is every deferred registration initialized?
CONSTANTS
    NumCameras = 1
    MaxLives = 2
    MaxRescans = 0
    MaxConnects = 0
SPECIFICATION FairSpec
PROPERTY DeferredInitialized
CHECK_DEADLOCK FALSE
