\* Two processes one after the other with a camera each, one rescan and two connects.
CONSTANTS
    NumCameras = 1
    MaxLives = 2
    MaxRescans = 1
    MaxConnects = 2
SPECIFICATION Spec
INVARIANTS CamerasReported NoGhostCamera ClientLetGo
CHECK_DEADLOCK FALSE
