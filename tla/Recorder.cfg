SPECIFICATION FairSpec
CONSTANTS
    MaxRecordings = 2
    MaxFrames = 1
    MaxClicks = 4
    MaxWakeups = 1
    Users = {TRUE, FALSE}
CHECK_DEADLOCK FALSE
INVARIANT ReopenedAfterClose
INVARIANT NothingLeftOpen
PROPERTY QuitEndsThread
PROPERTY StopHeard
