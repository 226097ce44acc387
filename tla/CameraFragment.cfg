SPECIFICATION FairSpec
CONSTANTS
    MaxVisits = 2
    MaxContexts = 1
    MaxFaults = 1
    MaxSwitches = 1
CHECK_DEADLOCK FALSE
INVARIANTS PermitAccount PausedClosed
PROPERTY CloseReturns
