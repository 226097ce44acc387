\* Three nodes, the owner's stores seen in either order.
CONSTANTS
    Count = 3
    WaitTries = 1
    Slack = 2
    Sizes = {1, 4}
    MaxCalls = 4
    StoresInOrder = FALSE
SPECIFICATION FairSpec
PROPERTIES FrameDecoded
CHECK_DEADLOCK FALSE
