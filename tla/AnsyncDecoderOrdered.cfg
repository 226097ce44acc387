\* Two nodes: the owner meets a full ring, waits, gives up and goes round.
CONSTANTS
    Count = 2
    WaitTries = 1
    Slack = 2
    Sizes = {1, 4}
    MaxCalls = 4
    StoresInOrder = TRUE
SPECIFICATION FairSpec
INVARIANTS TypeOK RingOccupancy UnreadCount SlotExclusive VideoSlack NoUseAfterFree
PROPERTIES FrameDecoded DestroyReturns ImplementsFrameQueue
CHECK_DEADLOCK FALSE
