\* Enough buffers that nothing waits; no timeout runs out.
CONSTANTS
    NumVideoBuffers = 3
    NumStillBuffers = 1
    MaxRequests = 3
    MaxSpurious = 0
    Timeouts = FALSE
    IoctlsFail = FALSE
SPECIFICATION Spec
INVARIANT ShutterInOrder
CHECK_DEADLOCK FALSE
