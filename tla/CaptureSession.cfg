\* Three requests against two video buffers and one still buffer.
CONSTANTS
    NumVideoBuffers = 2
    NumStillBuffers = 1
    MaxRequests = 3
    MaxSpurious = 1
    Timeouts = TRUE
    IoctlsFail = TRUE
SPECIFICATION FairSpec
INVARIANTS TypeOK BufferConservation FramesHeld ConfigureIdle AnsweredOnce ResultsInOrder
PROPERTIES QuietAfterClose CallsReturn RequestAnswered
CHECK_DEADLOCK FALSE
