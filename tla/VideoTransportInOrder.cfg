\* A network that keeps the order and may lose two packets; the numbers wrap
\* at 8, before, at and after the packet with which the source is accepted.
CONSTANTS
    FrameLen <- LongerLengths
    slice_data_max_size = 2
    SeqCycle = 8
    FirstSeqs = {0, 3, 5, 6, 7}
    MaxProbationPackets = 3
    MaxLoss = 2
    MaxRepeat = 0
    Overtake = FALSE
SPECIFICATION FairSpec
INVARIANT ReceivedInOrder
PROPERTY EverythingArrives
CHECK_DEADLOCK FALSE
