\* A network that loses, repeats and reorders; the numbers wrap at 4.
CONSTANTS
    FrameLen <- EdgeLengths
    slice_data_max_size = 2
    SeqCycle = 4
    FirstSeqs = {1}
    MaxProbationPackets = 2
    MaxLoss = 2
    MaxRepeat = 1
    Overtake = TRUE
SPECIFICATION Spec
INVARIANTS WholeFrameIntact StartsAtStart
CHECK_DEADLOCK FALSE
