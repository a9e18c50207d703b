\* The aw lane with a stalling receiving endpoint, payload words that look
\* like a preamble or a header, and one link flap on either core's PHY.
CONSTANTS
    LaneWidth = 35
    PayloadVals <- MC_MixedVals
    TxDepth = 2
    RxDepth = 2
    CePeriod = 2
    Timeout = 5
    MaxBeats = 4
    Stalls = TRUE
    MaxFlaps = 1
SPECIFICATION Spec
INVARIANT TypeOK
PROPERTY LaneNoReplay
