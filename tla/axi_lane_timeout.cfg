\* The aw lane with an always-ready receiving endpoint: the zero length
\* never ends a frame, so the Depacketizer's timer runs out after Timeout
\* cycles of traffic and the lane goes silent.
CONSTANTS
    LaneWidth = 35
    PayloadVals <- MC_PlainVals
    TxDepth = 2
    RxDepth = 2
    CePeriod = 2
    Timeout = 5
    MaxBeats = 4
    Stalls = FALSE
    MaxFlaps = 0
SPECIFICATION FairSpec
PROPERTY LaneDelivers
