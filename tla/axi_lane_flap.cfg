\* The aw lane with one link flap on either core's PHY.  Nothing in the
\* lane is reset; while the sender's init.ready is low its FakePHY drives
\* 0, which the receiving core's PHY still presents on each clock enable.
CONSTANTS
    LaneWidth = 35
    PayloadVals <- MC_MixedVals
    TxDepth = 2
    RxDepth = 2
    CePeriod = 2
    Timeout = 5
    MaxBeats = 4
    Stalls = TRUE
    MaxFlaps = 1
SPECIFICATION Spec
PROPERTY LaneFraming
