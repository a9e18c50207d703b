\* Misbehaving endpoints: SERIO (port 1) may withdraw a beat before it is
\* taken, and the Etherbone consumer (port 0) may hold ready low for any
\* number of cycles, so the Depacketizer timer expires on stalled frames.
CONSTANTS
    DownPorts <- MC_Ports
    UpPorts <- MC_Ports
    ResetPorts = {0}
    SerioPort = 1
    SerioVals <- MC_SerioVals
    SerioHold = FALSE
    StallPorts = {0}
    Beats <- MC_Beats
    PayloadVals <- MC_PlainVals
    TxDepth = 1
    RxDepth = 2
    CePeriod = 2
    Timeout = 5
    MaxFlaps = 0
    FlapSides = {"tx", "rx"}
SPECIFICATION FairSpec
PROPERTY GrantAtFrameBoundary DepacketizerRecovers
VIEW DataPathView
