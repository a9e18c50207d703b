CONSTANTS
    DownPorts <- MC_Ports
    UpPorts <- MC_Ports
    ResetPorts = {0}
    SerioPort = 1
    SerioVals <- MC_SerioVals
    SerioHold = FALSE
    StallPorts = {}
    Beats <- MC_Beats
    PayloadVals <- MC_PlainVals
    TxDepth = 2
    RxDepth = 2
    CePeriod = 2
    Timeout = 8
    MaxFlaps = 0
    FlapSides = {"tx", "rx"}
SPECIFICATION Spec
PROPERTY TxFraming
