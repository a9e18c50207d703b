\* Link flaps: either side's phy.init.ready may fall once mid-traffic and
\* rise again; producers hold their beats, consumers are always ready.
CONSTANTS
    DownPorts <- MC_Ports
    UpPorts <- MC_Ports
    ResetPorts = {0}
    SerioPort = 1
    SerioVals <- MC_SerioVals
    SerioHold = TRUE
    StallPorts = {}
    Beats <- MC_Beats
    PayloadVals <- MC_PlainVals
    TxDepth = 2
    RxDepth = 2
    CePeriod = 2
    Timeout = 5
    MaxFlaps = 1
    FlapSides = {"tx", "rx"}
SPECIFICATION FairSpec
PROPERTY TxFraming GrantAtFrameBoundary DepacketizerRecovers
