\* Steady link: no link-down, producers hold their beats, consumers always
\* ready (SERIODepacketizer ties sink.ready to 1).
CONSTANTS
    DownPorts <- MC_Ports
    UpPorts <- MC_Ports
    ResetPorts = {0}
    SerioPort = 1
    SerioVals <- MC_SerioVals
    SerioHold = TRUE
    StallPorts = {}
    Beats <- MC_Beats
    PayloadVals <- MC_PlainVals
    TxDepth = 2
    RxDepth = 2
    CePeriod = 2
    Timeout = 5
    MaxFlaps = 0
    FlapSides = {"tx", "rx"}
SPECIFICATION FairSpec
INVARIANT TypeOK
PROPERTY TxFraming ChannelSpec OfferTaken
