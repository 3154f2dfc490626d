CONSTANTS
    NMaps = 3
    XdpMode = "drv"
    NativeXdp = {TRUE, FALSE}
    Answers = {"y", "n"}
    MaxCrashes = 3
SPECIFICATION Spec
INVARIANT UpServing
PROPERTIES CleanStopLeavesNothing CleanStartSucceeds
