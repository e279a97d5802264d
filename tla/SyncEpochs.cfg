CONSTANTS
    Items = {"note"}
    Recovery = "websocket"
    Reads = {"older","scan"}
    PageSize = 1
    MaxRows = 3
    MaxEpochs = 2
    MaxDrops = 1
    None = None
SPECIFICATION FairSpec
INVARIANTS OneEpoch Converged
PROPERTY BecomesReady
CHECK_DEADLOCK FALSE
