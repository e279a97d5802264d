CONSTANTS
    Items = {"tool","note"}
    Recovery = "websocket"
    Reads = {}
    PageSize = 1
    MaxRows = 4
    MaxEpochs = 1
    MaxDrops = 1
    None = None
SPECIFICATION Spec
INVARIANT HistoryContiguous
CHECK_DEADLOCK FALSE
