CONSTANTS
    Items = {"tool","note"}
    Recovery = "websocket"
    Reads = {"older"}
    PageSize = 1
    MaxRows = 4
    MaxEpochs = 1
    MaxDrops = 0
    None = None
SPECIFICATION Spec
PROPERTY OlderPreserves
CHECK_DEADLOCK FALSE
