CONSTANTS
    Items = {"text"}
    Recovery = "websocket"
    Reads = {}
    PageSize = 3
    MaxRows = 3
    MaxEpochs = 1
    MaxDrops = 1
    None = None
SPECIFICATION Spec
INVARIANT Converged
CHECK_DEADLOCK FALSE
