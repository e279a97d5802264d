CONSTANTS
    Items = {"text","tool","note"}
    Recovery = "http"
    Reads = {"older","scan"}
    PageSize = 2
    MaxRows = 4
    MaxEpochs = 1
    MaxDrops = 1
    None = None
    plain = plain  full = full
    Texts = {plain, full}
    Prepared <- MCPrepared
    Window = 1
    MaxMessages = 2
    MaxAttempts = 2
    MaxInputs = 2
    MaxUpsets = 2
    Unknown = Unknown
SPECIFICATION BrowserSpec
INVARIANTS DisplayInv OutboxInv
PROPERTIES CursorSkipsNothing ScanPreserves OlderPreservesAdjoining
CHECK_DEADLOCK FALSE
