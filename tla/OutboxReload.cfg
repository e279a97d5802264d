CONSTANTS
    plain = plain  full = full
    Texts = {plain, full}
    Prepared <- MCPrepared
    Window = 1
    MaxMessages = 2
    MaxAttempts = 1
    MaxInputs = 2
    MaxUpsets = 1
    Unknown = Unknown
SPECIFICATION OutboxSpec
INVARIANT NoEchoMissed
CHECK_DEADLOCK FALSE
