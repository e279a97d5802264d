CONSTANTS
    g1 = g1  g2 = g2  g3 = g3  p1 = p1  p2 = p2
    NoOne = NoOne
    Attempts = {g1, g2, g3}
    Processes = {p1, p2}
    ProcessOf <- MCProcessOf
    c1 = c1  c2 = c2
    Nothing = Nothing
    Nobody = Nobody
    Unheld = Unheld
    Controllers = {c1, c2}
    Sockets <- MCSockets
    MaxKeys = 2
    MaxFaults = 1
    Revocable = {c1}
    m1 = m1
    NoMessage = NoMessage
    Messages = {m1}
    MaxMishaps = 1
    MaxMoves = 1
    MaxArchives = 1
SPECIFICATION ControllersSpec
INVARIANTS
    OneWriter NoStrandedRecord
    CredentialInv
    DeliveryInv
PROPERTIES
    AcquireEnds
    SavedCredentialStays ControllersSettle
    VerdictsStand MoveFindsSettled MessagesMove
CHECK_DEADLOCK FALSE
