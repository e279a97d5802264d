CONSTANTS
    k1 = k1  k2 = k2  k3 = k3 i1 = i1  i2 = i2  t1 = t1  h1 = h1  h2 = h2
    None = None
    Keys = {k1, k2, k3}
    Intents = {i1, i2}
    Targets = {t1}
    TargetsOf <- MCTargetsOf
    HandleIds = {h1, h2}
    Kinds = {"native", "reserved"}
    Ttl = 1
    MaxEntries = 2
    MaxBytes = 6
    PinShare = 2
    EntryOverhead = 1
    Reservation = 1
    HandleBytes = 1
    MaxEnables = 1
SYMMETRY Symmetry
SPECIFICATION OperationsSpec
INVARIANTS AtMostOnce TruthfulVerdict EvidenceAccounted SubscriberInformed
PROPERTIES KeepsPromise NoHiddenNativeWork
CHECK_DEADLOCK FALSE
