CONSTANTS
    k1 = k1  k2 = k2  k3 = k3  i1 = i1  i2 = i2  t1 = t1  h1 = h1  h2 = h2
    None = None
    Keys = {k1, k2}
    Intents = {i1}
    Targets = {t1}
    TargetsOf <- MCTargetsOf
    HandleIds = {h1, h2}
    Kinds = {"async"}
    Ttl = 1
    MaxEntries = 2
    MaxBytes = 4
    PinShare = 2
    EntryOverhead = 1
    Reservation = 0
    HandleBytes = 1
    MaxEnables = 1
    model = model  effort = effort
    Settings = {model, effort}
    Values = {"old", "new"}
    Initially = "old"
    MaxIntents = 2
    MaxVersions = 2
    NoIntent = NoIntent
    u1 = u1  s1 = s1  s2 = s2  a1 = a1  a2 = a2
    NoSession = NoSession
    NoAgent = NoAgent
    Clients = {u1}
    Sessions = {s1, s2}
    Parent <- MCParent
    Ancestors <- MCAncestors
    Agents = {a1, a2}
    Proposals <- MCProposals
    MaxMischances = 2
SPECIFICATION AgentSpec
INVARIANTS SettingInv AttachmentInv DoubtProtected
PROPERTIES CacheDrains ConfirmedByEvidence LateAnswersSilent EveryIntentEnds AcquiresEnd UnneededDetached
CHECK_DEADLOCK FALSE
