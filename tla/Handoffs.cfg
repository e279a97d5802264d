SPECIFICATION Spec
CONSTANTS
    m1 = m1
    m2 = m2
    h1 = h1
    h2 = h2
    s1 = s1
    s2 = s2
    s3 = s3
    none = none
    First = s1
    None = none
    Existing <- MCOneSession
    Mutations <- MCTwoMutations
    FirstInputs <- MCOneMutation
    Handoffs <- MCTwoHandoffs
    Sessions <- MCThreeSessions
    MaxRestarts = 2
CONSTRAINT MCHandoffs
INVARIANTS ReservedQuiet Covered FenceHolds SupersededQuiet NoWorkLeftBehind
PROPERTY CommitFindsQuiet
CHECK_DEADLOCK FALSE
