SPECIFICATION FairSpec
CONSTANTS
    m1 = m1
    m2 = m2
    h1 = h1
    h2 = h2
    s1 = s1
    s2 = s2
    s3 = s3
    none = none
    First = s1
    None = none
    Existing <- MCTwoSessions
    Mutations <- MCTwoMutations
    FirstInputs <- MCNoMutations
    Handoffs <- MCNoHandoffs
    Sessions <- MCTwoSessions
    MaxRestarts = 2
PROPERTY MarksEnd
CHECK_DEADLOCK FALSE
