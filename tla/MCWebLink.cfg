CONSTANTS
    s1 = s1
    everyScope = everyScope
    Calls <- MCCalls
    Scopes = {s1}
    All = everyScope
    GiveUp = 1
    Calm = TRUE
    MaxLosses = 2
    MaxSubs = 3
    MaxConts = 1
    MaxAsks = 1
    s2 = s2
    NoSession = NoSession
    Sessions = {s1, s2}
    Cap = 2
    MaxSeq = 3
    MaxArrivals = 3
CHECK_DEADLOCK FALSE
SPECIFICATION MCSpec
INVARIANTS
    SubscriptionHolds
    AnswersKept
PROPERTIES
    TimedCallsEnd
    BufferedComesOut
