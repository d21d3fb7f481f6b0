CONSTANTS
    m1 = m1  m2 = m2  c1 = c1  c2 = c2  NoCall = NoCall
    Calls = {m1}
    Chargers = {c1}
    Owner <- OneOwner
    ForwardCalls = {}
    UseRedis = TRUE
    RedisFaults = FALSE
    MaxReplies = 1
    MaxConnects = 2
    MaxCrashes = 0
SPECIFICATION Spec
INVARIANT ReconciledAfterReconnect
CHECK_DEADLOCK FALSE
