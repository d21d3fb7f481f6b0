CONSTANTS
    m1 = m1  m2 = m2  c1 = c1  c2 = c2  NoCall = NoCall
    Calls = {m1}
    Chargers = {c1}
    Owner <- OneOwner
    ForwardCalls = {}
    UseRedis = TRUE
    RedisFaults = TRUE
    MaxReplies = 1
    MaxConnects = 2
    MaxCrashes = 1
SPECIFICATION FairSpec
PROPERTY CallersReturn
CHECK_DEADLOCK FALSE
