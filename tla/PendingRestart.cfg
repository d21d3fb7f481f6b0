CONSTANTS
    m1 = m1  m2 = m2  c1 = c1  c2 = c2  NoCall = NoCall
    Calls = {m1}
    Chargers = {c1, c2}
    Owner <- OneOwner
    ForwardCalls = {}
    UseRedis = TRUE
    RedisFaults = FALSE
    MaxReplies = 2
    MaxConnects = 3
    MaxCrashes = 1
SPECIFICATION Spec
INVARIANTS AnswersAreOwn RestoredAfterCrash
CHECK_DEADLOCK FALSE
