\* An operator's call and a forwarded one to the same charger; replies repeat and
\* come over another charger's socket.
CONSTANTS
    m1 = m1  m2 = m2  c1 = c1  c2 = c2  NoCall = NoCall
    Calls = {m1, m2}
    Chargers = {c1, c2}
    Owner <- SameOwner
    ForwardCalls = {m2}
    UseRedis = FALSE
    RedisFaults = FALSE
    MaxReplies = 2
    MaxConnects = 2
    MaxCrashes = 0
SPECIFICATION Spec
INVARIANTS TypeOK PendingOutstanding NoLostWakeup AnswersAreOwn
PROPERTIES NoticesJustified KeepsPromise
CHECK_DEADLOCK FALSE
