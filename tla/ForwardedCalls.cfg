\* One command, a session and the one that replaces it, every thread once.
CONSTANTS
    s1 = s1  s2 = s2  m1 = m1  y1 = y1
    NoSession = NoSession  NoCommand = NoCommand
    Sessions = {s1, s2}
    Commands = {m1}
    Syncers = {y1}
SPECIFICATION Spec
INVARIANTS TypeOK NotedRepliesForwarded
PROPERTY KeepsRelayPromise
CHECK_DEADLOCK FALSE
