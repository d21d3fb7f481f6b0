CONSTANTS
    a = a  b = b  c = c  d = d  wa = wa  va = va  wb = wb  pc = pc  wd = wd
    Nodes = {a, b, c, d}
    Origin = a
    Knows <- Neighbours
    Eligible <- Neighbours
    Tier <- InTurn
    Limit <- TwoAtOrigin
    Downstream <- Down
    Upstream <- Up
    Workers = {wa, va, wb, pc, wd}
    Pollers = {pc}
    Nobody = Nobody
    NoPayload = NoPayload
    Home <- HomeOf
    Urls <- TwoForC
    MaxEvents = 1
SPECIFICATION FairSpec
INVARIANTS TypeOK NoLoops NoneForgotten CompleteWhenTold
PROPERTIES EveryoneHears
CHECK_DEADLOCK FALSE
