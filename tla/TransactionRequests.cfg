\* Two requests, to one charger or to two, and two transactions: requests are
\* rebound, completed and cleared in every order.
CONSTANTS
    c1 = c1
    c2 = c2
    n1 = n1
    r1 = r1
    r2 = r2
    Requests = {r1, r2}
    NoRequest = NoRequest
    Chargers = {c1, c2}
    Connectors = {"1"}
    Txs = {t1, t2}
    NoTx = NoTx
    Consumers = {n1}
    NoConsumer = NoConsumer
    Charger <- ChargerOf
    MaxInbox = 2
SPECIFICATION Spec
SYMMETRY Symmetric
INVARIANTS TypeOK IndexesAgree FindsAll RejectedStays
PROPERTIES CompletedByOwnEnd
CHECK_DEADLOCK FALSE
