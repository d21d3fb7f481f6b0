\* One connection, two connectors.
CONSTANTS
    n1 = n1  n2 = n2  n3 = n3  t1 = t1  t2 = t2  t3 = t3  k1 = k1  k2 = k2
    NoConsumer = NoConsumer  NoTx = NoTx
    Consumers = {n1}
    Connectors = {k1, k2}
    Txs = {t1, t2}
    ForeignTxs = {}
    MaxRestarts = 0
SPECIFICATION Spec
INVARIANT StableIdentifier
CHECK_DEADLOCK FALSE
