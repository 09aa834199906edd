\* A client that retries with its key before the ledger has the entry.
SPECIFICATION GatewayMainSpec
CONSTANTS
    t1 = t1
    t2 = t2
    k1 = k1
    k2 = k2
    r1 = r1
    r2 = r2
    n1 = n1
    n2 = n2
    TxIds = {t1, t2}
    Keys = {k1}
    Registrations = {r1}
    NationalIds = {n1}
    MaxGatewayFaults = 0
INVARIANT OneRequestPerKey
CHECK_DEADLOCK FALSE
