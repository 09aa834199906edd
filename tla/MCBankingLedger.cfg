\* The gateway, two instances, two submissions under one key, one request written
\* twice, one crash or rebalance, one failure in the gateway.
SPECIFICATION SystemSpec
CONSTANTS
    t1 = t1
    t2 = t2
    i1 = i1
    i2 = i2
    a1 = a1
    k1 = k1
    TxIds = {t1, t2}
    NoTx = NoTx
    AccountIds = {a1}
    UnknownAccount = UnknownAccount
    Currencies = {"EUR"}
    MaxInt = 3
    Opening <- MCOpening
    Requests <- MCRequests
    Instances = {i1, i2}
    NoInstance = NoInstance
    Stamps = {1}
    MaxFaults = 0
    BatchSize = 1
    MaxRetryAttempts = 2
    MaxCopies = 2
    MaxDisruptions = 1
    Keys = {k1}
    MaxGatewayFaults = 1
SYMMETRY MCSymmetry
INVARIANTS
    TypeOK
    LocksMatchCalls
    NoRequestLost
    CompletedIsApplied
    MarkedIsRecorded
    OnlyAcceptedIsApplied
PROPERTIES
    ImplementsExactlyOnce
    ImplementsGateway
