\* A duplicated withdrawal, applied and published, is recorded as failed.
SPECIFICATION Spec
CONSTANTS
    t1 = t1
    t2 = t2
    i1 = i1
    i2 = i2
    a1 = a1
    TxIds = {t1}
    NoTx = NoTx
    AccountIds = {a1}
    UnknownAccount = UnknownAccount
    Currencies = {"EUR"}
    MaxInt = 7
    Opening <- MCOpening
    Requests <- MCWithdrawals
    Instances = {i1}
    NoInstance = NoInstance
    Stamps = {1}
    MaxFaults = 0
    BatchSize = 1
    MaxRetryAttempts = 2
    MaxCopies = 2
    MaxDisruptions = 0
INVARIANT ProcessedIsCompleted
