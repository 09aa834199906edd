\* One instance, batches of two, three failing statements.
SPECIFICATION PublicationSpec
CONSTANTS
    t1 = t1
    t2 = t2
    i1 = i1
    i2 = i2
    a1 = a1
    TxIds = {t1, t2}
    NoTx = NoTx
    AccountIds = {a1}
    UnknownAccount = UnknownAccount
    Currencies = {"EUR"}
    MaxInt = 3
    Opening <- MCOpening
    Requests <- MCRequests
    Instances = {i1}
    NoInstance = NoInstance
    Stamps = {1, 2}
    MaxFaults = 3
    BatchSize = 2
    MaxRetryAttempts = 2
SYMMETRY MCSymmetry
INVARIANTS
    PublicationTypeOK
    GivesUpOnlyAfterMaxAttempts
    RightWhenDeliveredOnce
    OneEntryWhenDeliveredOnce
