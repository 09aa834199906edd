\* Two instances, two transactions, two failing statements: safety.
SPECIFICATION ProcessingSpec
CONSTANTS
    t1 = t1
    t2 = t2
    i1 = i1
    i2 = i2
    a1 = a1
    a2 = a2
    TxIds = {t1, t2}
    NoTx = NoTx
    AccountIds = {a1, a2}
    UnknownAccount = UnknownAccount
    Currencies = {"EUR", "USD"}
    MaxInt = 3
    Opening <- MCOpening
    Requests <- MCRequests
    Instances = {i1, i2}
    NoInstance = NoInstance
    Stamps = {1, 2}
    MaxFaults = 2
SYMMETRY MCSymmetry
INVARIANTS
    ProcessingTypeOK
    LocksMatchCalls
    SnapshotIsCurrent
    BooksBalance
PROPERTY ImplementsExactlyOnce
