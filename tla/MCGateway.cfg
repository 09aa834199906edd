\* Two submissions and two registrations at a time, with two faults, in a gateway that may be stopped.
SPECIFICATION GatewayMainSpec
CONSTANTS
    t1 = t1
    t2 = t2
    k1 = k1
    k2 = k2
    r1 = r1
    r2 = r2
    n1 = n1
    n2 = n2
    TxIds = {t1, t2}
    Keys = {k1, k2}
    Registrations = {r1, r2}
    NationalIds = {n1, n2}
    MaxGatewayFaults = 2
INVARIANTS
    GatewayTypeOK
    AnswersAreTrue
    OneAccountPerNationalId
    AcceptedIsSent
PROPERTY RecordedKeyIsFinal
CHECK_DEADLOCK FALSE
