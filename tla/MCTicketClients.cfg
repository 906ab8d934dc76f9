CONSTANTS
    t1 = t1
    t2 = t2
    s1 = s1
    s2 = s2
    NoWorkflow = NoWorkflow
    Tickets <- MCTickets
    Sessions <- MCSessions
    Owner <- MCOwner
    MaxAttempts = 2
    MaxClaims = 3
SPECIFICATION ClientsSpec
INVARIANTS
    IInv
PROPERTIES
    NoticeIsNeverReborn
    LiveLeaseIsExclusive
    ClientsImplementContract
