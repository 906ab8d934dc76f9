CONSTANTS
    t1 = t1
    t2 = t2
    s1 = s1
    s2 = s2
    r1 = r1
    NoWorkflow = NoWorkflow
    Tickets <- MCTickets
    Sessions <- MCSessions
    Requests <- MCRequests
    Owner <- TwoOwners
    Request <- SamePrompt
    MaxAttempts = 2
    DispatchLimit = 1
    MaxRunning = 1
    MaxCrashes = 1
SPECIFICATION WorkSpec
INVARIANTS
    LaneInv
PROPERTIES
    ImplementsContract
    ReadyIsServed
    ClaimsAreReleased
