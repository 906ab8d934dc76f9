CONSTANTS
    t1 = t1
    t2 = t2
    s1 = s1
    s2 = s2
    r1 = r1
    NoWorkflow = NoWorkflow
    Tickets <- SoleTicket
    Sessions <- MCSessions
    Requests <- MCRequests
    Owner <- SoleOwner
    Request <- SolePrompt
    MaxAttempts = 2
    DispatchLimit = 2
    MaxRunning = 1
    MaxCrashes = 0
SPECIFICATION FairSpec
PROPERTIES
    CompletedResultReturns
