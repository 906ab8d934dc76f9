SPECIFICATION FairSpec
CONSTANTS
    Supervisors = {"stall", "terminal"}
    Surfaces = {"dashboard", "channel"}
    MaxGen = 1
    MaxCalls = 2
    MaxAttempts = 2
    MaxTries = 3
    MaxUpsets = 2
CHECK_DEADLOCK FALSE
INVARIANTS
    RecoveryInv
PROPERTIES
    AuthorizedInSilence
    SettledIsFinal
    ClaimIsSettled
    AnswerIsSettled
