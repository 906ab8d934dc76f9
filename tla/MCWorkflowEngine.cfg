CONSTANTS
    draft = draft
    publish = publish
    assemble = assemble
    c1 = c1
    c2 = c2
    k1 = k1
    k2 = k2
    None = None
    Steps <- MCSteps
    Position <- MCPosition
    DependsOn <- MCDependsOn
    Command <- MCCommand
    Validated <- SoleStep
    Idempotent <- MCIdempotent
    MaximumAttempts <- MCMaximum
    TransientMaximum <- MCTransient
    Controllers <- MCControllers
    Children <- TwoChildren
    MaxCrashes = 2
SPECIFICATION FairSpec
INVARIANTS
    EngineInv
PROPERTIES
    LiveRunnerFences
    NoBlindRepetition
    ImplementsContract
    EveryWorkflowEnds
CHECK_DEADLOCK FALSE
