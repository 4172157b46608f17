SPECIFICATION Spec
CONSTANTS
    None = None
    WorkflowSpecs <- Services2
    WorkflowsLag = TRUE
    UsersReturn = FALSE
INVARIANTS
    TypeOK
    DeployerFollowsBuilder
    FakeImageNeverRuns
    RoundIsGenerated
    NobodyIsForgotten
PROPERTY
    ImplementsRounds
