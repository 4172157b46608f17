SPECIFICATION Spec
CONSTANTS
    b1 = b1
    d1 = d1
    d2 = d2
    None = None
    Builders = {b1}
    Deployers = {d1, d2}
    BuilderSpecs <- TwoRounds
    Images <- Image12
    MaxRound = 0
    BuildersLag = TRUE
    DeployersLag = FALSE
    JobsLag = FALSE
    DeployersChange = FALSE
    ApiErrors = TRUE
    Crashes = TRUE
INVARIANTS
    TypeOK
    NobodyIsForgotten
    NoStrayJob
    JobsFindTheirDockerfile
PROPERTIES
    ImplementsRounds
    TriggeredImageIsPushed
    ForcedRoundsGrow
    DoneMeansTriggered
