SPECIFICATION FairSpec
CONSTANTS
    b1 = b1
    d1 = d1
    d2 = d2
    None = None
    Builders = {b1}
    Deployers = {d1}
    BuilderSpecs <- OneRound
    Images <- Image12
    MaxRound = 1
    BuildersLag = TRUE
    DeployersLag = TRUE
    JobsLag = TRUE
    DeployersChange = TRUE
    ApiErrors = TRUE
    Crashes = TRUE
PROPERTIES
    RoundIsBuilt
    SuccessIsReported
