SPECIFICATION Spec
CONSTANTS
    p1 = p1
    None = None
    NoAmount = NoAmount
    Kinds <- CpuOnly
    Owners = {d1}
    Pools = {p1}
    Capacities <- Two
    Requests <- Two
    Specs <- Jobs2
    MaxUsage = 2
    PoolsLag = TRUE
    DeployersLag = FALSE
    WorkLag = FALSE
    PodsMove = TRUE
    ApiErrors = TRUE
    JobsAccepted = TRUE
    WorkflowApplies = FALSE
    Crashes = TRUE
INVARIANTS
    TypeOK
    NoStrayWorkload
PROPERTIES
    ImplementsRounds
    JobDeletedBeforeReleased
    DoneMeansSucceeded
