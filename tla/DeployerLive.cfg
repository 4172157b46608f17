SPECIFICATION FairSpec
CONSTANTS
    p1 = p1
    None = None
    NoAmount = NoAmount
    Kinds <- CpuOnly
    Owners = {d1}
    Pools = {p1}
    Capacities <- Two
    Requests <- Two
    Specs <- Jobs1
    MaxUsage = 2
    PoolsLag = FALSE
    DeployersLag = TRUE
    WorkLag = TRUE
    PodsMove = TRUE
    ApiErrors = FALSE
    JobsAccepted = TRUE
    WorkflowApplies = FALSE
    Crashes = TRUE
INVARIANTS
    NobodyIsForgotten
PROPERTIES
    JobIsNotRestarted
    DeletionCompletes
    RoundIsReached
    SuccessIsReported
