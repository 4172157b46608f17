SPECIFICATION Spec
CONSTANTS
    p1 = p1
    None = None
    NoAmount = NoAmount
    Kinds <- CpuOnly
    Owners = {d1, d2}
    Pools = {p1}
    Capacities <- Two
    Requests <- Two
    Specs <- Jobs1
    MaxUsage = 2
    PoolsLag = FALSE
    DeployersLag = FALSE
    WorkLag = FALSE
    PodsMove = TRUE
    ApiErrors = FALSE
    JobsAccepted = FALSE
    WorkflowApplies = FALSE
    Crashes = FALSE
INVARIANTS
    ReservationsFitCapacity
