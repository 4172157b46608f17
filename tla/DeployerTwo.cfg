SPECIFICATION Spec
CONSTANTS
    p1 = p1
    None = None
    NoAmount = NoAmount
    Kinds <- CpuOnly
    Owners = {d1, d2}
    Pools = {p1}
    Capacities <- Two
    Requests <- Two
    Specs <- Services1
    MaxUsage = 2
    PoolsLag = FALSE
    DeployersLag = FALSE
    WorkLag = TRUE
    PodsMove = FALSE
    ApiErrors = FALSE
    JobsAccepted = FALSE
    WorkflowApplies = TRUE
    Crashes = TRUE
SYMMETRY Symmetry
INVARIANTS
    ReservationsProtected
    RecordedPoolIsReserved
PROPERTIES
    ImplementsLedger
