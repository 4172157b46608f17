SPECIFICATION FairPoolSpec
CONSTANTS
    Kinds <- CpuOnly
    Owners = {d1, d2}
    Capacities <- CpuCapacities
    Requests <- CpuRequests
    Pools = {p1}
    NoAmount = NoAmount
    None = None
    MaxUsage = 3
    PoolsLag = TRUE
INVARIANTS
    PoolTypeOK
    ReservationsProtected
PROPERTIES
    ImplementsLedger
    FreeConverges
    EmptyPoolsGo
