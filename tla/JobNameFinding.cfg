SPECIFICATION Spec
CONSTANTS
    None = None
    WorkflowSpecs <- Jobs1
    WorkflowsLag = FALSE
    UsersReturn = FALSE
INVARIANTS
    DoneMeansDeployed
