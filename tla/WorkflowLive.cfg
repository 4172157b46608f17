SPECIFICATION FairSpec
CONSTANTS
    None = None
    WorkflowSpecs <- Services2
    WorkflowsLag = FALSE
    UsersReturn = FALSE
PROPERTIES
    StatusSettles
