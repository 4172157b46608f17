SPECIFICATION Spec
CONSTANTS
    web = web
    None = None
    Deployers = {web}
    Namesakes <- Elsewhere
    Specs <- Growing
    NodePorts = {1, 2}
    DeployersLag = TRUE
    ServicesLag = TRUE
    ApiErrors = TRUE
    Crashes = TRUE
INVARIANTS
    TypeOK
    AtRestServed
PROPERTIES
    DoingMeansServed
    NodePortsAreKept
