CONSTANTS
    school = school
    elsewhere = elsewhere
    Hosts = {school, elsewhere}
    NoHost = NoHost
    Ports <- MCPorts
    NoPort = NoPort
    HTTPS = 443
    Window = 2
    MaxTime = 2
    None = None
SPECIFICATION Spec
INVARIANTS
    TypeOK
    CredentialStaysAtSchool
    PairedConfigWorks
    LoopbackOnly
    RefusedForTimeOrPadding
\* A configuration that run refuses leads nowhere, and the clock is bounded.
CHECK_DEADLOCK FALSE
