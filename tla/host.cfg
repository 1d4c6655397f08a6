SPECIFICATION HostSpec
CONSTANTS
    Names = {"a", "b"}
    InitialFiles = {"b"}
    PathDepth = 2
    MaxHandle = 5
    SandboxRoot <- MCRoot
    CloseFailureReleases = FALSE
    MaxFD = 5
    FDArgs = {1, 3, 4, 5, 6}
    MaxCalls = 4
    RelativePaths <- MCRelative
    RequestedRights <- MCRights
    OpenRequests <- MCOpenRequests
    IOVectors <- MCIOVectors
    AddressSpace = 32
    PageUnits = 4
    StaticPages = 2
    MaxPages = 5
    RequestUnits = {1, 5}
    MaxBlocks = 2
    MaxKeys = 1
    EmVectors <- MCEmVectors
INVARIANTS  RightsAreBacked CookiesResume TransferIsExact 
PROPERTY AuthorityOnlyNarrows
CHECK_DEADLOCK FALSE
VIEW hostView
