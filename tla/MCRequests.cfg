CONSTANTS
    None = None
    Sites <- MCAllSites
    Menus <- MCMenus
    MaxCalls = 4
    ApiHost = "api"
    DefaultBase = 1
    DefaultMax = 4
    Urls <- MCUrls
    Loopback <- MCLoopback
    MaxMillis = 7
SPECIFICATION Spec
INVARIANTS BuiltAsAsked MistakesSurface CredentialAgrees BackoffExact
PROPERTY TimedRequestsEnd
CHECK_DEADLOCK FALSE
