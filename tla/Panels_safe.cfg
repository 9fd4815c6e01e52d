CONSTANTS
    MaxAttempts = 3
    MaxPicks = 2
    Pods = {pod}
    MaxTabs = 3
    NoTab = none
    Containers = {app, proxy}
    MaxLines = 2
    MaxStarts = 2
    Kinds = {"pods", "secrets"}
    MaxKindChanges = 1
    MaxClusterMoves = 1
    MaxDrops = 1
    WireEvents = 2
    NoData = none
    Lanes = {"Service", "HTTPRoute", "Deployment", "ReplicaSet", "Pod"}
    MaxEdges = 2
    Namespaces = {a, b}
    MaxActs = 1
    MaxMishaps = 1
    NoScope = none
    Ports = {1, 2}
    MaxSessions = 2
    MaxCalls = 2
    MaxSwitches = 1
    MaxForwards = 2
    Resources = {a, b}
    NoText = none
    MaxEdits = 2
    MaxMoves = 3
    MaxSaves = 1
    MaxReloads = 1
SPECIFICATION PanelsSpec
INVARIANTS
    OneLiveSession
    DockShowsATab
    DebugPodsAreCleanedUp
    ShowsOneLog
    StreamStateIsItsOwn
    
    LanesAreShown
    OnePick
    StatusIsTruthful
    
    KeptPanelStays
    DraftMirrorsTheEditor
    
CHECK_DEADLOCK FALSE
