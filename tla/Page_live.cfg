CONSTANTS
    MaxSelects = 2
    MaxTopologies = 2
    MaxBreaks = 1
    WireSize = 2
    NoTopology = none
    MaxChanges = 1
    MaxRetries = 1
    MaxLosses = 1
    NoConnection = none
    Nodes = {a, b}
    MaxReports = 2
    MaxViews = 1
    MaxFailures = 1
    ByHand = hand
    NoKey = none
    MaxAttempts = 3
    MaxApplies = 2
    MaxReloads = 1
SPECIFICATION PageSpec
INVARIANTS
    NewestIsShown
    DrawnIsTheNewest
PROPERTIES
    PageCatchesUp
    SwitchOverlayEnds
    PageAgreesWithServer
    GraphIsDrawn
    NodesKeepTheirPlace
    AttemptIsReported
CHECK_DEADLOCK FALSE
