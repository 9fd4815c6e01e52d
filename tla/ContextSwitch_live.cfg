\* Three handlers in series after the boot; or one and the boot, interleaved
\* freely and under fairness.
CONSTANTS
    Requests = {1, 2, 3}
    Boot = boot
    Contexts = {c1, c2}
    InitialContext = c1
    None = none
    Overlap = {}
SPECIFICATION SwitchingFairSpec
INVARIANTS
    OneClusterInSeries
    NoOrphansInSeries
    StoppedCacheOnlyInTeardown
    NeverLeftConnecting
PROPERTY RequestBesideBootSettles
