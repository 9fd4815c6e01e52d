\* Two handlers for one place, a slow reader and two senders; two switches
\* when goroutines start promptly, one when they may start late.
CONSTANTS
    NoHandler = none
    Handlers = {h1, h2}
    Senders = {s1, s2}
    MaxClients = 1
    QueueSize = 1
    MaxVersion = 1
    MaxSwitches = 2
    MaxLate = 1
SPECIFICATION SSEFairSpec
INVARIANTS
    ClosedOnce
    NoGhostClients
    OneLiveWatcher
    WarmupEndsAfterSync
PROPERTIES
    HandlersAreServed
    BroadcasterFollowsCache
