\* Every timeout configured, as internal/k8s does; one kind of each tier.  A ring
\* of three events, batches of up to four.
CONSTANTS
    None = none
    Critical = {pods}
    Minimal = {pods}
    Deferred = {secrets}
    Background = {events}
    Denied = {roles}
    Timers = {"patience", "sync", "deferred"}
    Empty = empty
    Events = {e1, e2, e3}
    MaxSize = 3
    MaxBatch = 4
    DefaultLimit = 2
    MaxLimit = 3
SPECIFICATION IntakeSpec
INVARIANTS
    DeferredDoneIsTruthful
    QueriesPageTheLog
PROPERTIES
    EveryWaitEnds
    KeepsTheNewest
