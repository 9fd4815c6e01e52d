\* Two clusters, or one after another run, with an SQLite store.
CONSTANTS
    NoTopology = none
    Broadcasters = {b1, b2}
    Readers = {m1, m2}
    MaxChanges = 2
    MaxSwitches = 1
    Clusters = {m1, m2}
    MaxConnections = 2
    MaxCreations = 2
    MaxRevisions = 1
    MaxPending = 1
    Draining = FALSE
    Nothing = nothing
SPECIFICATION ViewSpec
INVARIANT OnlyRepeatsAreDropped
