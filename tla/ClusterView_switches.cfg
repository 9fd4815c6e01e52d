\* Builds, readers and switches that overlap; recorders that end before their
\* informer is stopped.  The two parts are not at hand together, so that the
\* same model values, with one symmetry, stand for readers and for clusters.
CONSTANTS
    NoTopology = none
    Broadcasters = {b1, b2}
    Readers = {m1, m2}
    MaxChanges = 2
    MaxSwitches = 1
    Clusters = {m1, m2}
    MaxConnections = 2
    MaxCreations = 2
    MaxRevisions = 1
    MaxPending = 1
    Draining = FALSE
    Nothing = nothing
SPECIFICATION ViewSpec
SYMMETRY Sym
INVARIANTS
    DirtyCoversChanges
    TopologyComesBack
    HistoryIsTrue
    CreationsAreRecorded
