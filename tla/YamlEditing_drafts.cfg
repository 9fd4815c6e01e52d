\* One edit, with the views that may come over it.
CONSTANTS
    Resources = {a, b}
    NoText = none
    MaxEdits = 1
    MaxMoves = 4
    MaxSaves = 0
    MaxReloads = 0
SPECIFICATION YamlEditingSpec
INVARIANT DraftIsRestored
CHECK_DEADLOCK FALSE
