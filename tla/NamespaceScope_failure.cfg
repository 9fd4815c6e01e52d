\* One choice of the user, and one request that fails.
CONSTANTS
    Namespaces = {a, b}
    MaxActs = 1
    MaxMishaps = 1
    NoScope = none
SPECIFICATION NamespaceScopeSpec
INVARIANT FailureIsReverted
CHECK_DEADLOCK FALSE
