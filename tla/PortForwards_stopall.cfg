\* A context switch while forwards start, run and end.
CONSTANTS
    Ports = {1, 2}
    MaxSessions = 2
    MaxCalls = 2
    MaxSwitches = 1
SPECIFICATION PortForwardsSpec
INVARIANT StoppedForwardsEnd
CHECK_DEADLOCK FALSE
