\* A switch after a boot whose init is still draining.
CONSTANTS
    Requests = {r1}
    Boot = boot
    Contexts = {c1, c2}
    InitialContext = c1
    None = none
    Overlap = {"leftover"}
SPECIFICATION Spec
INVARIANT NoOrphanInformers
