\* A status change between Subscribe and the table.
CONSTANTS
    NoHandler = none
    Handlers = {h1, h2}
    Senders = {s1}
    MaxClients = 2
    QueueSize = 1
    MaxVersion = 1
SPECIFICATION Spec
INVARIANT ClientsKnowStatus
