\* Does the registry hold the sessions in progress, and no other?
SPECIFICATION Spec
CONSTANTS
    MaxBytes = 1
    Payloads <- MCPayloads
    Connections = {c1, c2}
    Ids = {i1, i2}
    NoSession = NoSession
    Numbers = {0}
    MaxMessages = 3
INVARIANT RegistryIsLive
CHECK_DEADLOCK FALSE
