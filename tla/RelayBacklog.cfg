CONSTANTS
    r1 = r1
    r2 = r2
    r3 = r3
    a = a
    b = b
    w1 = w1
    w2 = w2
    None = None
    Requests = {r1, r2, r3}
    Workers = {w1}
    Ids <- MCIds
    IdOf <- MCIdOf
    Malformed <- Nobody
    Padded <- OneOf
    Deadlined <- Nobody
    Replayable <- Nobody
    MaxAttempts = 2
    QueueSize = 1
SPECIFICATION Spec
INVARIANTS
    CancelReachesActive
    RegistryHasNoGhosts
    UniqueWhileActive
    BacklogBounded
    NoSendOnClosedQueue
PROPERTIES
    FreeIdNeverRefused
