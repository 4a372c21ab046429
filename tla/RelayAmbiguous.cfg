CONSTANTS
    r1 = r1
    r2 = r2
    r3 = r3
    a = a
    b = b
    w1 = w1
    w2 = w2
    None = None
    Requests = {r1, r2}
    Workers = {w1}
    Ids <- MCIds
    IdOf <- MCIdOf3
    Malformed <- Nobody
    Padded <- Nobody
    Deadlined <- Second
    Replayable <- Nobody
    MaxAttempts = 2
    QueueSize = 1
SPECIFICATION Spec
INVARIANTS
    LocalUnavailableIsAmbiguous
