CONSTANTS
    worker = worker
    reader = reader
    heartbeat = heartbeat
    Closer = Closer
    None = None
    Writers = {worker, reader, heartbeat}
    Bodies <- MCBodies
    MaxResponse = 16777216
    Overhead = 300
SPECIFICATION FairSpec
INVARIANTS
    TypeOK
    WriteHasDeadline
    NothingLeftOpen
PROPERTIES
    DialEnds
    UsersReturn
