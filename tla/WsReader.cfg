CONSTANTS
    MaxMessage = 65661
    Sizes <- MCSizes
    MaxFrames = 4
SPECIFICATION Spec
INVARIANTS
    TypeOK
    MessagesAreIntact
    LegalStreamAccepted
    NothingOverlooked
CHECK_DEADLOCK FALSE
