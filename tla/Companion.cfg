CONSTANTS
    t1 = t1
    d1 = d1
    d2 = d2
    None = None
    Terminals = {t1}
    Devices = {d1, d2}
SPECIFICATION FairCompanionSpec
INVARIANTS
    CompanionTypeOK
    RemovedMeansRevoked
    EnrolledIsAccountedFor
    KeyringBacksConfig
    StatusNamesPaired
PROPERTIES
    PairedGetsServed
    RetriesRemoveFiles
