CONSTANTS
    t1 = t1
    t2 = t2
    d1 = d1
    d2 = d2
    None = None
    Terminals = {t1}
    Devices = {d1}
SYMMETRY PairingSymmetry
SPECIFICATION Spec
INVARIANTS
    CredentialsRemoved
