SPECIFICATION Spec
CONSTANTS
    i1 = i1
    i2 = i2
    i3 = i3
    k1 = k1
    k2 = k2
    k3 = k3
    k4 = k4
    NoCredential = NoCredential
    Identities <- ThreeIdentities
    Credentials <- FourCredentials
    TTL = 2
    Limited = TRUE
    MaxUses = 2
    MaxEntries = 2
SYMMETRY Symmetry
INVARIANTS
    TypeOK
    OneCredentialEach
    CapacityKept
    ReplayWindow
    RevokedIsOut
PROPERTIES
    ActiveIsKept
