SPECIFICATION FixedAddressesSpec
CONSTANTS
    admin = admin
    operator = operator
    r1 = r1
    r2 = r2
    p1 = p1
    p2 = p2
    h1 = h1
    h2 = h2
    k1 = k1
    d1 = d1
    d2 = d2
    s1 = s1
    s2 = s2
    s3 = s3
    Accounts = {admin}
    Admin = admin
    Registries = {r1}
    P256Verifiers = {p1}
    HonkVerifiers = {h1}
    RevertingVerifiers = {}
    InitialRegistry = r1
    InitialP256Verifier = p1
    InitialHonkVerifier = h1
    PubKeys = {k1}
    DeviceIds = {d1, d2}
    SessionIds = {s1, s2, s3}
    Epochs = {0, 1, 3}
    Calls <- MCCalls
    MAX_GAP_SECONDS = 1
    MAX_EPOCH_FUTURE_DRIFT = 1
    MaxTime = 2
SYMMETRY MCSymmetry
INVARIANTS
    TypeOK
    StorageMatchesLog
    SessionAtMostOnce
    EpochsIncrease
    NoFutureBacklog
PROPERTIES
    LedgerSpec
