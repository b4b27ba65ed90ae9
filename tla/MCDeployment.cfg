SPECIFICATION DeploymentSpec
CONSTANTS
    admin = admin
    r1 = r1
    r2 = r2
    p1 = p1
    p2 = p2
    h1 = h1
    h2 = h2
    k1 = k1
    d1 = d1
    s1 = s1
    s2 = s2
    proxy = proxy
    hash = hash
    Accounts = {admin}
    Admin = admin
    Registries = {r1, r2}
    P256Verifiers = {p1, p2}
    HonkVerifiers = {h1, h2}
    RevertingVerifiers = {}
    InitialRegistry = r1
    InitialP256Verifier = p1
    InitialHonkVerifier = h1
    PubKeys = {k1}
    DeviceIds = {d1}
    SessionIds = {s1, s2}
    Epochs = {1, 2, 3}
    Calls <- MCCalls
    MAX_GAP_SECONDS = 1
    MAX_EPOCH_FUTURE_DRIFT = 1
    MaxTime = 1
    ChainIds = {1, 2}
    Proxy = proxy
    HalfWord = 8
    PublicInputs <- MCPublicInputs
    ForeignStorages <- MCForeignStorages
    MaxForeignLog = 1
INVARIANT
    DigestsAgree
PROPERTIES
    PowersAreFinal
    RejectionsAreFinal
