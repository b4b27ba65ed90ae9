SPECIFICATION AggSpec
CONSTANTS
    admin = admin
    operator = operator
    r1 = r1
    p1 = p1
    h1 = h1
    h2 = h2
    k1 = k1
    d1 = d1
    s1 = s1
    s2 = s2
    Accounts = {admin, operator}
    Admin = admin
    Operator = operator
    Operators = {operator}
    Registries = {r1}
    P256Verifiers = {p1}
    HonkVerifiers = {h1}
    RevertingVerifiers = {}
    InitialRegistry = r1
    InitialP256Verifier = p1
    InitialHonkVerifier = h1
    LocalP256 = p1
    LocalHonk = h1
    PubKeys = {k1}
    DeviceIds = {d1}
    SessionIds = {s1, s2}
    Epochs = {1, 2}
    Calls <- MCCalls
    Provable <- MCProvable
    JobIds <- MCJobIds
    Codes <- MCCodes
    MaxAttempts = 2
    MaxTxs = 2
    Faults = {"receipt"}
    Environments <- MCProduction
    NoJob = NoJob
    NoError = NoError
    MAX_GAP_SECONDS = 1
    MAX_EPOCH_FUTURE_DRIFT = 0
    MaxTime = 2
INVARIANT
    QuarantineSpentNoGas
