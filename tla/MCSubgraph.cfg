SPECIFICATION SubgraphSpec
CONSTANTS
    admin = admin
    operator = operator
    k1 = k1
    k2 = k2
    shortKey = shortKey
    kyiv = kyiv
    offGlobe = offGlobe
    nowhere = nowhere
    dev1 = dev1
    dev2 = dev2
    s1 = s1
    s2 = s2
    Accounts = {admin}
    Admin = admin
    PubKeys = {k1, k2, shortKey}
    WellFormedKeys = {k1, k2}
    Locations = {kyiv, offGlobe}
    ValidLocations = {kyiv}
    NoLocation = nowhere
    MaxEvents = 4
    MaxTime = 2
    DeviceIds = {dev1, dev2}
    SessionIds = {s1, s2}
    Epochs = {1, 3}
    MAX_GAP_SECONDS = 1
    SecondsPerDay = 2
    MaxProofs = 2
SYMMETRY MCSymmetry
CHECK_DEADLOCK FALSE
INVARIANTS
    TypeOK
    CountIsRegistered
    EventsDetermineStatus
    HistoryIsLegal
    SubgraphTypeOK
    CountersMatchEntities
    CaughtUpMatchesRegistry
    DailyStatsPartition
PROPERTY
    IdentityIsFrozen
