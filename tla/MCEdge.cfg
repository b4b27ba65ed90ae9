SPECIFICATION FairEdgeSpec
CONSTANTS
    BYTE = 4
    FIELD_SIZE = 521
    SLOT = 1024
    LAT_MAX_E7 = 3
    LON_MAX_E7 = 6
    READINGS_PER_PAYLOAD = 2
    RATE = 4
    Payloads <- MCPayloads
    JobIds <- MCJobIds
    Codes <- MCCodes
    Key = key
    None = None
    NoError = NoError
    RATE_MAX = 1
    MaxAttempts = 2
    MaxRuns = 2
    MaxPolls = 2
    MaxRestarts = 1
CHECK_DEADLOCK FALSE
INVARIANTS
    EdgeTypeOK
    EncodingsAgree
    OutcomesAreTrue
PROPERTY
    RunEnds
