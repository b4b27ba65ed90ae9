SPECIFICATION ValidationSpec
CONSTANTS
    d1 = d1
    d2 = d2
    noAnswer = noAnswer
    null = null
    Unreadable = Unreadable
    Missing = Missing
    Submissions <- MCSubmissions
    Readings <- MCReadings
    Seeds <- MCSeeds
    FirstDay = 8
    LastDay = 10
    MaxCalls = 2
    NoAnswer = noAnswer
    Null = null
CHECK_DEADLOCK FALSE
INVARIANTS
    ValidationTypeOK
    ReturnedMeansStored
    ScoreIgnoresUntrusted
    DriftNeedsLopsidedHistory
