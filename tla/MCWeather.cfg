SPECIFICATION FairWeatherSpec
CONSTANTS
    unreadable = unreadable
    missing = missing
    noResult = noResult
    Unreadable = unreadable
    Missing = missing
    Hours <- MCHours
    Bodies <- MCBodies
    NoResult = noResult
INVARIANTS
    WeatherTypeOK
    PointsAreNearest
    OkMeansAgreement
PROPERTY
    FetchSettles
