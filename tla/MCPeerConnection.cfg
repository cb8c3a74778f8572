SPECIFICATION FairIceSpec
CONSTANTS
    Connections = {c1}
    Requests = {r1, r2}
    Nobody = Nobody
    Characters = {a, b}
    Comma = comma
    MaxUrls = 5
INVARIANTS
    ObserverOutlives
    CompletionLifetime
    UrlsExact
PROPERTIES
    ImplementsOneShot
    RequestsComplete
CHECK_DEADLOCK FALSE
