SPECIFICATION FairSpec
CONSTANTS
    Callers = {t1}
    Tracks = {k1, k2}
    NoTrack = NoTrack
    MaxTransceivers = 2
INVARIANTS
    HandlesAccountedFor
PROPERTIES
    ListingIsExact
    AskingAgainWorks
