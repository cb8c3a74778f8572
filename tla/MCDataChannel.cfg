SPECIFICATION FairSpec
CONSTANTS
    Observers = {o1, o2}
    NoObserver = NoObserver
    MaxBuffered = 2
    MaxQueue = 2
INVARIANTS
    ObserverLifetime
    NothingMissed
PROPERTIES
    ImplementsSubscription
    OpenIsReported
    CallsReturn
CHECK_DEADLOCK FALSE
