SPECIFICATION FairSpec
CONSTANTS
    Clients = {c1, c2}
    Factories = {f1}
    NoOwner = NoOwner
    Handlers <- GettersInCallbacks
    Disciplined = TRUE
INVARIANTS
    NoCircularWait
PROPERTIES
    LockIsReleased
    GetterFindsLock
    HolderGetsOn
