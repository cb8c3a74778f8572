SPECIFICATION FairSpec
CONSTANTS
    Clients = {c1}
    Factories = {f1, f2}
    NoOwner = NoOwner
    Handlers <- GettersInCallbacks
    Disciplined = TRUE
PROPERTIES
    GetterFindsLock
CHECK_DEADLOCK FALSE
