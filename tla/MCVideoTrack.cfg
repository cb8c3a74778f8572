SPECIFICATION FairCameraSpec
CONSTANTS
    Handles = {h1, h2}
    Sinks = {k1, k2, k3, k4}
    NoSink = NoSink
INVARIANTS
    NoDanglingSource
    SinkOwnership
    CameraOpenWhileHeld
PROPERTIES
    ImplementsSubscription
    CameraEnds
    CallsReturn
CHECK_DEADLOCK FALSE
