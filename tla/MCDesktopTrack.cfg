SPECIFICATION FairDesktopSpec
CONSTANTS
    Sources = {s1}
    Polls = 2
    Devices = {screen, window}
    MaxFps = 250
    MaxCapture = 6
    Jitter = 1
INVARIANTS
    DesktopTypeOK
    SafeDestruction
    RefusalLeavesNothing
    CapturesWhileHeld
    WalkIsExact
    NamesAccountedFor
    OnSchedule
PROPERTIES
    CreateReturns
CHECK_DEADLOCK FALSE
