SPECIFICATION FairSpec
CONSTANTS
    Sources = {s1}
    Polls = 2
PROPERTIES
    CaptureEnds
CHECK_DEADLOCK FALSE
