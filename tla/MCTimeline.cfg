CONSTANTS
    trust = trust
    Edges = {trust}
    Starts = {2, 3}
    MaxLen = 4
    Windows = {1, 2}
    Default = 1
    DeepLinks = {0, 1}
    None = None
    MaxActs = 4
SPECIFICATION FairSpec
INVARIANTS
    FrameIsExact
PROPERTIES
    ShowsAll
    PlaybackEnds
    CursorSurvives
CHECK_DEADLOCK FALSE
