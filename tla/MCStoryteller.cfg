SPECIFICATION Spec
CONSTANTS
    Worker = {w1}
    SessionId = {s1}
    Scene = {1, 2}
    Boards <- MCBoard
    BlockedTo = {"context", "narrative", "storyboard", "visual_design", "write"}
    Text = {t1}
    NoText = NoText
    MaxFaults = 1
INVARIANTS TypeOK PipelineInOrder SnapshotIsCurrent
