\* Two kinds of panels, so that every edit can be told from its undoing.
CONSTANTS
    Configs = {bar, line}
    FirstConfig = bar
    MaxPanels = 2
    MaxEdits = 3
    MaxForeign = 1
    MaxFaults = 1
SPECIFICATION Spec
INVARIANTS
    GridIsSound
    NotSilentInOrder
PROPERTY EchoKeepsEdits
CHECK_DEADLOCK FALSE
