\* Two tabs, one node, two preferences and two windows: every value has one
\* other value to be confused with.
CONSTANTS
    Modes = {investigate, flows}
    Nodes = {n1}
    Nothing = Nothing
    Prefs = {force, circular}
    DataWindows = {w30, w90}
    InitMode = investigate
    InitPref = force
    InitWindow = w90
    MaxUserActs = 3
    MaxFaults = 2
    AgentMay = TRUE
SPECIFICATION SyncSpec
INVARIANTS
    FocusConverges
    PrefsConverge
PROPERTY LoadKeepsFocus
CHECK_DEADLOCK FALSE
