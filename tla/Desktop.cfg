SPECIFICATION Spec

CONSTANTS
    NumSlots = 1
    DelayMin = 1
    DelayDefault = 1
    DelayMax = 2
    VerbosityMax = 1
    Tags = {t1}
    NoTag = NoTag
    MaxRules = 5
    MaxChildren = 1
    Options <- MCOptions
    MaxOptions = 1
    MaxClicks = 5

INVARIANTS
    DesktopTypeOK
    
    EditorMatchesTable
    SettingsInSync
    ConnectedIsShown
    PendingHasWindow
    StartIsUsable
    OneTimer
    IconTellsFailure
    ExplorerReadsLive

CHECK_DEADLOCK FALSE
