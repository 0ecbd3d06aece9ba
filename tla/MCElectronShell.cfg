CONSTANTS
    MaxViews = 14
    MaxCacheSize = 1
    MaxTab = 6
    MaxWs = 4
    MaxWin = 4
    MaxBw = 6
    Named = {2}
    SaveLastWindow = TRUE
    Platforms = {"linux", "darwin", "win32"}
    MaxWindows = 2
    MaxAppEvents = 4
    Scenarios <- MCScenarios
CHECK_DEADLOCK FALSE
SPECIFICATION MCSpec
INVARIANTS
    WindowsShow
PROPERTIES
    OnlyClosedWindowsGo
    ComesToRest
    QuitEnds
