CONSTANTS
    MaxViews = 12
    MaxCacheSize = 1
    MaxTab = 6
    MaxWs = 4
    MaxWin = 4
    MaxBw = 4
    Named = {1}
    SaveLastWindow = TRUE
    Platforms = {"linux"}
    MaxWindows = 1
    MaxAppEvents = 1
    Scenarios <- MCStuck
CHECK_DEADLOCK FALSE
SPECIFICATION MCSpec
INVARIANTS
    InProcessMeansRunning
