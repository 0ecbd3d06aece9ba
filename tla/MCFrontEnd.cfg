CONSTANTS
    a = a
    b = b
    body = body
    p1 = p1
    p2 = p2
    MinProcessed = 1
    MaxOutput = 3
    MaxTerms = 2
    MaxClears = 1
    MaxTasks = 2
    MaxControllers = 2
    MaxFails = 1
    MaxViews = 1
    MaxJobChanges = 2
    Panes = {a, b}
    Body = body
    MaxMoves = 5
    Pages = {p1, p2}
    MaxPresses = 3
    MaxHolds = 4
    MaxReports = 6
    MaxLoads = 2
    MaxChoices = 1
    MaxForeign = 1
    Pages2 = {1, 2}
    TabIds = {"a", "b", "c", "d"}
    MaxDrags = 2
    MaxChanges = 1
    CalmTabs = TRUE
    Parent <- MCParent
    Directories = {1, 2, 4, 6}
    MaxDirEntries = 2
    MaxMovesInTree = 5
    MaxEdits = 2
    MaxSelects = 1
    MaxConfFails = 1
    BadgeBlocks = {a}
    TabRef = b
    MaxBadges = 2
    MaxBadgeActs = 1
    NamePages = {1, 2}
    MaxRenames = 2
    MaxRefused = 1
    MaxGestures = 2
    MaxHandleMoves = 2
    AppBlocks = {1, 2, 3}
    TermBlocks = {1, 2}
    MaxKeys = 3
    MaxCommands = 2
    MaxPath = 2
    Contents <- MCContents
    Clipboards <- MCClipboards
    Buffers <- MCBuffers
    MaxPastes = 2
    MaxInput = 2
    MaxViews2 = 2
    Settings <- MCSettings
    ConnNames = {"ssh"}
    MaxConfChanges = 2
    MaxAddons = 2
    Metas <- MCMetas
    MetaPrefixes <- MCPrefixes
    Displays <- MCDisplays
    MaxQuakes = 4
    MaxHotKeys = 3
    RawKeys <- MCRawKeys
    IsDarwin = FALSE
    WinPlaces <- MCPlaces
    WinSizes <- MCSizes
    MenuPages = {1, 2}
    MenuShapes <- MCShapes
    MaxMenus = 2
    MaxSpaces = 2
    MaxBuilds = 2
    Darwin = FALSE
CHECK_DEADLOCK FALSE
SPECIFICATION MCSpec
INVARIANTS
    ShowsFile
    ControllerShown
    ShellShown
    MenuTells
    FocusAgrees
    KeysArrive
    BarsAgree
    OpenIsListed
    EditorTells
    BadgesSettle
    NamesAgree
    TilesAsShown
    AppKeysHold
    PathLaws
    ClipTells
    SettingsTell
    QuakeHolds
    MenusTell
