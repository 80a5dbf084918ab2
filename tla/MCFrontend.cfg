CONSTANTS
    None = None
    Items = {e1, e2}
    Capacity = 3
    MaxPushes = 8
    Devices = {"d1", "d2"}
    Hooks = {"h1", "h2"}
    Pids = {"all", "app"}
    Levels = {"W", "E"}
    Filters <- MCFilters
    ViewCapacity = 1
    MaxEntries = 2
    MaxFilterings = 3
    Packages = {"a", "b", "c"}
    Installed <- MCInstalled
    DiskCache = {"a", "b"}
    MaxLoads = 2
    RequestKeys = {"k1", "k2"}
    Clients = {"c1"}
    Times = {1, 2}
    MaxCaptured = 2
    Warning = 1
    MaxCount = 3
    AndroidCalls = {"c1", "c2"}
    MaxAndroidChannel = 3
    Foreign = {"d2"}
    HiProfilerCalls = {"c1"}
    MaxHiProfilerChannel = 2
    Main = "main"
    Panels = {"p1"}
    MaxSelections = 1
    MaxEvents = 1
    Processes = {"p1", "p2", "p3"}
    ShellWindows = {"w1", "w2"}
    ShellCalls = {"c1", "c2"}
SPECIFICATION FrontSpec
INVARIANTS
    FrontTypeOK
    RingInv
    NoStreamIsLeftBehind
    
    ListSettles
    
    
    
    EntriesAreWhole
    CountsCoverTheList
    
    
    
    
    RegisteredShellRuns
PROPERTIES
    ImplementsBoundedLog
