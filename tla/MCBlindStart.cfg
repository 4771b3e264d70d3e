SPECIFICATION Spec
CONSTANTS
    Screens = {"list", "form"}
    Shows <- Shown
    Expected = {"row"}
    MaxStepsPerTest = 2
    MaxCalls = 2
    PilotCadence = 2
    Views = {"list", "form"}
    Catalog <- Scenarios
    FreshName = "fresh"
    MaxTests = 2
    StyleCount = 1
    Workspaces <- Layouts
    Requests <- CommandLines
    UnderRoots = {"main", "sub"}
    MaxSaves = 2
    Users = {"u", "v"}
    Setups = {"u"}
    Content = {"f", "g"}
    NoDir = {"none"}
    Names = {"x"}
    Values = {"p", "q"}
    Absent = "absent"
    MaxEvaluations = 3
    MaxScopes = 1
    Attempts = 3
    AdbFails = TRUE
    Callers = {"c1", "c2"}
    Recordings = {"run", "clip"}
    NoCapture = NoCapture
    MaxStarts = 3
    Emulators = {"pixel", "tablet"}
    NoName = "noName"
    Locales = {"en", "de"}
    NoLocale = "noLocale"
    Boots = 2
    Streams = {"s", "t"}
    MaxBatch = 2
    MaxLog = 4
    MaxBindings = 2
INVARIANT ChecksDescribeFinalScreen
CHECK_DEADLOCK FALSE
