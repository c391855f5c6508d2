SPECIFICATION Spec
CONSTANTS
    Callers = {"main", "detector"}
    Games <- LeagueOnly
    Categories <- MCCategories
    SettingsChoices <- GatedOnly
    Commands = {"record"}
    Faults = {}
    WatchRail = FALSE
    None = None
    NoGame = NoGame
    MaxGeneration = 3
    MaxServices = 4
    MaxReports = 1
    MaxQueue = 2
INVARIANTS
    ReopenedWindowIsTruthful
CHECK_DEADLOCK FALSE
