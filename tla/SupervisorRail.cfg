SPECIFICATION Spec
CONSTANTS
    Callers = {"main", "detector"}
    Games <- LeagueOnly
    Categories <- MCCategories
    SettingsChoices <- MCSettings
    Commands = {"record"}
    Faults = {}
    WatchRail = TRUE
    None = None
    NoGame = NoGame
    MaxGeneration = 3
    MaxServices = 4
    MaxReports = 1
    MaxQueue = 2
INVARIANTS
    RailNotStuckRecording
CHECK_DEADLOCK FALSE
