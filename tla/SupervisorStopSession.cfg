SPECIFICATION Spec
CONSTANTS
    Callers = {"main", "detector"}
    Games <- LeagueOnly
    Categories <- MCCategories
    SettingsChoices <- MCSettings
    Commands = {"record", "session"}
    Faults = {}
    WatchRail = FALSE
    None = None
    NoGame = NoGame
    MaxGeneration = 3
    MaxServices = 4
    MaxReports = 0
    MaxQueue = 2
INVARIANTS
    StopEndsSession
CHECK_DEADLOCK FALSE
