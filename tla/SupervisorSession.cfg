SPECIFICATION Spec
CONSTANTS
    Callers = {"main", "hotkey"}
    Games <- LeagueOnly
    Categories <- MCCategories
    SettingsChoices <- MCSettings
    Commands = {"session", "settings", "reopen"}
    Faults = {"options"}
    WatchRail = TRUE
    None = None
    NoGame = NoGame
    MaxGeneration = 2
    MaxServices = 3
    MaxReports = 1
    MaxQueue = 2
INVARIANTS
    RecorderFollowsPolicy
CHECK_DEADLOCK FALSE
