SPECIFICATION FairSpec
CONSTANTS
    Callers = {"main", "detector"}
    Games <- LeagueOnly
    Categories <- MCCategories
    SettingsChoices <- MCSettings
    Commands = {"record", "settings", "quota"}
    Faults = {"recorder", "quota"}
    WatchRail = FALSE
    None = None
    NoGame = NoGame
    MaxGeneration = 2
    MaxServices = 4
    MaxReports = 0
    MaxQueue = 2
PROPERTIES
    StopEndsCapture
    WantedRecordingResumes
    QuotaFreesRecorder
CHECK_DEADLOCK FALSE
