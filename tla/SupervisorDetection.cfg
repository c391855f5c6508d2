SPECIFICATION Spec
CONSTANTS
    Callers = {"main", "detector"}
    Games <- AllGames
    Categories <- MCCategories
    SettingsChoices <- MCSettings
    Commands = {"record", "settings", "quota"}
    Faults = {"recorder", "quota"}
    WatchRail = FALSE
    None = None
    NoGame = NoGame
    MaxGeneration = 3
    MaxServices = 4
    MaxReports = 0
    MaxQueue = 2
INVARIANTS
    OnlyCurrentServiceSurvives
    GenerationIdentifiesService
    RecordsActiveGame
PROPERTIES
    NoInstallWhileBlocked
CHECK_DEADLOCK FALSE
