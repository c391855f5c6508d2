SPECIFICATION Spec
CONSTANTS
    Focus = {"settings"}
    None = None
    one = one
    two = two
    a = a
    b = b
    c = c
    ar = ar
    br = br
    au = au
    bu = bu
    Attempts <- SessionNames
    RecoveredAs <- RecoveredNames
    Launched = one
    Replacement = two
    MaxSessions = 4
    MaxCrashes = 1
    MaxForeign = 1
    ClipNames = {a, b, c}
    FirstFiles <- LocalFiles
    FileSize = 5
    PartSize = 3
    MaxAttempts = 2
    Plans <- CloudPlans
    Lengths <- ClipLengths
    MarkerTimes = {3}
    MinTrimGap = 2
    MinViewSpan = 3
    QuickTrimWindow = 3
    SnapShare = 3
    MaxGestures = 3
    ReviewClips = {a, b}
    NewName = c
    NoPath = None
    ClipDuration = 4
    Tolerance = 1
    SeekTargets = {0, 2, 5}
    MaxSources = 4
    MaxSeeks = 2
    MaxTicks = 1
    PosterClips = {a, b}
    Views = {one, two}
    NoView = None
    MaxConcurrent = 1
    MaxFlights = 2
    MaxClock = 3
    MaxFailures = 1
    Selections = {a, b}
    Original = c
    Encoders = 2
    Ranges <- ClipRanges
    CopyNumbers <- CopyNames
    NoContent = None
    Errands <- SharingErrands
    Apps <- AppSettings
    FirstApp <- AppAtFirst
    NoKeys = None
    Targets = {one, two}
    NoTarget = None
    Allowances <- SettingsAllowances
    ArchiveSize = 1
    Files = 2
    Runtimes = {"none", "damaged", "verified"}
    Duties <- InstallDuties
    Wishes <- WindowWishes
INVARIANTS
    CleanupTakesOnlyObsolete
CHECK_DEADLOCK FALSE
