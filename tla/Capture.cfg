SPECIFICATION CaptureSpec
CONSTANTS
    Focus = {"disk", "session", "gops", "mp4", "mix", "audio", "framing", "ffmpeg", "mft", "choice", "screen"}
    Infinite = Infinite
    None = None
    MaxBytes = 3
    Retention = 3
    Durations = {1, 2}
    Sizes = {1, 2}
    MaxPushes = 4
    MaxQueueBytes = 5
    MaxQueueSegments = 2
    SegmentSizes = {1, 2, 3}
    Faults = {"ring", "write", "finalize", "panic"}
    NoValue = NoValue
    MaxSealed = 5
    MaxSessions = 2
    MaxFrames = 4
    MaxLag = 1
    PipeSize = 1
    Transforms = {"hardware", "software"}
    Room = 2
    KeyFrames = {1, 3}
    Capacities = {0, 1, 2}
    MaxFed = 4
    MaxBreaks = 1
    Interval = 2
    MaxDelay = 1
    FirstWait = 2
    Backoff = 1
    ShownSizes = {0, 1, 2}
    Crop = 2
    MaxTime = 7
    MaxSetup = 1
    ScreenBounds <- ScreenSpare
INVARIANTS
    CacheIsAccountedFor
    SessionFileIsTrue
    GopsKeepTime
    FilesAreExact
    MixKeepsEveryTick
    TrackIsFaithful
    PicturesAreWhole
    EncoderKeepsUp
    TransformIsServed
    EncodersAreReal
    VideoKeepsTime
PROPERTIES
    RollingWindowSpec
    FinishReturns
CHECK_DEADLOCK FALSE
