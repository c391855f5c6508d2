SPECIFICATION Spec
CONSTANTS
    Infinite = Infinite
    None = None
    MaxBytes = 4
    Retention = 3
    Durations = {1, 2}
    Sizes = {1, 2}
    MaxPushes = 5
INVARIANTS
    EvictionInvisibleToSaves
    ExclusiveSavesTile
PROPERTIES
    RollingWindowSpec
CHECK_DEADLOCK FALSE
