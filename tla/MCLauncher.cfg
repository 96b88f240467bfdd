SPECIFICATION FairLaunches
CONSTANTS
    BatchSizes = {0, 1, 2, 3, 4, 8, 9, 10}
    MAX_NONCES = 11
    INT_MAX = 3
    THREADS_PER_BLOCK = 2
    MAX_RACES = 2
    DEFAULT_BATCH = 2
    MAX_LAUNCHES = 2
INVARIANTS
    BuildFindsNvcc
    KeyFileRemoved
    ModeObeyed
    LaunchTypeOK
    NoDeviceLeak
    ThreadsInBounds
    CountIsSearched
    NoReporterLeft
PROPERTIES
    GpuRaceReturns
\* The number of launches is bounded.
CHECK_DEADLOCK FALSE
