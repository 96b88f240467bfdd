SPECIFICATION FairSpec
CONSTANTS
    Nodes = {n1, n2}
    ROUND_TIMEOUT_SLOTS = 2
    ROUND_STALL_SECS = 4
    ADVANCE_COOLDOWN_SECS = 3
    SlotSeconds = {1, 2}
    SlowestSlot = 2
    MAX_HEIGHT = 3
    MAX_IN_FLIGHT = 2
INVARIANTS
    SkipInvariant
    SkipIsDue
PROPERTIES
    AttemptsSpaced
    RoundsGoOn
\* The bounded chain comes to rest after the client has exited.
CHECK_DEADLOCK FALSE
