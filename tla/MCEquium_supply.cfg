SPECIFICATION Spec
CONSTANTS
    Miners = {m1, m2}
    EXPECTED_ADMIN = admin
    DefaultKey = default
    Entropies = {h1}
    NoHash = none
    INITIAL_BLOCK_REWARD_BASE = 5
    HALVING_INTERVAL_BLOCKS = 2
    RETARGET_INTERVAL_BLOCKS = 3
    RETARGET_TARGET_SECONDS = 4
    MAX_TARGET = 15
    U64_MAX = 1000
    TOTAL_SUPPLY_BASE = 21
    MINEABLE_BASE = 20
    ROUND_TIMEOUT_SLOTS = 2
    AdminTargets = {8}
    SolutionHashes = {0, 9}
    DonationAmounts = {1}
    SlotSteps = {1, 2}
    TimeSteps = {1}
    MAX_SLOT = 5
INVARIANTS
    SupplyCovered
    SupplyInvariant
    ScheduleInStep
    EmptyRoundsPaced
PROPERTIES
    PayoutFollowsSchedule
    SolutionWinsOnce
    EmissionPromise
\* The bounded clock ends and the reward falls to zero.
CHECK_DEADLOCK FALSE
