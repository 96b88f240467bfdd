SPECIFICATION SystemSpec
CONSTANTS
    Miners = {m1}
    EXPECTED_ADMIN = admin
    DefaultKey = default
    Entropies = {h1}
    NoHash = none
    INITIAL_BLOCK_REWARD_BASE = 2
    HALVING_INTERVAL_BLOCKS = 1
    RETARGET_INTERVAL_BLOCKS = 2
    RETARGET_TARGET_SECONDS = 4
    MAX_TARGET = 15
    U64_MAX = 1000
    TOTAL_SUPPLY_BASE = 4
    MINEABLE_BASE = 4
    ROUND_TIMEOUT_SLOTS = 1
    AdminTargets = {8}
    SolutionHashes = {1}
    DonationAmounts = {}
    SlotSteps = {1}
    TimeSteps = {1}
    MAX_SLOT = 3
    ROUND_STALL_SECS = 2
    ADVANCE_COOLDOWN_SECS = 1
    max_blocks = 1
    MAX_SENDS = 3
INVARIANTS
    StopsAfterMaxBlocks
\* Bounded clocks and sends: the system may come to rest.
CHECK_DEADLOCK FALSE
