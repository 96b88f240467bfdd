SPECIFICATION FairSystem
CONSTANTS
    Miners = {m1, m2}
    EXPECTED_ADMIN = admin
    DefaultKey = default
    Entropies = {h1}
    NoHash = none
    INITIAL_BLOCK_REWARD_BASE = 2
    HALVING_INTERVAL_BLOCKS = 1
    RETARGET_INTERVAL_BLOCKS = 2
    RETARGET_TARGET_SECONDS = 4
    MAX_TARGET = 15
    U64_MAX = 1000
    TOTAL_SUPPLY_BASE = 4
    MINEABLE_BASE = 4
    ROUND_TIMEOUT_SLOTS = 1
    AdminTargets = {8}
    SolutionHashes = {1}
    DonationAmounts = {}
    SlotSteps = {1}
    TimeSteps = {1}
    MAX_SLOT = 2
    ROUND_STALL_SECS = 1
    ADVANCE_COOLDOWN_SECS = 1
    max_blocks = 2
    MAX_SENDS = 1
INVARIANTS
    EveryHeightClosedOnce
    BooksMatchChain
PROPERTIES
    AlwaysComesBack
\* Bounded clocks and sends: the system may come to rest.
CHECK_DEADLOCK FALSE
