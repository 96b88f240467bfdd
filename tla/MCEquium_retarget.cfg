SPECIFICATION Spec
CONSTANTS
    Miners = {m1}
    EXPECTED_ADMIN = admin
    DefaultKey = default
    Entropies = {h1}
    NoHash = none
    INITIAL_BLOCK_REWARD_BASE = 5
    HALVING_INTERVAL_BLOCKS = 2
    RETARGET_INTERVAL_BLOCKS = 2
    RETARGET_TARGET_SECONDS = 4
    MAX_TARGET = 15
    U64_MAX = 1000
    TOTAL_SUPPLY_BASE = 20
    MINEABLE_BASE = 20
    ROUND_TIMEOUT_SLOTS = 1
    AdminTargets = {1, 9}
    SolutionHashes = {0}
    DonationAmounts = {}
    SlotSteps = {1}
    TimeSteps <- ClockDrift
    MAX_SLOT = 4
INVARIANTS
    TypeOK
    WindowAnchored
PROPERTIES
    RetargetDamped
    RenounceIsFinal
\* The bounded clock ends and the reward falls to zero.
CHECK_DEADLOCK FALSE
