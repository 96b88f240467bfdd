--------------------------- MODULE EquiumSchedule ---------------------------
(***************************************************************************)
(* The pure part of the on-chain program: the halving schedule, the        *)
(* difficulty retarget and the 256-bit target arithmetic they use          *)
(* (programs/equium/src/schedule.rs, state.rs and                          *)
(* crates/equihash-core/src/target.rs).  A target and a solution hash are  *)
(* the numbers 0..MAX_TARGET that their 32 big-endian bytes denote.        *)
(***************************************************************************)
EXTENDS Integers

CONSTANTS
    INITIAL_BLOCK_REWARD_BASE,  \* reward of the first epoch, in base units
    HALVING_INTERVAL_BLOCKS,    \* heights per reward epoch
    RETARGET_INTERVAL_BLOCKS,   \* heights per difficulty window
    RETARGET_TARGET_SECONDS,    \* seconds a window is meant to take
    MAX_TARGET,                 \* the target [0xFF; 32]
    U64_MAX                     \* u64::MAX

ASSUME ScheduleAssumption ==
    /\ INITIAL_BLOCK_REWARD_BASE \in Nat
    /\ HALVING_INTERVAL_BLOCKS \in Nat \ {0}
    /\ RETARGET_INTERVAL_BLOCKS \in Nat \ {0}
    /\ RETARGET_TARGET_SECONDS \in Nat \ {0}
    /\ MAX_TARGET \in Nat \ {0}
    /\ U64_MAX \in Nat
    /\ 2 * RETARGET_TARGET_SECONDS < U64_MAX

Targets == 0..MAX_TARGET

-----------------------------------------------------------------------------
(* The halving schedule.                                                   *)

\* `>> n` on a u64, one bit after the other; the shift never reaches the width
\* of the word here.
shift_right(x, n) ==
    LET shifted[k \in Nat] == IF k = 0 THEN x ELSE shifted[k - 1] \div 2
    IN  shifted[n]

\* The reward is a u64: 64 shifts leave nothing of it.
ASSUME WordAssumption == shift_right(INITIAL_BLOCK_REWARD_BASE, 64) = 0

reward_at_height(height) ==
    LET halvings == height \div HALVING_INTERVAL_BLOCKS
    IN  IF halvings >= 64 THEN 0
        ELSE shift_right(INITIAL_BLOCK_REWARD_BASE, halvings)

\* Mutation: the halving comes one round after the boundary.
is_halving_boundary_late(height) ==
    height > 1 /\ height % HALVING_INTERVAL_BLOCKS = 1

is_halving_boundary(height) ==
    height > 0 /\ height % HALVING_INTERVAL_BLOCKS = 0

is_retarget_boundary(height) ==
    height > 0 /\ height % RETARGET_INTERVAL_BLOCKS = 0

-----------------------------------------------------------------------------
(* The difficulty retarget.                                                *)

RETARGET_MIN_NUM == 1
RETARGET_MIN_DEN == 2
RETARGET_MAX_NUM == 2
RETARGET_MAX_DEN == 1

hash_under_target(hash, target) == hash < target

\* Mutation: the quotient is not saturated.
scale_target_unsaturated(old, num, den) == (old * num) \div den

\* The 256-bit product divided by `den`, saturating at the maximum target.
\* TargetArithmetic models the limb-by-limb computation and checks that this
\* is the number it computes.
scale_target(old, num, den) ==
    LET scaled == (old * num) \div den
    IN  IF scaled > MAX_TARGET THEN MAX_TARGET ELSE scaled

saturating_mul(a, b) == IF a * b > U64_MAX THEN U64_MAX ELSE a * b

RatioBelowMin(actual_seconds) ==
    saturating_mul(actual_seconds, RETARGET_MIN_DEN)
        < saturating_mul(RETARGET_TARGET_SECONDS, RETARGET_MIN_NUM)

RatioAboveMax(actual_seconds) ==
    saturating_mul(actual_seconds, RETARGET_MAX_DEN)
        > saturating_mul(RETARGET_TARGET_SECONDS, RETARGET_MAX_NUM)

\* Mutation: a slow window is not clamped.
next_target_unclamped(old_target, actual_seconds) ==
    IF actual_seconds = 0 \/ RatioBelowMin(actual_seconds)
    THEN scale_target(old_target, RETARGET_MIN_NUM, RETARGET_MIN_DEN)
    ELSE scale_target(old_target, actual_seconds, RETARGET_TARGET_SECONDS)

\* A window of zero seconds is clamped like any other fast window.
next_target(old_target, actual_seconds) ==
    IF actual_seconds = 0 \/ RatioBelowMin(actual_seconds)
    THEN scale_target(old_target, RETARGET_MIN_NUM, RETARGET_MIN_DEN)
    ELSE IF RatioAboveMax(actual_seconds)
         THEN scale_target(old_target, RETARGET_MAX_NUM, RETARGET_MAX_DEN)
         ELSE scale_target(old_target, actual_seconds, RETARGET_TARGET_SECONDS)
=============================================================================
