------------------------------- MODULE Equium -------------------------------
(***************************************************************************)
(* The on-chain program (programs/equium/src): one global config account,  *)
(* the vault it owns, and the six instructions that change them.           *)
(*                                                                         *)
(* An instruction is one step, because a Solana transaction that fails     *)
(* leaves every account as it was: the guards of an action are all the     *)
(* `require!`, `checked_*` and account constraints on the handler's path,  *)
(* and a call that misses one of them is no step at all.  Transactions     *)
(* that write the config are serialised by its account lock.               *)
(*                                                                         *)
(* The config account keeps the fields an instruction reads or changes;    *)
(* its keys, bumps and Equihash parameters are fixed by `initialize`.      *)
(* SHA-256 is abstracted to a free constructor: two challenges are equal   *)
(* exactly when everything hashed into them is.                            *)
(***************************************************************************)
EXTENDS EquiumSchedule

CONSTANTS
    Miners,               \* wallets that sign mine transactions
    EXPECTED_ADMIN,       \* the wallet allowed to call `initialize`
    DefaultKey,           \* Pubkey::default(), a key nobody can sign for
    Entropies,            \* hashes that can head the SlotHashes sysvar
    NoHash,               \* a SlotHashes sysvar without entries
    TOTAL_SUPPLY_BASE,    \* tokens the deployer minted
    MINEABLE_BASE,        \* the part `fund_vault` deposits
    ROUND_TIMEOUT_SLOTS,  \* age at which a round may be skipped
    AdminTargets,         \* targets the admin may pass to an instruction
    SolutionHashes,       \* hashes a submitted solution may have
    DonationAmounts,      \* sizes of plain token transfers into the vault
    SlotSteps,            \* how far the slot may move in one tick
    TimeSteps,            \* how far the unix clock may move in one tick
    MAX_SLOT              \* bound on the clock: no tick from here on

Wallets == Miners \cup {EXPECTED_ADMIN}

ASSUME ProgramAssumption ==
    /\ DefaultKey \notin Wallets
    /\ NoHash \notin Entropies
    /\ TOTAL_SUPPLY_BASE \in Nat
    /\ MINEABLE_BASE \in 0..TOTAL_SUPPLY_BASE
    /\ TOTAL_SUPPLY_BASE <= U64_MAX
    /\ ROUND_TIMEOUT_SLOTS \in Nat
    /\ AdminTargets \subseteq Targets
    /\ SolutionHashes \subseteq Targets
    /\ DonationAmounts \subseteq Nat
    /\ SlotSteps \subseteq Nat \ {0}
    /\ TimeSteps \subseteq Int
    /\ MAX_SLOT \in Nat

\* What state.rs chooses its constants for: two first epochs' worth of reward,
\* the limit of the halving series, is within the mineable supply.
ASSUME SupplyAssumption ==
    2 * (HALVING_INTERVAL_BLOCKS * INITIAL_BLOCK_REWARD_BASE) <= MINEABLE_BASE

VARIABLES
    initialized,   \* the config and vault accounts exist
    cfg,           \* the config account
    vault,         \* balance of the vault account
    source,        \* balance of the admin's token account
    ata,           \* balance of each miner's associated token account
    slot,          \* Clock sysvar: slot
    unix_ts,       \* Clock sysvar: unix_timestamp
    slot_hash,     \* head of the SlotHashes sysvar
    opened_slot    \* slot reported by the MiningOpened event, 0 before it

clock == <<slot, unix_ts, slot_hash>>
tokens == <<vault, source, ata>>
vars == <<initialized, cfg, tokens, clock, opened_slot>>

-----------------------------------------------------------------------------
(* Challenges, input blocks and proof of work.                             *)

\* The first challenge hashes the mint and the slot; each later one hashes its
\* predecessor, so along one history the number of rounds stands for it.
genesis_challenge ==
    [round |-> 0, winner |-> DefaultKey, entropy |-> NoHash]

derive_next_challenge(prev, winner, entropy) ==
    [round |-> prev.round + 1, winner |-> winner, entropy |-> entropy]

\* Mutation: the input block does not bind the miner.
build_input_unbound(challenge, miner, height) ==
    [challenge |-> challenge, miner |-> DefaultKey, height |-> height]

build_input(challenge, miner, height) ==
    [challenge |-> challenge, miner |-> miner, height |-> height]

\* A submission is a valid Equihash solution for the input block it was solved
\* against; the program rebuilds that block from its own state and the signer.
is_valid_solution(miner, submission) ==
    submission.input = build_input(cfg.current_challenge, miner,
                                   cfg.block_height)

verify_submission(miner, submission) ==
    /\ is_valid_solution(miner, submission)
    /\ hash_under_target(submission.hash, cfg.current_target)

read_recent_slot_hash_ok == slot_hash # NoHash

-----------------------------------------------------------------------------
(* Round transition.                                                       *)

checked_add_ok(a, b) == a + b <= U64_MAX

SecondsSince(ts) == IF unix_ts > ts THEN unix_ts - ts ELSE 0

\* Mutation: the next window is measured from the start of this one.
retargeted_same_window(c, height) ==
    [c EXCEPT !.current_target =
                  next_target(@, SecondsSince(c.last_retarget_unix_ts)),
              !.next_retarget_block = height + RETARGET_INTERVAL_BLOCKS]

retargeted(c, height) ==
    [c EXCEPT !.current_target =
                  next_target(@, SecondsSince(c.last_retarget_unix_ts)),
              !.last_retarget_unix_ts = unix_ts,
              !.next_retarget_block = height + RETARGET_INTERVAL_BLOCKS]

\* Mutation: the boundary moves on but the reward stays.
halved_boundary_only(c, height) ==
    [c EXCEPT !.next_halving_block = height + HALVING_INTERVAL_BLOCKS]

halved(c, height) ==
    [c EXCEPT !.current_epoch_reward = shift_right(@, 1),
              !.next_halving_block = height + HALVING_INTERVAL_BLOCKS]

\* Mutation: the winner of the round is not recorded.
next_round_anonymous(c, winner) ==
    [c EXCEPT
        !.block_height = @ + 1,
        !.current_challenge = derive_next_challenge(@, winner, slot_hash),
        !.current_round_open_slot = slot,
        !.current_round_open_unix_ts = unix_ts,
        !.empty_rounds = IF winner = DefaultKey THEN @ + 1 ELSE @]

\* Mutation: every closed round counts as an empty one.
next_round_all_empty(c, winner) ==
    [c EXCEPT
        !.block_height = @ + 1,
        !.current_challenge = derive_next_challenge(@, winner, slot_hash),
        !.current_round_open_slot = slot,
        !.current_round_open_unix_ts = unix_ts,
        !.last_winner = IF winner = DefaultKey THEN @ ELSE winner,
        !.empty_rounds = @ + 1]

\* The round that opens after `c`; a round nobody won passes DefaultKey.
next_round(c, winner) ==
    [c EXCEPT
        !.block_height = @ + 1,
        !.current_challenge = derive_next_challenge(@, winner, slot_hash),
        !.current_round_open_slot = slot,
        !.current_round_open_unix_ts = unix_ts,
        !.last_winner = IF winner = DefaultKey THEN @ ELSE winner,
        !.empty_rounds = IF winner = DefaultKey THEN @ + 1 ELSE @]

advance_round_ok(c, winner) ==
    LET height == c.block_height + 1
    IN  /\ read_recent_slot_hash_ok
        /\ checked_add_ok(c.block_height, 1)
        /\ winner = DefaultKey => checked_add_ok(c.empty_rounds, 1)
        /\ is_retarget_boundary(height)
               => checked_add_ok(height, RETARGET_INTERVAL_BLOCKS)
        /\ is_halving_boundary(height)
               => checked_add_ok(height, HALVING_INTERVAL_BLOCKS)

\* Mutation: a skipped round passes its boundaries by.
advance_round_if_won(c, winner) ==
    LET height == c.block_height + 1
        moved == next_round(c, winner)
        timed == IF is_retarget_boundary(height)
                 THEN retargeted(moved, height) ELSE moved
    IN  IF winner # DefaultKey /\ is_halving_boundary(height)
        THEN halved(timed, height) ELSE timed

advance_round(c, winner) ==
    LET height == c.block_height + 1
        moved == next_round(c, winner)
        timed == IF is_retarget_boundary(height)
                 THEN retargeted(moved, height) ELSE moved
    IN  IF is_halving_boundary(height) THEN halved(timed, height) ELSE timed

-----------------------------------------------------------------------------
(* Instructions.                                                           *)

NoConfig ==
    [genesis_slot |-> 0, genesis_unix_ts |-> 0, current_target |-> 0,
     block_height |-> 0, current_challenge |-> genesis_challenge,
     current_round_open_slot |-> 0, current_round_open_unix_ts |-> 0,
     last_winner |-> DefaultKey, current_epoch_reward |-> 0,
     next_halving_block |-> 0, next_retarget_block |-> 0,
     last_retarget_unix_ts |-> 0, cumulative_mined |-> 0, empty_rounds |-> 0,
     mining_open |-> FALSE, admin |-> DefaultKey, admin_renounced |-> FALSE]

Initialize(initial_target) ==
    /\ ~initialized
    /\ initialized' = TRUE
    /\ cfg' = [NoConfig EXCEPT
                  !.genesis_slot = slot,
                  !.genesis_unix_ts = unix_ts,
                  !.current_target = initial_target,
                  !.current_round_open_slot = slot,
                  !.current_round_open_unix_ts = unix_ts,
                  !.current_epoch_reward = INITIAL_BLOCK_REWARD_BASE,
                  !.next_halving_block = HALVING_INTERVAL_BLOCKS,
                  !.next_retarget_block = RETARGET_INTERVAL_BLOCKS,
                  !.last_retarget_unix_ts = unix_ts,
                  !.admin = EXPECTED_ADMIN]
    /\ UNCHANGED <<tokens, clock, opened_slot>>

\* Mutation: the first round stays open since `initialize`.
FundVault_round_open(signer) ==
    /\ initialized
    /\ signer = cfg.admin
    /\ ~cfg.mining_open
    /\ source >= MINEABLE_BASE
    /\ source' = source - MINEABLE_BASE
    /\ vault' = vault + MINEABLE_BASE
    /\ cfg' = [cfg EXCEPT !.mining_open = TRUE]
    /\ opened_slot' = slot
    /\ UNCHANGED <<initialized, ata, clock>>

FundVault(signer) ==
    /\ initialized
    /\ signer = cfg.admin
    /\ ~cfg.mining_open
    /\ source >= MINEABLE_BASE
    /\ source' = source - MINEABLE_BASE
    /\ vault' = vault + MINEABLE_BASE
    /\ cfg' = [cfg EXCEPT !.current_round_open_slot = slot,
                          !.current_round_open_unix_ts = unix_ts,
                          !.last_retarget_unix_ts = unix_ts,
                          !.mining_open = TRUE]
    /\ opened_slot' = slot
    /\ UNCHANGED <<initialized, ata, clock>>

mine_ok(miner, submission) ==
    LET reward == cfg.current_epoch_reward
    IN  /\ initialized
        /\ cfg.mining_open
        /\ verify_submission(miner, submission)
        /\ reward > 0
        /\ checked_add_ok(cfg.cumulative_mined, reward)
        /\ cfg.cumulative_mined + reward <= MINEABLE_BASE
        /\ reward <= vault
        /\ advance_round_ok(cfg, miner)

\* Mutation: the round is advanced first, and the reward read after it.
Mine_advanced_first(miner, submission) ==
    LET advanced == advance_round(cfg, miner)
        reward == advanced.current_epoch_reward
    IN  /\ mine_ok(miner, submission)
        /\ vault' = vault - reward
        /\ ata' = [ata EXCEPT ![miner] = @ + reward]
        /\ cfg' = [advanced EXCEPT !.cumulative_mined = @ + reward]
        /\ UNCHANGED <<initialized, source, clock, opened_slot>>

\* The reward is the one of the epoch before a halving this round may bring.
Mine(miner, submission) ==
    LET reward == cfg.current_epoch_reward
        credited == [cfg EXCEPT !.cumulative_mined = @ + reward]
    IN  /\ mine_ok(miner, submission)
        /\ vault' = vault - reward
        /\ ata' = [ata EXCEPT ![miner] = @ + reward]
        /\ cfg' = advance_round(credited, miner)
        /\ UNCHANGED <<initialized, source, clock, opened_slot>>

advance_empty_round_ok ==
    /\ initialized
    /\ cfg.mining_open
    /\ slot >= cfg.current_round_open_slot
    /\ slot - cfg.current_round_open_slot >= ROUND_TIMEOUT_SLOTS
    /\ advance_round_ok(cfg, DefaultKey)

AdvanceEmptyRound ==
    /\ advance_empty_round_ok
    /\ cfg' = advance_round(cfg, DefaultKey)
    /\ UNCHANGED <<initialized, tokens, clock, opened_slot>>

SetTarget(signer, new_target) ==
    /\ initialized
    /\ signer = cfg.admin
    /\ ~cfg.admin_renounced
    /\ cfg' = [cfg EXCEPT !.current_target = new_target]
    /\ UNCHANGED <<initialized, tokens, clock, opened_slot>>

\* Mutation: the flag is set but the admin's key stays.
RenounceAdmin_key_kept(signer) ==
    /\ initialized
    /\ signer = cfg.admin
    /\ ~cfg.admin_renounced
    /\ cfg' = [cfg EXCEPT !.admin_renounced = TRUE]
    /\ UNCHANGED <<initialized, tokens, clock, opened_slot>>

RenounceAdmin(signer) ==
    /\ initialized
    /\ signer = cfg.admin
    /\ ~cfg.admin_renounced
    /\ cfg' = [cfg EXCEPT !.admin_renounced = TRUE, !.admin = DefaultKey]
    /\ UNCHANGED <<initialized, tokens, clock, opened_slot>>

-----------------------------------------------------------------------------
(* The cluster around the program.                                         *)

\* A new slot: the slot strictly grows and puts its hash at the head of
\* SlotHashes; the unix clock moves by any of TimeSteps.
Tick(slots, seconds, hash) ==
    /\ slot + slots <= MAX_SLOT
    /\ slot' = slot + slots
    /\ unix_ts' = unix_ts + seconds
    /\ slot_hash' = hash
    /\ UNCHANGED <<initialized, cfg, tokens, opened_slot>>

\* Anybody holding tokens may send some to the vault; the program is not run.
Donate(amount) ==
    /\ initialized
    /\ amount <= source
    /\ source' = source - amount
    /\ vault' = vault + amount
    /\ UNCHANGED <<initialized, cfg, ata, clock, opened_slot>>

-----------------------------------------------------------------------------

\* Every solution somebody may hand in now: solved for this round or still for
\* the one before, by the signer or copied from another miner.
Submissions ==
    LET current == cfg.current_challenge
        stale == [current EXCEPT !.round = @ - 1]
    IN  [input : {build_input(c, m, cfg.block_height) :
                      c \in {current, stale}, m \in Miners},
         hash : SolutionHashes]

Init ==
    /\ initialized = FALSE
    /\ cfg = NoConfig
    /\ vault = 0
    /\ source = TOTAL_SUPPLY_BASE
    /\ ata = [m \in Miners |-> 0]
    /\ slot = 0
    /\ unix_ts = 0
    /\ slot_hash = NoHash
    /\ opened_slot = 0

Next ==
    \/ \E t \in AdminTargets : Initialize(t)
    \/ \E s \in Wallets : FundVault(s)
    \/ \E m \in Miners, s \in Submissions : Mine(m, s)
    \/ AdvanceEmptyRound
    \/ \E s \in Wallets, t \in AdminTargets : SetTarget(s, t)
    \/ \E s \in Wallets : RenounceAdmin(s)
    \/ \E slots \in SlotSteps, seconds \in TimeSteps, hash \in Entropies :
           Tick(slots, seconds, hash)
    \/ \E a \in DonationAmounts : Donate(a)

Spec == Init /\ [][Next]_vars

-----------------------------------------------------------------------------
(* Type invariant.                                                         *)

Challenges == [round : Nat, winner : Wallets \cup {DefaultKey},
               entropy : Entropies \cup {NoHash}]

EquiumConfig ==
    [genesis_slot : Nat, genesis_unix_ts : Int, current_target : Targets,
     block_height : Nat, current_challenge : Challenges,
     current_round_open_slot : Nat, current_round_open_unix_ts : Int,
     last_winner : Wallets \cup {DefaultKey}, current_epoch_reward : Nat,
     next_halving_block : Nat, next_retarget_block : Nat,
     last_retarget_unix_ts : Int, cumulative_mined : Nat, empty_rounds : Nat,
     mining_open : BOOLEAN, admin : Wallets \cup {DefaultKey},
     admin_renounced : BOOLEAN]

\* Every variable holds a value of the type the code declares for it; in
\* particular the retarget keeps the target within 256 bits.
TypeOK ==
    /\ initialized \in BOOLEAN
    /\ cfg \in EquiumConfig
    /\ vault \in Nat
    /\ source \in Nat
    /\ ata \in [Miners -> Nat]
    /\ slot \in Nat
    /\ unix_ts \in Int
    /\ slot_hash \in Entropies \cup {NoHash}
    /\ opened_slot \in Nat

-----------------------------------------------------------------------------
(* The inductive invariant behind the safety properties.                   *)

\* The first multiple of `interval` above `height`.
NextMultiple(height, interval) == (height \div interval + 1) * interval

\* Before the launch nothing has been mined, skipped or advanced.
NothingBeforeLaunch ==
    /\ cfg.mining_open => initialized
    /\ ~cfg.mining_open => /\ cfg.block_height = 0
                           /\ cfg.cumulative_mined = 0
                           /\ cfg.empty_rounds = 0

BoundariesAhead ==
    initialized =>
        /\ cfg.next_halving_block =
               NextMultiple(cfg.block_height, HALVING_INTERVAL_BLOCKS)
        /\ cfg.next_retarget_block =
               NextMultiple(cfg.block_height, RETARGET_INTERVAL_BLOCKS)

\* What can still be mined: the rest of this epoch at the current reward, and
\* at most one more full epoch's worth for all the later, halved ones.
StillMineable(c) ==
    /\ c.next_halving_block >= c.block_height
    /\ c.cumulative_mined
         + (c.current_epoch_reward * (c.next_halving_block - c.block_height)
            + c.current_epoch_reward * HALVING_INTERVAL_BLOCKS)
       <= 2 * (HALVING_INTERVAL_BLOCKS * INITIAL_BLOCK_REWARD_BASE)

VaultHoldsTheRest ==
    cfg.mining_open => vault + cfg.cumulative_mined >= MINEABLE_BASE

-----------------------------------------------------------------------------
(* Safety properties.                                                      *)

\* While mining is open, the next reward fits under the supply cap and the
\* vault can pay it: `mine` never fails with SupplyExhausted nor for want of
\* funds, however rounds were won, skipped and halved before.
SupplyCovered ==
    cfg.mining_open =>
        /\ cfg.cumulative_mined + cfg.current_epoch_reward <= MINEABLE_BASE
        /\ cfg.current_epoch_reward <= vault

\* The reward kept by repeated shifts and the two announced boundaries are the
\* ones the pure schedule gives for the height, whichever mix of mined and
\* skipped rounds led to it.
ScheduleInStep ==
    /\ BoundariesAhead
    /\ initialized =>
           cfg.current_epoch_reward = reward_at_height(cfg.block_height)

\* Skipping is paced: since mining opened, each skipped round took at least
\* the timeout, so nobody can burn through the schedule with
\* `advance_empty_round`, not even rounds that sat open before the launch.
EmptyRoundsPaced ==
    cfg.mining_open =>
        /\ opened_slot + cfg.empty_rounds * ROUND_TIMEOUT_SLOTS
               <= cfg.current_round_open_slot
        /\ cfg.current_round_open_slot <= slot

\* A difficulty window is measured from the moment its first round opened: the
\* launch for the first one, the boundary round's opening for the others.
WindowAnchored ==
    (cfg.mining_open /\ cfg.block_height % RETARGET_INTERVAL_BLOCKS = 0) =>
        cfg.last_retarget_unix_ts = cfg.current_round_open_unix_ts

\* The strengthening of SupplyCovered and EmptyRoundsPaced that every step
\* preserves: the supply is covered because what was mined and what can still
\* be mined never exceed two first epochs' worth.
SupplyInvariant ==
    /\ TypeOK
    /\ NothingBeforeLaunch
    /\ BoundariesAhead
    /\ initialized => StillMineable(cfg)
    /\ VaultHoldsTheRest
    /\ EmptyRoundsPaced

-----------------------------------------------------------------------------
(* Action properties.                                                      *)

\* Tokens leave the vault only as the reward that the pure schedule sets for
\* the height being closed, to the one miner recorded as winner, and the
\* program's own count of mined tokens grows by exactly that.
PayoutStep ==
    (vault' < vault \/ cfg'.cumulative_mined # cfg.cumulative_mined) =>
        LET reward == reward_at_height(cfg.block_height)
        IN  /\ cfg'.block_height = cfg.block_height + 1
            /\ vault' = vault - reward
            /\ cfg'.cumulative_mined = cfg.cumulative_mined + reward
            /\ cfg'.last_winner \in Miners
            /\ ata' = [ata EXCEPT ![cfg'.last_winner] = @ + reward]
PayoutFollowsSchedule == [][PayoutStep]_vars

\* A step that closes a round moves the target only at a retarget boundary,
\* never below half nor above twice its value, and in the direction of the
\* window: a slow window never hardens, a fast one never eases.
RetargetStep ==
    (initialized /\ cfg'.block_height # cfg.block_height) =>
        LET old == cfg.current_target
            new == cfg'.current_target
            seconds == unix_ts - cfg.last_retarget_unix_ts
        IN  IF is_retarget_boundary(cfg'.block_height)
            THEN /\ old \div 2 <= new /\ new <= 2 * old
                 /\ seconds >= RETARGET_TARGET_SECONDS => new >= old
                 /\ seconds <= RETARGET_TARGET_SECONDS => new <= old
            ELSE new = old
RetargetDamped == [][RetargetStep]_vars

\* Renouncing is final: from then on nobody is admin, a closed program stays
\* closed, and the target moves only with a round that closes.
RenouncedStep ==
    cfg.admin_renounced =>
        /\ cfg'.admin_renounced /\ cfg'.admin = cfg.admin
        /\ cfg'.mining_open = cfg.mining_open
        /\ cfg'.block_height = cfg.block_height
               => cfg'.current_target = cfg.current_target
RenounceIsFinal == [][RenouncedStep]_vars

\* A solution wins at most once, for the miner it was solved for: a copyist's
\* transaction with the same solution never verifies, and once a round closes
\* no solution that verified in it verifies again for anybody.
SolutionStep ==
    \A m \in Miners, s \in Submissions :
        verify_submission(m, s) =>
            \A other \in Miners :
                /\ verify_submission(other, s) => other = m
                /\ cfg'.block_height # cfg.block_height
                       => ~verify_submission(other, s)'
SolutionWinsOnce == [][SolutionStep]_vars

-----------------------------------------------------------------------------
(* The abstract specification.                                             *)

\* Before `initialize` the reward to come is the first epoch's.
Promise == INSTANCE Emission WITH
    Winners <- Miners,
    FirstReward <- INITIAL_BLOCK_REWARD_BASE,
    Epoch <- HALVING_INTERVAL_BLOCKS,
    Cap <- MINEABLE_BASE,
    open <- cfg.mining_open,
    height <- cfg.block_height,
    reward <- IF initialized THEN cfg.current_epoch_reward
              ELSE INITIAL_BLOCK_REWARD_BASE,
    emitted <- cfg.cumulative_mined,
    paid <- ata

\* The program implements Emission: whatever instructions are called, with
\* rounds mined, skipped and halved in any mix, a holder sees heights closed
\* one by one and winners paid the reward of the height they close.
EmissionPromise == Promise!Spec
=============================================================================
