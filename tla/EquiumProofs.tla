---------------------------- MODULE EquiumProofs ----------------------------
(***************************************************************************)
(* Theorems about the on-chain program for every schedule, supply, set of  *)
(* miners and history: type correctness, the inductive invariant that      *)
(* covers the supply and paces the skipping of rounds, then what single    *)
(* steps may never do.  Renouncing is final, a retarget is damped and      *)
(* measured over the right window, a solution wins once, the reward        *)
(* follows the pure schedule, and every step is one that Emission promises.*)
(***************************************************************************)
EXTENDS Equium, ArithmeticLemmas, TLAPS

\* Scaling by any ratio stays within 256 bits.
LEMMA ScaleTargetInRange ==
    ASSUME NEW old \in Targets, NEW num \in Nat, NEW den \in Nat \ {0}
    PROVE  scale_target(old, num, den) \in Targets
BY ScheduleAssumption DEF scale_target, Targets

\* So does a retarget, whichever branch it takes.
LEMMA NextTargetInRange ==
    ASSUME NEW old \in Targets, NEW seconds \in Nat
    PROVE  next_target(old, seconds) \in Targets
BY ScaleTargetInRange, ScheduleAssumption
   DEF next_target, RETARGET_MIN_NUM, RETARGET_MIN_DEN, RETARGET_MAX_NUM,
       RETARGET_MAX_DEN

\* Shifting by one more bit halves once more.
LEMMA ShiftRight ==
    ASSUME NEW x \in Nat
    PROVE  /\ shift_right(x, 0) = x
           /\ \A n \in Nat : /\ shift_right(x, n) \in Nat
                             /\ shift_right(x, n + 1) = shift_right(x, n) \div 2
<1> DEFINE Is(f) == f = [k \in Nat |-> IF k = 0 THEN x ELSE f[k - 1] \div 2]
           next == [p \in Nat \X Nat |-> p[2] \div 2]
<1>1. next \in [Nat \X Nat -> Nat]
  OBVIOUS
<1>2. PICK s \in [Nat -> Nat] : Follows(s, x, next)
  <2> HIDE DEF next
  <2> QED
    BY <1>1, PrimitiveRecursion
<1>3. Is(s)
  <2>1. ASSUME NEW k \in Nat
        PROVE  s[k] = IF k = 0 THEN x ELSE s[k - 1] \div 2
    <3>1. CASE k = 0
      BY <1>2, <3>1 DEF Follows
    <3>2. CASE k # 0
      <4>1. k - 1 \in Nat /\ s[k - 1] \in Nat
        BY <1>2, <3>2
      <4>2. next[<<k, s[k - 1]>>] = s[k - 1] \div 2
        BY <4>1
      <4>3. s[k] = next[<<k, s[k - 1]>>]
        BY <1>2, <3>2 DEF Follows
      <4> QED
        BY <3>2, <4>2, <4>3
    <3> QED
      BY <3>1, <3>2
  <2>2. s = [k \in Nat |-> s[k]]
    BY <1>2
  <2> QED
    BY <2>1, <2>2
<1> DEFINE f == CHOOSE f : Is(f)
<1>4. Is(f)
  BY <1>3
<1>5. \A n : shift_right(x, n) = f[n]
  BY DEF shift_right
<1> HIDE DEF f
<1>6. \A k \in Nat : f[k] = IF k = 0 THEN x ELSE f[k - 1] \div 2
  BY <1>4
<1>7. \A k \in Nat : f[k] \in Nat
  <2> DEFINE T == {i \in Nat : f[i] \notin Nat}
  <2> SUFFICES ASSUME T # {} PROVE FALSE
    OBVIOUS
  <2>1. PICK i \in T : \A j \in T : i <= j
    BY LeastNatural
  <2>2. i # 0
    BY <1>6
  <2>3. i - 1 \in Nat /\ i - 1 \notin T
    BY <2>1, <2>2
  <2> QED
    BY <2>2, <2>3, <1>6
<1> QED
  BY <1>5, <1>6, <1>7

\* Twice the shifted reward never exceeds the reward.
LEMMA RewardHalves ==
    ASSUME NEW r \in Nat
    PROVE  /\ shift_right(r, 1) = r \div 2
           /\ shift_right(r, 1) \in Nat
           /\ 2 * shift_right(r, 1) <= r
<1>1. shift_right(r, 0) = r /\ shift_right(r, 0 + 1) = shift_right(r, 0) \div 2
  BY ShiftRight
<1> QED
  BY <1>1

\* The three parts of a round transition keep the config's type.
LEMMA NextRoundType ==
    ASSUME NEW c \in EquiumConfig, NEW winner \in Wallets \cup {DefaultKey},
           slot \in Nat, unix_ts \in Int, slot_hash \in Entropies \cup {NoHash}
    PROVE  next_round(c, winner) \in EquiumConfig
<1>1. derive_next_challenge(c.current_challenge, winner, slot_hash)
          \in Challenges
  BY DEF derive_next_challenge, EquiumConfig, Challenges
<1>2. c.block_height + 1 \in Nat /\ c.empty_rounds + 1 \in Nat
  BY DEF EquiumConfig
<1> QED
  BY <1>1, <1>2 DEF next_round, EquiumConfig

\* The difficulty retarget of a round transition keeps the type.
LEMMA RetargetedType ==
    ASSUME NEW c \in EquiumConfig, NEW height \in Nat, unix_ts \in Int
    PROVE  retargeted(c, height) \in EquiumConfig
<1>1. SecondsSince(c.last_retarget_unix_ts) \in Nat
  BY DEF SecondsSince, EquiumConfig
<1>2. next_target(c.current_target, SecondsSince(c.last_retarget_unix_ts))
          \in Targets
  BY <1>1, NextTargetInRange DEF EquiumConfig
<1>3. height + RETARGET_INTERVAL_BLOCKS \in Nat
  BY ScheduleAssumption
<1> QED
  BY <1>2, <1>3 DEF retargeted, EquiumConfig

\* The halving of a round transition keeps the type.
LEMMA HalvedType ==
    ASSUME NEW c \in EquiumConfig, NEW height \in Nat
    PROVE  halved(c, height) \in EquiumConfig
<1>1. shift_right(c.current_epoch_reward, 1) \in Nat
  BY RewardHalves DEF EquiumConfig
<1>2. height + HALVING_INTERVAL_BLOCKS \in Nat
  BY ScheduleAssumption
<1> QED
  BY <1>1, <1>2 DEF halved, EquiumConfig

\* A whole round transition keeps the type.
LEMMA AdvanceRoundType ==
    ASSUME NEW c \in EquiumConfig, NEW winner \in Wallets \cup {DefaultKey},
           slot \in Nat, unix_ts \in Int, slot_hash \in Entropies \cup {NoHash}
    PROVE  advance_round(c, winner) \in EquiumConfig
<1>1. c.block_height + 1 \in Nat
  BY DEF EquiumConfig
<1>2. next_round(c, winner) \in EquiumConfig
  BY NextRoundType
<1> QED
  BY <1>1, <1>2, RetargetedType, HalvedType DEF advance_round

-----------------------------------------------------------------------------

\* The type invariant holds before `initialize`.
LEMMA TypeInit == Init => TypeOK
<1> SUFFICES ASSUME Init PROVE TypeOK
  OBVIOUS
<1>1. genesis_challenge \in Challenges
  BY DEF genesis_challenge, Challenges
<1>2. 0 \in Targets
  BY ScheduleAssumption DEF Targets
<1>3. NoConfig \in EquiumConfig
  BY <1>1, <1>2 DEF NoConfig, EquiumConfig
<1>4. vault \in Nat /\ source \in Nat /\ slot \in Nat /\ opened_slot \in Nat
      /\ unix_ts \in Int
  BY ProgramAssumption DEF Init
<1>5. ata \in [Miners -> Nat]
  BY DEF Init
<1>6. initialized \in BOOLEAN /\ slot_hash \in Entropies \cup {NoHash}
  BY DEF Init
<1>7. cfg \in EquiumConfig
  BY <1>3 DEF Init
<1> QED
  BY <1>4, <1>5, <1>6, <1>7 DEF TypeOK

\* Every instruction and every step of the cluster keeps the types.
LEMMA TypeNext == TypeOK /\ [Next]_vars => TypeOK'
<1> SUFFICES ASSUME TypeOK, [Next]_vars PROVE TypeOK'
  OBVIOUS
<1>1. ASSUME NEW t \in AdminTargets, Initialize(t) PROVE TypeOK'
  <2>1. genesis_challenge \in Challenges
    BY DEF genesis_challenge, Challenges
  <2>2. t \in Targets /\ EXPECTED_ADMIN \in Wallets
    BY ProgramAssumption DEF Wallets
  <2>3. slot \in Nat /\ unix_ts \in Int
    BY DEF TypeOK
  <2>4. cfg' \in EquiumConfig
    BY <1>1, <2>1, <2>2, <2>3, ScheduleAssumption
       DEF Initialize, NoConfig, EquiumConfig
  <2> QED
    BY <1>1, <2>4 DEF Initialize, TypeOK, tokens, clock
<1>2. ASSUME NEW s \in Wallets, FundVault(s) PROVE TypeOK'
  <2>1. cfg' \in EquiumConfig
    BY <1>2 DEF FundVault, TypeOK, EquiumConfig
  <2> QED
    BY <1>2, <2>1, ProgramAssumption DEF FundVault, TypeOK, clock
<1>3. ASSUME NEW m \in Miners, NEW s \in Submissions, Mine(m, s) PROVE TypeOK'
  <2> DEFINE credited == [cfg EXCEPT !.cumulative_mined =
                                         @ + cfg.current_epoch_reward]
  <2>1. cfg.current_epoch_reward \in Nat /\ cfg.cumulative_mined \in Nat
    BY DEF TypeOK, EquiumConfig
  <2>2. credited \in EquiumConfig
    BY <2>1 DEF TypeOK, EquiumConfig
  <2>3. advance_round(credited, m) \in EquiumConfig
    <3> HIDE DEF credited
    <3> QED BY <2>2, AdvanceRoundType DEF TypeOK, Wallets
  <2>4. cfg' = advance_round(credited, m)
    BY <1>3 DEF Mine, mine_ok
  <2>5. vault' \in Nat /\ ata' \in [Miners -> Nat]
    BY <1>3, <2>1 DEF Mine, mine_ok, TypeOK
  <2> QED
    BY <1>3, <2>3, <2>4, <2>5 DEF Mine, mine_ok, TypeOK, clock
<1>4. ASSUME AdvanceEmptyRound PROVE TypeOK'
  <2>1. advance_round(cfg, DefaultKey) \in EquiumConfig
    BY AdvanceRoundType DEF TypeOK
  <2> QED
    BY <1>4, <2>1
       DEF AdvanceEmptyRound, advance_empty_round_ok, TypeOK, tokens, clock
<1>5. ASSUME NEW s \in Wallets, NEW t \in AdminTargets, SetTarget(s, t)
      PROVE  TypeOK'
  <2>1. cfg' \in EquiumConfig
    BY <1>5, ProgramAssumption DEF SetTarget, TypeOK, EquiumConfig
  <2> QED
    BY <1>5, <2>1 DEF SetTarget, TypeOK, tokens, clock
<1>6. ASSUME NEW s \in Wallets, RenounceAdmin(s) PROVE TypeOK'
  <2>1. cfg' \in EquiumConfig
    BY <1>6 DEF RenounceAdmin, TypeOK, EquiumConfig
  <2> QED
    BY <1>6, <2>1 DEF RenounceAdmin, TypeOK, tokens, clock
<1>7. ASSUME NEW slots \in SlotSteps, NEW seconds \in TimeSteps,
             NEW hash \in Entropies, Tick(slots, seconds, hash)
      PROVE  TypeOK'
  BY <1>7, ProgramAssumption DEF Tick, TypeOK, tokens
<1>8. ASSUME NEW a \in DonationAmounts, Donate(a) PROVE TypeOK'
  BY <1>8, ProgramAssumption DEF Donate, TypeOK, clock
<1>9. CASE UNCHANGED vars
  BY <1>9 DEF vars, TypeOK, tokens, clock
<1> QED
  BY <1>1, <1>2, <1>3, <1>4, <1>5, <1>6, <1>7, <1>8, <1>9 DEF Next

\* Every reachable state is type-correct; the retarget in particular never
\* leaves the 256 bits of a target.
THEOREM TypeCorrect == Spec => []TypeOK
  BY TypeInit, TypeNext, PTL DEF Spec
-----------------------------------------------------------------------------

\* One height on, either the boundary announced before is reached and the next
\* one is an interval further, or it stays ahead.
LEMMA NextMultipleStep ==
    ASSUME NEW h \in Nat, NEW n \in Nat \ {0}
    PROVE  /\ NextMultiple(h, n) \in Nat /\ h < NextMultiple(h, n)
           /\ IF (h + 1) % n = 0
              THEN /\ h + 1 = NextMultiple(h, n)
                   /\ NextMultiple(h + 1, n) = h + 1 + n
              ELSE NextMultiple(h + 1, n) = NextMultiple(h, n)
<1> DEFINE q == h \div n
           r == h % n
<1>1. q \in Nat /\ r \in 0..(n - 1) /\ h = n * q + r
  BY DivMod
<1>2. (q + 1) * n = n * q + n /\ (q + 1) * n \in Nat
  BY <1>1
<1> HIDE DEF q, r
<1>3. NextMultiple(h, n) = (q + 1) * n
  BY DEF NextMultiple, q
<1>4. CASE r = n - 1
  <2>1. h + 1 \in Nat /\ h + 1 = n * (q + 1) + 0 /\ 0 \in 0..(n - 1)
    BY <1>1, <1>2, <1>4
  <2>2. (h + 1) \div n = q + 1 /\ (h + 1) % n = 0
    BY <2>1, <1>1, DivUnique
  <2>3. NextMultiple(h + 1, n) = (q + 1 + 1) * n
    BY <2>2 DEF NextMultiple
  <2>4. (q + 1 + 1) * n = (q + 1) * n + n
    BY <1>1
  <2> QED
    BY <2>1, <2>2, <2>3, <2>4, <1>1, <1>2, <1>3
<1>5. CASE r # n - 1
  <2>1. h + 1 \in Nat /\ h + 1 = n * q + (r + 1) /\ r + 1 # 0
        /\ r + 1 \in 0..(n - 1)
    BY <1>1, <1>5
  <2> DEFINE s == r + 1
  <2> HIDE DEF s
  <2>2. h + 1 = n * q + s /\ s \in 0..(n - 1) /\ s # 0
    BY <2>1 DEF s
  <2>3. (h + 1) \div n = q /\ (h + 1) % n = s
    BY <2>1, <2>2, <1>1, DivUnique
  <2>4. NextMultiple(h + 1, n) = (q + 1) * n
    BY <2>3 DEF NextMultiple
  <2> QED
    BY <2>2, <2>3, <2>4, <1>1, <1>2, <1>3
<1> QED
  BY <1>4, <1>5

-----------------------------------------------------------------------------

\* What a round transition does to the fields the schedule is about.
LEMMA AdvanceRoundFields ==
    ASSUME NEW c \in EquiumConfig, NEW winner \in Wallets \cup {DefaultKey},
           NEW height, height = c.block_height + 1,
           NEW d, d = advance_round(c, winner)
    PROVE  /\ d.block_height = c.block_height + 1
           /\ d.mining_open = c.mining_open
           /\ d.cumulative_mined = c.cumulative_mined
           /\ d.current_round_open_slot = slot
           /\ d.empty_rounds = IF winner = DefaultKey THEN c.empty_rounds + 1
                               ELSE c.empty_rounds
           /\ d.current_epoch_reward =
                  IF is_halving_boundary(height)
                  THEN shift_right(c.current_epoch_reward, 1)
                  ELSE c.current_epoch_reward
           /\ d.next_halving_block =
                  IF is_halving_boundary(height)
                  THEN height + HALVING_INTERVAL_BLOCKS
                  ELSE c.next_halving_block
           /\ d.next_retarget_block =
                  IF is_retarget_boundary(height)
                  THEN height + RETARGET_INTERVAL_BLOCKS
                  ELSE c.next_retarget_block
BY DEF advance_round, next_round, retargeted, halved, EquiumConfig

\* The two announced boundaries stay the next multiples above the height.
LEMMA AdvanceRoundBoundaries ==
    ASSUME NEW c \in EquiumConfig, NEW winner \in Wallets \cup {DefaultKey},
           NEW d, d = advance_round(c, winner),
           c.next_halving_block =
               NextMultiple(c.block_height, HALVING_INTERVAL_BLOCKS),
           c.next_retarget_block =
               NextMultiple(c.block_height, RETARGET_INTERVAL_BLOCKS)
    PROVE  /\ d.next_halving_block =
                  NextMultiple(d.block_height, HALVING_INTERVAL_BLOCKS)
           /\ d.next_retarget_block =
                  NextMultiple(d.block_height, RETARGET_INTERVAL_BLOCKS)
<1> DEFINE height == c.block_height + 1
<1>1. c.block_height \in Nat /\ height > 0
  BY DEF EquiumConfig
<1>2. HALVING_INTERVAL_BLOCKS \in Nat \ {0}
      /\ RETARGET_INTERVAL_BLOCKS \in Nat \ {0}
  BY ScheduleAssumption
<1>3. d.block_height = height
  BY AdvanceRoundFields
<1>4. d.next_halving_block = NextMultiple(height, HALVING_INTERVAL_BLOCKS)
  <2>1. d.next_halving_block = IF is_halving_boundary(height)
                               THEN height + HALVING_INTERVAL_BLOCKS
                               ELSE c.next_halving_block
    BY AdvanceRoundFields
  <2> QED
    BY <2>1, <1>1, <1>2, NextMultipleStep DEF is_halving_boundary
<1>5. d.next_retarget_block = NextMultiple(height, RETARGET_INTERVAL_BLOCKS)
  <2>1. d.next_retarget_block = IF is_retarget_boundary(height)
                                THEN height + RETARGET_INTERVAL_BLOCKS
                                ELSE c.next_retarget_block
    BY AdvanceRoundFields
  <2> QED
    BY <2>1, <1>1, <1>2, NextMultipleStep DEF is_retarget_boundary
<1> QED
  BY <1>3, <1>4, <1>5

\* Closing a round that pays `paid`, at most the epoch's reward, moves that
\* much from what can still be mined to what was mined: the bound survives.
\* At a halving boundary the new epoch takes half of what was reserved for all
\* the later ones and leaves them the other half.
LEMMA AdvanceRoundSupply ==
    ASSUME NEW c \in EquiumConfig, NEW winner \in Wallets \cup {DefaultKey},
           NEW paid \in Nat, paid <= c.current_epoch_reward,
           c.next_halving_block =
               NextMultiple(c.block_height, HALVING_INTERVAL_BLOCKS),
           StillMineable(c),
           NEW b \in EquiumConfig,
           b.block_height = c.block_height,
           b.current_epoch_reward = c.current_epoch_reward,
           b.next_halving_block = c.next_halving_block,
           b.cumulative_mined = c.cumulative_mined + paid,
           NEW d, d = advance_round(b, winner)
    PROVE  StillMineable(d)
<1> DEFINE height == c.block_height + 1
           r == c.current_epoch_reward
           H == HALVING_INTERVAL_BLOCKS
           ahead == c.next_halving_block - c.block_height
           budget == 2 * (H * INITIAL_BLOCK_REWARD_BASE)
<1>1. /\ c.block_height \in Nat /\ c.next_halving_block \in Nat
      /\ r \in Nat /\ c.cumulative_mined \in Nat
      /\ H \in Nat \ {0} /\ budget \in Nat
  BY ScheduleAssumption DEF EquiumConfig
<1>2. /\ ahead \in Nat \ {0}
      /\ c.cumulative_mined + (r * ahead + r * H) <= budget
      /\ is_halving_boundary(height) <=> ahead = 1
  <2>1. c.block_height < c.next_halving_block
    BY <1>1, NextMultipleStep
  <2>2. c.cumulative_mined + (r * ahead + r * H) <= budget
    BY DEF StillMineable
  <2>3. is_halving_boundary(height) <=> height % H = 0
    BY <1>1 DEF is_halving_boundary
  <2>4. IF height % H = 0
        THEN /\ height = NextMultiple(c.block_height, H)
             /\ NextMultiple(height, H) = height + H
        ELSE NextMultiple(height, H) = NextMultiple(c.block_height, H)
    BY <1>1, NextMultipleStep
  <2>5. height < NextMultiple(height, H)
    <3>1. height \in Nat
      BY <1>1
    <3> HIDE DEF height
    <3> QED
      BY <1>1, <3>1, NextMultipleStep
  <2> QED
    BY <1>1, <2>1, <2>2, <2>3, <2>4, <2>5
<1>3. /\ b.block_height = c.block_height
      /\ b.current_epoch_reward = r
      /\ b.next_halving_block = c.next_halving_block
      /\ b.cumulative_mined = c.cumulative_mined + paid
  OBVIOUS
<1>4. /\ d.block_height = height
      /\ d.cumulative_mined = c.cumulative_mined + paid
      /\ d.current_epoch_reward = IF is_halving_boundary(height)
                                  THEN shift_right(r, 1) ELSE r
      /\ d.next_halving_block = IF is_halving_boundary(height)
                                THEN height + H ELSE c.next_halving_block
  <2>1. height = b.block_height + 1
    BY <1>3
  <2> HIDE DEF height
  <2>2. d.block_height = height
    BY <2>1, AdvanceRoundFields
  <2>3. d.cumulative_mined = c.cumulative_mined + paid
    BY <2>1, <1>3, AdvanceRoundFields
  <2>4. d.current_epoch_reward = IF is_halving_boundary(height)
                                 THEN shift_right(r, 1) ELSE r
    BY <2>1, <1>3, AdvanceRoundFields
  <2>5. d.next_halving_block = IF is_halving_boundary(height)
                               THEN height + H ELSE c.next_halving_block
    BY <2>1, <1>3, AdvanceRoundFields
  <2> QED
    BY <2>2, <2>3, <2>4, <2>5
<1>5. r * ahead >= r * (ahead - 1) + paid
  BY <1>1, <1>2
<1>6. CASE is_halving_boundary(height)
  <2> DEFINE half == shift_right(r, 1)
  <2>1. half \in Nat /\ 2 * half <= r
    BY <1>1, RewardHalves
  <2> HIDE DEF half
  <2>2. half * H + half * H <= r * H
    <3>1. half * H + half * H = (2 * half) * H
      BY <1>1, <2>1
    <3>2. (2 * half) * H <= r * H
      BY <1>1, <2>1
    <3> QED
      BY <3>1, <3>2
  <2>3. c.cumulative_mined + paid + (half * H + half * H) <= budget
    <3>1. paid <= r * ahead
      BY <1>1, <1>2, <1>6
    <3> HIDE DEF r, H, ahead, budget
    <3>2. r * ahead \in Nat /\ r * H \in Nat /\ half * H \in Nat
      BY <1>1, <1>2, <2>1
    <3> QED
      BY <1>1, <1>2, <2>2, <3>1, <3>2
  <2>4. /\ d.current_epoch_reward = half
        /\ d.next_halving_block = height + H
        /\ d.next_halving_block - d.block_height = H
        /\ d.next_halving_block >= d.block_height
    BY <1>1, <1>4, <1>6 DEF half
  <2> QED
    BY <1>4, <2>3, <2>4 DEF StillMineable
<1>7. CASE ~is_halving_boundary(height)
  <2>1. /\ d.current_epoch_reward = r
        /\ d.next_halving_block = c.next_halving_block
        /\ d.next_halving_block - d.block_height = ahead - 1
        /\ d.next_halving_block >= d.block_height
    BY <1>1, <1>2, <1>4, <1>7
  <2>2. c.cumulative_mined + paid + (r * (ahead - 1) + r * H) <= budget
    <3>1. r * ahead \in Nat /\ r * H \in Nat /\ r * (ahead - 1) \in Nat
      BY <1>1, <1>2
    <3> HIDE DEF r, H, ahead, budget
    <3> QED
      BY <1>1, <1>2, <1>5, <3>1
  <2> QED
    BY <1>4, <2>1, <2>2 DEF StillMineable
<1> QED
  BY <1>6, <1>7

-----------------------------------------------------------------------------

\* The inductive invariant holds before `initialize`.
LEMMA SupplyInit == Init => SupplyInvariant
<1> SUFFICES ASSUME Init PROVE SupplyInvariant
  OBVIOUS
<1>1. TypeOK
  BY TypeInit
<1>2. ~cfg.mining_open /\ cfg.block_height = 0 /\ cfg.cumulative_mined = 0
      /\ cfg.empty_rounds = 0
  BY DEF Init, NoConfig
<1>3. initialized = FALSE
  BY DEF Init
<1> QED
  BY <1>1, <1>2, <1>3
     DEF SupplyInvariant, NothingBeforeLaunch, BoundariesAhead,
         VaultHoldsTheRest, EmptyRoundsPaced

\* `initialize` sets the whole schedule ahead of the first height.
LEMMA SupplyInitialize ==
    ASSUME SupplyInvariant, TypeOK', NEW t \in AdminTargets, Initialize(t)
    PROVE  SupplyInvariant'
<1> DEFINE H == HALVING_INTERVAL_BLOCKS
           R == RETARGET_INTERVAL_BLOCKS
           I == INITIAL_BLOCK_REWARD_BASE
<1>1. /\ cfg'.mining_open = FALSE /\ cfg'.block_height = 0
      /\ cfg'.cumulative_mined = 0 /\ cfg'.empty_rounds = 0
      /\ cfg'.current_epoch_reward = I
      /\ cfg'.next_halving_block = H
      /\ cfg'.next_retarget_block = R
  BY DEF Initialize, NoConfig
<1>2. H \in Nat \ {0} /\ R \in Nat \ {0} /\ I \in Nat
  BY ScheduleAssumption
<1>3. NextMultiple(0, H) = H /\ NextMultiple(0, R) = R
  <2>1. 0 = H * 0 + 0 /\ 0 = R * 0 + 0 /\ 0 \in 0..(H - 1) /\ 0 \in 0..(R - 1)
    BY <1>2
  <2>2. 0 \div H = 0 /\ 0 \div R = 0
    BY <2>1, <1>2, DivUnique
  <2> QED
    BY <1>2, <2>2 DEF NextMultiple
<1>4. StillMineable(cfg)'
  <2>1. 0 + (I * (H - 0) + I * H) = 2 * (H * I)
    BY <1>2
  <2> QED
    BY <1>1, <1>2, <2>1 DEF StillMineable
<1> QED
  BY <1>1, <1>3, <1>4
     DEF SupplyInvariant, NothingBeforeLaunch, BoundariesAhead,
         VaultHoldsTheRest, EmptyRoundsPaced

\* `fund_vault` deposits the supply and opens the first round now.
LEMMA SupplyFundVault ==
    ASSUME SupplyInvariant, TypeOK', NEW s \in Wallets, FundVault(s)
    PROVE  SupplyInvariant'
<1>1. /\ cfg'.mining_open = TRUE
      /\ cfg'.block_height = cfg.block_height
      /\ cfg'.cumulative_mined = cfg.cumulative_mined
      /\ cfg'.empty_rounds = cfg.empty_rounds
      /\ cfg'.current_epoch_reward = cfg.current_epoch_reward
      /\ cfg'.next_halving_block = cfg.next_halving_block
      /\ cfg'.next_retarget_block = cfg.next_retarget_block
      /\ cfg'.current_round_open_slot = slot
  BY DEF FundVault, SupplyInvariant, TypeOK, EquiumConfig
<1>2. /\ initialized /\ initialized' = initialized /\ ~cfg.mining_open
      /\ vault' = vault + MINEABLE_BASE /\ slot' = slot /\ opened_slot' = slot
  BY DEF FundVault, clock
<1>3. cfg.cumulative_mined = 0 /\ cfg.empty_rounds = 0
  BY <1>2 DEF SupplyInvariant, NothingBeforeLaunch
<1>4. vault \in Nat /\ slot \in Nat /\ MINEABLE_BASE \in Nat
      /\ ROUND_TIMEOUT_SLOTS \in Nat
  BY ProgramAssumption DEF SupplyInvariant, TypeOK
<1>5. NothingBeforeLaunch' /\ BoundariesAhead'
  BY <1>1, <1>2 DEF SupplyInvariant, NothingBeforeLaunch, BoundariesAhead
<1>6. StillMineable(cfg)'
  BY <1>1, <1>2 DEF SupplyInvariant, StillMineable
<1>7. VaultHoldsTheRest' /\ EmptyRoundsPaced'
  BY <1>1, <1>2, <1>3, <1>4 DEF VaultHoldsTheRest, EmptyRoundsPaced
<1> QED
  BY <1>5, <1>6, <1>7 DEF SupplyInvariant

\* A mined round pays what StillMineable gives up.
LEMMA SupplyMine ==
    ASSUME SupplyInvariant, TypeOK', NEW m \in Miners, NEW s, Mine(m, s)
    PROVE  SupplyInvariant'
<1> DEFINE r == cfg.current_epoch_reward
           credited == [cfg EXCEPT !.cumulative_mined = @ + r]
<1>1. cfg \in EquiumConfig /\ r \in Nat /\ cfg.cumulative_mined \in Nat
      /\ vault \in Nat
  BY DEF SupplyInvariant, TypeOK, EquiumConfig
<1>2. /\ initialized /\ cfg.mining_open /\ initialized' = initialized
      /\ r <= vault /\ vault' = vault - r
      /\ slot' = slot /\ opened_slot' = opened_slot
      /\ cfg' = advance_round(credited, m)
  BY DEF Mine, mine_ok, clock
<1>3. /\ credited \in EquiumConfig
      /\ credited.mining_open = cfg.mining_open
      /\ credited.block_height = cfg.block_height
      /\ credited.next_halving_block = cfg.next_halving_block
      /\ credited.next_retarget_block = cfg.next_retarget_block
      /\ credited.empty_rounds = cfg.empty_rounds
      /\ credited.cumulative_mined = cfg.cumulative_mined + r
  BY <1>1 DEF EquiumConfig
<1>4. m \in Wallets \cup {DefaultKey} /\ m # DefaultKey
  BY ProgramAssumption DEF Wallets
<1>5. StillMineable(cfg)'
  <2>1. StillMineable(cfg)
        /\ cfg.next_halving_block =
               NextMultiple(cfg.block_height, HALVING_INTERVAL_BLOCKS)
    BY <1>2 DEF SupplyInvariant, BoundariesAhead
  <2>2. credited.current_epoch_reward = r /\ r <= r
    BY <1>1 DEF EquiumConfig
  <2> HIDE DEF credited
  <2>3. StillMineable(cfg')
    BY <1>1, <1>2, <1>3, <1>4, <2>1, <2>2, AdvanceRoundSupply
  <2> QED
    BY <2>3 DEF StillMineable
<1>6. /\ cfg'.mining_open = TRUE
      /\ cfg'.cumulative_mined = cfg.cumulative_mined + r
      /\ cfg'.current_round_open_slot = slot
      /\ cfg'.empty_rounds = cfg.empty_rounds
  <2> DEFINE d == cfg'
             height == credited.block_height + 1
  <2> HIDE DEF credited, d, height
  <2>1. d = advance_round(credited, m) /\ height = credited.block_height + 1
    BY <1>2 DEF d, height
  <2>2. /\ d.mining_open = credited.mining_open
        /\ d.cumulative_mined = credited.cumulative_mined
        /\ d.current_round_open_slot = slot
        /\ d.empty_rounds = IF m = DefaultKey THEN credited.empty_rounds + 1
                            ELSE credited.empty_rounds
    BY <1>3, <1>4, <2>1, AdvanceRoundFields
  <2> QED
    BY <1>2, <1>3, <1>4, <2>2 DEF d
<1>7. BoundariesAhead'
  <2>1. credited.next_halving_block =
            NextMultiple(credited.block_height, HALVING_INTERVAL_BLOCKS)
        /\ credited.next_retarget_block =
            NextMultiple(credited.block_height, RETARGET_INTERVAL_BLOCKS)
    BY <1>2, <1>3 DEF SupplyInvariant, BoundariesAhead
  <2> HIDE DEF credited
  <2> QED
    BY <1>2, <1>3, <1>4, <2>1, AdvanceRoundBoundaries DEF BoundariesAhead
<1>8. VaultHoldsTheRest'
  <2> HIDE DEF r
  <2> QED
    BY <1>1, <1>2, <1>6, ProgramAssumption
       DEF SupplyInvariant, VaultHoldsTheRest
<1>9. EmptyRoundsPaced'
  <2>1. /\ opened_slot + cfg.empty_rounds * ROUND_TIMEOUT_SLOTS
               <= cfg.current_round_open_slot
        /\ cfg.current_round_open_slot <= slot
    BY <1>2 DEF SupplyInvariant, EmptyRoundsPaced
  <2>2. /\ opened_slot \in Nat /\ slot \in Nat /\ cfg.empty_rounds \in Nat
        /\ cfg.current_round_open_slot \in Nat
        /\ cfg.empty_rounds * ROUND_TIMEOUT_SLOTS \in Nat
    BY ProgramAssumption DEF SupplyInvariant, TypeOK, EquiumConfig
  <2> QED
    BY <1>2, <1>6, <2>1, <2>2 DEF EmptyRoundsPaced
<1>10. NothingBeforeLaunch'
  BY <1>2, <1>6 DEF NothingBeforeLaunch
<1> QED
  BY <1>5, <1>7, <1>8, <1>9, <1>10 DEF SupplyInvariant

\* A skipped round gives up its reward and takes at least the timeout.
LEMMA SupplyAdvanceEmptyRound ==
    ASSUME SupplyInvariant, TypeOK', AdvanceEmptyRound
    PROVE  SupplyInvariant'
<1>1. cfg \in EquiumConfig /\ cfg.cumulative_mined \in Nat
      /\ cfg.current_epoch_reward \in Nat /\ slot \in Nat
  BY DEF SupplyInvariant, TypeOK, EquiumConfig
<1>2. /\ initialized /\ cfg.mining_open /\ initialized' = initialized
      /\ vault' = vault /\ slot' = slot /\ opened_slot' = opened_slot
      /\ slot - cfg.current_round_open_slot >= ROUND_TIMEOUT_SLOTS
      /\ cfg' = advance_round(cfg, DefaultKey)
  BY DEF AdvanceEmptyRound, advance_empty_round_ok, tokens, clock
<1>3. cfg.next_halving_block =
          NextMultiple(cfg.block_height, HALVING_INTERVAL_BLOCKS)
      /\ cfg.next_retarget_block =
          NextMultiple(cfg.block_height, RETARGET_INTERVAL_BLOCKS)
  BY <1>2 DEF SupplyInvariant, BoundariesAhead
<1>4. /\ cfg'.mining_open = TRUE
      /\ cfg'.cumulative_mined = cfg.cumulative_mined
      /\ cfg'.current_round_open_slot = slot
      /\ cfg'.empty_rounds = cfg.empty_rounds + 1
  BY <1>1, <1>2, AdvanceRoundFields
<1>5. StillMineable(cfg)'
  <2>1. StillMineable(cfg)
    BY <1>2 DEF SupplyInvariant
  <2>2. cfg.cumulative_mined = cfg.cumulative_mined + 0
        /\ 0 <= cfg.current_epoch_reward
    BY <1>1
  <2>3. StillMineable(cfg')
    BY <1>1, <1>2, <1>3, <2>1, <2>2, AdvanceRoundSupply
  <2> QED
    BY <2>3 DEF StillMineable
<1>6. BoundariesAhead'
  BY <1>1, <1>2, <1>3, AdvanceRoundBoundaries DEF BoundariesAhead
<1>7. EmptyRoundsPaced'
  <2> DEFINE T == ROUND_TIMEOUT_SLOTS
             e == cfg.empty_rounds
  <2>1. opened_slot + e * T <= cfg.current_round_open_slot
    BY <1>2 DEF SupplyInvariant, EmptyRoundsPaced
  <2>2. /\ opened_slot \in Nat /\ e \in Nat /\ T \in Nat
        /\ cfg.current_round_open_slot \in Nat
    BY ProgramAssumption DEF SupplyInvariant, TypeOK, EquiumConfig
  <2>3. (e + 1) * T = e * T + T /\ e * T \in Nat
    BY <2>2
  <2>4. opened_slot + (e + 1) * T <= slot
    <3> HIDE DEF e, T
    <3>1. slot - cfg.current_round_open_slot >= T
      BY <1>2 DEF T
    <3> QED
      BY <1>1, <2>1, <2>2, <2>3, <3>1
  <2> QED
    BY <1>1, <1>2, <1>4, <2>4 DEF EmptyRoundsPaced
<1>8. VaultHoldsTheRest' /\ NothingBeforeLaunch'
  BY <1>2, <1>4
     DEF SupplyInvariant, VaultHoldsTheRest, NothingBeforeLaunch
<1> QED
  BY <1>5, <1>6, <1>7, <1>8 DEF SupplyInvariant

\* The fields of the config the invariant reads.
SameSchedule ==
    /\ cfg'.mining_open = cfg.mining_open
    /\ cfg'.block_height = cfg.block_height
    /\ cfg'.cumulative_mined = cfg.cumulative_mined
    /\ cfg'.empty_rounds = cfg.empty_rounds
    /\ cfg'.current_epoch_reward = cfg.current_epoch_reward
    /\ cfg'.next_halving_block = cfg.next_halving_block
    /\ cfg'.next_retarget_block = cfg.next_retarget_block
    /\ cfg'.current_round_open_slot = cfg.current_round_open_slot

\* A step that leaves the schedule alone, takes nothing from the vault and
\* does not turn the clock back cannot disturb the invariant.
LEMMA SupplyOtherStep ==
    ASSUME SupplyInvariant, TypeOK', SameSchedule,
           initialized' = initialized, opened_slot' = opened_slot,
           vault' >= vault, slot' >= slot
    PROVE  SupplyInvariant'
<1>1. NothingBeforeLaunch' /\ BoundariesAhead'
  BY DEF SupplyInvariant, SameSchedule, NothingBeforeLaunch, BoundariesAhead
<1>2. (initialized => StillMineable(cfg))'
  BY DEF SupplyInvariant, SameSchedule, StillMineable
<1>3. VaultHoldsTheRest'
  <2>1. vault \in Nat /\ vault' \in Nat /\ cfg.cumulative_mined \in Nat
    BY DEF SupplyInvariant, TypeOK, EquiumConfig
  <2> QED
    BY <2>1, ProgramAssumption
       DEF SupplyInvariant, SameSchedule, VaultHoldsTheRest
<1>4. EmptyRoundsPaced'
  <2>1. slot \in Nat /\ slot' \in Nat /\ cfg.current_round_open_slot \in Nat
    BY DEF SupplyInvariant, TypeOK, EquiumConfig
  <2> QED
    BY <2>1 DEF SupplyInvariant, SameSchedule, EmptyRoundsPaced
<1> QED
  BY <1>1, <1>2, <1>3, <1>4 DEF SupplyInvariant

\* Every step preserves the inductive invariant.
LEMMA SupplyNext == SupplyInvariant /\ [Next]_vars => SupplyInvariant'
<1> SUFFICES ASSUME SupplyInvariant, [Next]_vars PROVE SupplyInvariant'
  OBVIOUS
<1>1. TypeOK /\ TypeOK'
  BY TypeNext DEF SupplyInvariant
<1>2. vault \in Nat /\ slot \in Nat /\ source \in Nat /\ cfg \in EquiumConfig
  BY <1>1 DEF TypeOK
<1>3. ASSUME NEW t \in AdminTargets, Initialize(t) PROVE SupplyInvariant'
  BY <1>1, <1>3, SupplyInitialize
<1>4. ASSUME NEW s \in Wallets, FundVault(s) PROVE SupplyInvariant'
  BY <1>1, <1>4, SupplyFundVault
<1>5. ASSUME NEW m \in Miners, NEW s \in Submissions, Mine(m, s)
      PROVE  SupplyInvariant'
  BY <1>1, <1>5, SupplyMine
<1>6. ASSUME AdvanceEmptyRound PROVE SupplyInvariant'
  BY <1>1, <1>6, SupplyAdvanceEmptyRound
<1>7. ASSUME NEW s \in Wallets, NEW t \in AdminTargets, SetTarget(s, t)
      PROVE  SupplyInvariant'
  <2>1. SameSchedule
    BY <1>2, <1>7 DEF SetTarget, SameSchedule, EquiumConfig
  <2> QED
    BY <1>1, <1>2, <1>7, <2>1, SupplyOtherStep DEF SetTarget, tokens, clock
<1>8. ASSUME NEW s \in Wallets, RenounceAdmin(s) PROVE SupplyInvariant'
  <2>1. SameSchedule
    BY <1>2, <1>8 DEF RenounceAdmin, SameSchedule, EquiumConfig
  <2> QED
    BY <1>1, <1>2, <1>8, <2>1, SupplyOtherStep DEF RenounceAdmin, tokens, clock
<1>9. ASSUME NEW slots \in SlotSteps, NEW seconds \in TimeSteps,
             NEW hash \in Entropies, Tick(slots, seconds, hash)
      PROVE  SupplyInvariant'
  <2>1. SameSchedule /\ slot' >= slot
    BY <1>2, <1>9, ProgramAssumption DEF Tick, SameSchedule
  <2> QED
    BY <1>1, <1>2, <1>9, <2>1, SupplyOtherStep DEF Tick, tokens
<1>10. ASSUME NEW a \in DonationAmounts, Donate(a) PROVE SupplyInvariant'
  <2>1. SameSchedule /\ vault' >= vault
    BY <1>2, <1>10, ProgramAssumption DEF Donate, SameSchedule
  <2> QED
    BY <1>1, <1>2, <1>10, <2>1, SupplyOtherStep DEF Donate, clock
<1>11. CASE UNCHANGED vars
  <2>1. SameSchedule
    BY <1>11 DEF vars, SameSchedule
  <2> QED
    BY <1>1, <1>2, <1>11, <2>1, SupplyOtherStep DEF vars, tokens, clock
<1> QED
  BY <1>3, <1>4, <1>5, <1>6, <1>7, <1>8, <1>9, <1>10, <1>11 DEF Next

\* SupplyInvariant holds in every reachable state of the program, for every
\* schedule whose two first epochs fit in the mineable supply.
THEOREM SupplyInvariantHolds == Spec => []SupplyInvariant
  BY SupplyInit, SupplyNext, PTL DEF Spec

\* The invariant leaves room for one more reward, in the cap and the vault.
LEMMA InvariantCovers == SupplyInvariant => SupplyCovered
<1> SUFFICES ASSUME SupplyInvariant, cfg.mining_open
             PROVE  /\ cfg.cumulative_mined + cfg.current_epoch_reward
                           <= MINEABLE_BASE
                    /\ cfg.current_epoch_reward <= vault
  BY DEF SupplyCovered
<1> DEFINE r == cfg.current_epoch_reward
           c == cfg.cumulative_mined
           H == HALVING_INTERVAL_BLOCKS
           ahead == cfg.next_halving_block - cfg.block_height
<1>1. /\ r \in Nat /\ c \in Nat /\ vault \in Nat /\ ahead \in Nat
      /\ H \in Nat \ {0} /\ MINEABLE_BASE \in Nat
  <2>1. initialized /\ StillMineable(cfg)
    BY DEF SupplyInvariant, NothingBeforeLaunch
  <2> QED
    BY <2>1, ScheduleAssumption, ProgramAssumption
       DEF SupplyInvariant, TypeOK, EquiumConfig, StillMineable
<1>2. c + (r * ahead + r * H) <= MINEABLE_BASE
  <2>1. c + (r * ahead + r * H) <= 2 * (H * INITIAL_BLOCK_REWARD_BASE)
    BY DEF SupplyInvariant, NothingBeforeLaunch, StillMineable
  <2>2. 2 * (H * INITIAL_BLOCK_REWARD_BASE) \in Nat
        /\ r * ahead \in Nat /\ r * H \in Nat
    BY <1>1, ScheduleAssumption
  <2> HIDE DEF r, c, ahead
  <2> QED
    BY <1>1, <2>1, <2>2, SupplyAssumption
<1>3. vault + c >= MINEABLE_BASE
  BY DEF SupplyInvariant, VaultHoldsTheRest
<1>4. r <= r * H /\ r * ahead >= 0
  BY <1>1
<1>5. r * H \in Nat /\ r * ahead \in Nat
  BY <1>1
<1> HIDE DEF r, c, ahead, H
<1>6. c + r <= MINEABLE_BASE /\ r <= vault
  BY <1>1, <1>2, <1>3, <1>4, <1>5
<1> QED
  BY <1>6 DEF r, c

\* `mine` never fails with SupplyExhausted nor for want of funds in the vault.
THEOREM SupplyAlwaysCovered == Spec => []SupplyCovered
  BY SupplyInvariantHolds, InvariantCovers, PTL

\* Skipped rounds are paced by the timeout, counted from the launch.
THEOREM SkippingIsPaced == Spec => []EmptyRoundsPaced
<1>1. SupplyInvariant => EmptyRoundsPaced
  BY DEF SupplyInvariant
<1> QED
  BY <1>1, SupplyInvariantHolds, PTL

-----------------------------------------------------------------------------
(* Renouncing.                                                             *)

\* Who has renounced is the default key, which signs nothing.
RenouncedInv ==
    cfg.admin_renounced => initialized /\ cfg.admin = DefaultKey

\* A round transition leaves the admin's fields and the launch alone.
LEMMA AdvanceKeepsAdmin ==
    ASSUME NEW c \in EquiumConfig, NEW winner \in Wallets \cup {DefaultKey},
           NEW d, d = advance_round(c, winner)
    PROVE  /\ d.admin = c.admin /\ d.admin_renounced = c.admin_renounced
           /\ d.mining_open = c.mining_open
           /\ d.block_height = c.block_height + 1
BY DEF advance_round, next_round, retargeted, halved, EquiumConfig

\* A step that closes a round is one of the two that call advance_round.
LEMMA MineAdvances ==
    ASSUME TypeOK, NEW m \in Miners, NEW s, Mine(m, s)
    PROVE  \E c \in EquiumConfig :
               /\ cfg' = advance_round(c, m)
               /\ c = [cfg EXCEPT !.cumulative_mined =
                           cfg.cumulative_mined + cfg.current_epoch_reward]
<1>1. cfg \in EquiumConfig /\ cfg.cumulative_mined \in Nat
      /\ cfg.current_epoch_reward \in Nat
  BY DEF TypeOK, EquiumConfig
<1>2. [cfg EXCEPT !.cumulative_mined =
           cfg.cumulative_mined + cfg.current_epoch_reward] \in EquiumConfig
  BY <1>1 DEF EquiumConfig
<1> QED
  BY <1>1, <1>2 DEF Mine, EquiumConfig

\* Every step keeps the renounced config free of an admin and is one that
\* RenounceIsFinal allows.
LEMMA RenouncedInductive ==
    TypeOK /\ RenouncedInv /\ [Next]_vars => RenouncedInv' /\ [RenouncedStep]_vars
<1> SUFFICES ASSUME TypeOK, RenouncedInv, [Next]_vars
             PROVE  RenouncedInv' /\ [RenouncedStep]_vars
  OBVIOUS
<1> DEFINE Goal == RenouncedInv' /\ RenouncedStep
<1>0. cfg \in EquiumConfig
  BY DEF TypeOK
<1>1. ASSUME NEW t \in AdminTargets, Initialize(t) PROVE Goal
  BY <1>1 DEF Initialize, NoConfig, RenouncedInv, RenouncedStep
<1>2. ASSUME NEW w \in Wallets, FundVault(w) PROVE Goal
  BY <1>0, <1>2, ProgramAssumption
     DEF FundVault, RenouncedInv, RenouncedStep, EquiumConfig
<1>3. ASSUME NEW m \in Miners, NEW s, Mine(m, s) PROVE Goal
  <2>1. m \in Wallets \cup {DefaultKey} /\ initialized' = initialized
    BY <1>3 DEF Wallets, Mine
  <2>2. PICK c \in EquiumConfig :
            /\ cfg' = advance_round(c, m)
            /\ c = [cfg EXCEPT !.cumulative_mined =
                        cfg.cumulative_mined + cfg.current_epoch_reward]
    BY <1>3, MineAdvances
  <2>3. /\ c.admin = cfg.admin /\ c.admin_renounced = cfg.admin_renounced
        /\ c.mining_open = cfg.mining_open
        /\ c.block_height = cfg.block_height /\ cfg.block_height \in Nat
    BY <1>0, <2>2 DEF EquiumConfig
  <2> DEFINE d == advance_round(c, m)
  <2>4. /\ d.admin = c.admin /\ d.admin_renounced = c.admin_renounced
        /\ d.mining_open = c.mining_open
        /\ d.block_height = c.block_height + 1
    BY <2>1, AdvanceKeepsAdmin
  <2>5. cfg' = d
    BY <2>2
  <2> HIDE DEF d
  <2> QED
    BY <2>1, <2>3, <2>4, <2>5 DEF RenouncedInv, RenouncedStep
<1>4. ASSUME AdvanceEmptyRound PROVE Goal
  <2>1. /\ cfg'.admin = cfg.admin
        /\ cfg'.admin_renounced = cfg.admin_renounced
        /\ cfg'.mining_open = cfg.mining_open
        /\ cfg'.block_height = cfg.block_height + 1
        /\ initialized' = initialized
    BY <1>0, <1>4, AdvanceKeepsAdmin DEF AdvanceEmptyRound
  <2>2. cfg.block_height \in Nat
    BY <1>0 DEF EquiumConfig
  <2> QED
    BY <2>1, <2>2 DEF RenouncedInv, RenouncedStep
<1>5. ASSUME NEW w \in Wallets, NEW t \in AdminTargets, SetTarget(w, t)
      PROVE  Goal
  BY <1>0, <1>5 DEF SetTarget, RenouncedInv, RenouncedStep, EquiumConfig
<1>6. ASSUME NEW w \in Wallets, RenounceAdmin(w) PROVE Goal
  BY <1>0, <1>6 DEF RenounceAdmin, RenouncedInv, RenouncedStep, EquiumConfig
<1>7. ASSUME NEW a, NEW b, NEW h, Tick(a, b, h) PROVE Goal
  BY <1>7 DEF Tick, RenouncedInv, RenouncedStep
<1>8. ASSUME NEW a, Donate(a) PROVE Goal
  BY <1>8 DEF Donate, RenouncedInv, RenouncedStep
<1>9. CASE UNCHANGED vars
  BY <1>9 DEF vars, RenouncedInv
<1> QED
  BY <1>1, <1>2, <1>3, <1>4, <1>5, <1>6, <1>7, <1>8, <1>9 DEF Next

\* After renouncing nobody is admin any more, for ever: a program that was not
\* funded stays closed and the target moves with the rounds only.
THEOREM RenouncingIsFinal == Spec => RenounceIsFinal
<1>1. Init => RenouncedInv
  BY DEF Init, NoConfig, RenouncedInv
<1> QED
  BY <1>1, RenouncedInductive, TypeCorrect, PTL DEF Spec, RenounceIsFinal

-----------------------------------------------------------------------------
(* Retargets.                                                              *)

\* What a round transition does to the fields a difficulty window is about.
LEMMA AdvanceRoundWindow ==
    ASSUME NEW c \in EquiumConfig, NEW winner \in Wallets \cup {DefaultKey},
           NEW d, d = advance_round(c, winner)
    PROVE  /\ d.block_height = c.block_height + 1
           /\ d.current_round_open_unix_ts = unix_ts
           /\ d.current_target =
                  IF is_retarget_boundary(c.block_height + 1)
                  THEN next_target(c.current_target,
                                   SecondsSince(c.last_retarget_unix_ts))
                  ELSE c.current_target
           /\ d.last_retarget_unix_ts =
                  IF is_retarget_boundary(c.block_height + 1)
                  THEN unix_ts ELSE c.last_retarget_unix_ts
BY DEF advance_round, next_round, retargeted, halved, EquiumConfig

\* Every height above zero that divides into whole windows is a boundary.
LEMMA BoundaryOfWindow ==
    ASSUME NEW h \in Nat \ {0}
    PROVE  is_retarget_boundary(h) <=> h % RETARGET_INTERVAL_BLOCKS = 0
BY DEF is_retarget_boundary

\* A window begins with its first round, through every instruction.
LEMMA WindowInductive ==
    TypeOK /\ WindowAnchored /\ [Next]_vars => WindowAnchored'
<1> SUFFICES ASSUME TypeOK, WindowAnchored, [Next]_vars
             PROVE  WindowAnchored'
  OBVIOUS
<1>0. cfg \in EquiumConfig /\ cfg.block_height \in Nat
  BY DEF TypeOK, EquiumConfig
<1>1. ASSUME NEW c \in EquiumConfig, NEW winner \in Wallets \cup {DefaultKey},
             cfg' = advance_round(c, winner), c.block_height = cfg.block_height
      PROVE  WindowAnchored'
  <2> DEFINE d == advance_round(c, winner)
  <2>1. /\ d.block_height = c.block_height + 1
        /\ d.current_round_open_unix_ts = unix_ts
        /\ is_retarget_boundary(c.block_height + 1) =>
               d.last_retarget_unix_ts = unix_ts
    BY AdvanceRoundWindow
  <2>2. cfg' = d
    BY <1>1
  <2> HIDE DEF d
  <2>3. d.block_height \in Nat \ {0} /\ d.block_height = cfg.block_height + 1
    BY <1>0, <1>1, <2>1
  <2>4. is_retarget_boundary(d.block_height) <=>
            d.block_height % RETARGET_INTERVAL_BLOCKS = 0
    BY <2>3, BoundaryOfWindow
  <2> QED
    BY <1>1, <2>1, <2>2, <2>3, <2>4 DEF WindowAnchored
<1>2. ASSUME NEW t \in AdminTargets, Initialize(t) PROVE WindowAnchored'
  BY <1>2 DEF Initialize, NoConfig, WindowAnchored
<1>3. ASSUME NEW w \in Wallets, FundVault(w) PROVE WindowAnchored'
  BY <1>0, <1>3 DEF FundVault, WindowAnchored, EquiumConfig
<1>4. ASSUME NEW m \in Miners, NEW s, Mine(m, s) PROVE WindowAnchored'
  <2>1. PICK c \in EquiumConfig :
            /\ cfg' = advance_round(c, m)
            /\ c = [cfg EXCEPT !.cumulative_mined =
                        cfg.cumulative_mined + cfg.current_epoch_reward]
    BY <1>4, MineAdvances
  <2>2. c.block_height = cfg.block_height /\ m \in Wallets \cup {DefaultKey}
    BY <1>0, <2>1 DEF EquiumConfig, Wallets
  <2> QED
    BY <1>1, <2>1, <2>2
<1>5. ASSUME AdvanceEmptyRound PROVE WindowAnchored'
  BY <1>0, <1>1, <1>5 DEF AdvanceEmptyRound
<1>6. ASSUME NEW w \in Wallets, NEW t \in AdminTargets, SetTarget(w, t)
      PROVE  WindowAnchored'
  BY <1>0, <1>6 DEF SetTarget, WindowAnchored, EquiumConfig
<1>7. ASSUME NEW w \in Wallets, RenounceAdmin(w) PROVE WindowAnchored'
  BY <1>0, <1>7 DEF RenounceAdmin, WindowAnchored, EquiumConfig
<1>8. ASSUME NEW a, NEW b, NEW h, Tick(a, b, h) PROVE WindowAnchored'
  BY <1>8 DEF Tick, WindowAnchored
<1>9. ASSUME NEW a, Donate(a) PROVE WindowAnchored'
  BY <1>9 DEF Donate, WindowAnchored
<1>10. CASE UNCHANGED vars
  BY <1>10 DEF vars, WindowAnchored
<1> QED
  BY <1>2, <1>3, <1>4, <1>5, <1>6, <1>7, <1>8, <1>9, <1>10 DEF Next

\* A difficulty window is always measured from the opening of its first round,
\* for any interval and whatever time passes between initialize and fund_vault.
THEOREM WindowAlwaysAnchored == Spec => []WindowAnchored
<1>1. Init => WindowAnchored
  BY DEF Init, NoConfig, WindowAnchored
<1> QED
  BY <1>1, WindowInductive, TypeCorrect, PTL DEF Spec

\* Scaling a target by a window's length keeps its direction, and its size as
\* long as the window is within the clamp.
LEMMA ScaledWithin ==
    ASSUME NEW old \in Nat, NEW s \in Nat, NEW t \in Nat \ {0},
           NEW q \in Nat, q = (old * s) \div t
    PROVE  /\ s >= t => q >= old
           /\ s <= t => q <= old
           /\ s <= 2 * t => q <= 2 * old
           /\ t <= 2 * s => old \div 2 <= q
<1> DEFINE p == old * s
<1>0. p \in Nat /\ q = p \div t
  OBVIOUS
<1>1. q \in Nat
  OBVIOUS
<1>2. ASSUME s >= t PROVE q >= old
  <2>1. t * old <= old * s
    BY <1>2
  <2> QED
    BY <1>0, <2>1, DivAtLeast
<1>3. ASSUME s <= t PROVE q <= old
  <2>1. old * s <= t * old /\ t * (old + 1) = t * old + t /\ t * old \in Nat
    BY <1>3
  <2>2. p < t * (old + 1)
    BY <1>0, <2>1
  <2>3. q < old + 1
    BY <1>0, <2>2, DivBelow
  <2> QED
    BY <1>1, <2>3
<1>4. ASSUME s <= 2 * t PROVE q <= 2 * old
  <2>1. old * s <= old * (2 * t)
    BY <1>4
  <2>2. old * (2 * t) = t * (2 * old) /\ t * (2 * old + 1) = t * (2 * old) + t
        /\ t * (2 * old) \in Nat
    OBVIOUS
  <2>3. p < t * (2 * old + 1)
    BY <1>0, <2>1, <2>2
  <2>4. q < 2 * old + 1
    BY <1>0, <2>3, DivBelow
  <2> QED
    BY <1>1, <2>4
<1>5. ASSUME t <= 2 * s PROVE old \div 2 <= q
  <2> DEFINE h == old \div 2
  <2>1. h \in Nat /\ 2 * h <= old
    OBVIOUS
  <2> HIDE DEF h
  <2>2. h * t <= h * (2 * s)
    BY <1>5, <2>1
  <2>3. h * (2 * s) = (2 * h) * s /\ (2 * h) * s <= old * s
    BY <2>1
  <2>4. t * h = h * t /\ h * t \in Nat /\ h * (2 * s) \in Nat
    BY <2>1
  <2>5. t * h <= p
    BY <2>2, <2>3, <2>4
  <2>6. h <= q
    BY <1>0, <2>1, <2>5, DivAtLeast
  <2> QED
    BY <2>6 DEF h
<1> QED
  BY <1>1, <1>2, <1>3, <1>4, <1>5

\* next_target within its clamp: a factor of two, in the window's direction.
LEMMA NextTargetDamped ==
    ASSUME NEW old \in Targets, NEW s \in Nat, NEW new,
           new = next_target(old, s)
    PROVE  /\ old \div 2 <= new /\ new <= 2 * old
           /\ s >= RETARGET_TARGET_SECONDS => new >= old
           /\ s <= RETARGET_TARGET_SECONDS => new <= old
<1> DEFINE T == RETARGET_TARGET_SECONDS
           U == U64_MAX
           M == MAX_TARGET
<1>0. /\ old \in Nat /\ old <= M /\ M \in Nat
      /\ T \in Nat \ {0} /\ U \in Nat /\ 2 * T < U
  BY ScheduleAssumption DEF Targets
<1>1. RatioBelowMin(s) <=> 2 * s < T
  <2>1. saturating_mul(T, 1) = T
    BY <1>0 DEF saturating_mul
  <2>2. saturating_mul(s, 2) = IF 2 * s > U THEN U ELSE 2 * s
    BY <1>0 DEF saturating_mul
  <2> QED
    BY <1>0, <2>1, <2>2 DEF RatioBelowMin, RETARGET_MIN_NUM, RETARGET_MIN_DEN
<1>2. RatioAboveMax(s) <=> s > 2 * T
  <2>1. saturating_mul(s, 1) = IF s > U THEN U ELSE s
    BY <1>0 DEF saturating_mul
  <2>2. saturating_mul(T, 2) = 2 * T
    BY <1>0 DEF saturating_mul
  <2> QED
    BY <1>0, <2>1, <2>2 DEF RatioAboveMax, RETARGET_MAX_NUM, RETARGET_MAX_DEN
<1>3. CASE s = 0 \/ 2 * s < T
  <2>1. new = scale_target(old, 1, 2)
    BY <1>1, <1>3 DEF next_target, RETARGET_MIN_NUM, RETARGET_MIN_DEN
  <2>2. new = old \div 2
    BY <1>0, <2>1 DEF scale_target
  <2> QED
    BY <1>0, <1>3, <2>2
<1>4. CASE s # 0 /\ ~(2 * s < T) /\ s > 2 * T
  <2>1. new = scale_target(old, 2, 1)
    BY <1>1, <1>2, <1>4 DEF next_target, RETARGET_MAX_NUM, RETARGET_MAX_DEN
  <2>2. (old * 2) \div 1 = 2 * old
    BY <1>0
  <2>3. new = IF 2 * old > M THEN M ELSE 2 * old
    BY <2>1, <2>2 DEF scale_target
  <2>4. old \div 2 <= old
    BY <1>0
  <2> QED
    BY <1>0, <1>4, <2>3, <2>4
<1>5. CASE s # 0 /\ ~(2 * s < T) /\ ~(s > 2 * T)
  <2>1. new = scale_target(old, s, T)
    BY <1>1, <1>2, <1>5 DEF next_target
  <2> DEFINE q == (old * s) \div T
  <2>2. new = IF q > M THEN M ELSE q
    BY <2>1 DEF scale_target
  <2>3. q = (old * s) \div T
    OBVIOUS
  <2> HIDE DEF q, T
  <2>4. /\ q \in Nat
        /\ s >= T => q >= old
        /\ s <= T => q <= old
        /\ s <= 2 * T => q <= 2 * old
        /\ T <= 2 * s => old \div 2 <= q
    <3>1. old * s \in Nat /\ T \in Nat \ {0}
      BY <1>0
    <3>2. q \in Nat
      BY <2>3, <3>1, DivMod
    <3> QED
      BY <1>0, <2>3, <3>1, <3>2, ScaledWithin
  <2>5. new <= M /\ new <= q /\ new \in Nat /\ (new = q \/ new = M)
    BY <1>0, <2>2, <2>4
  <2>6. old \div 2 <= old
    BY <1>0
  <2> QED
    BY <1>0, <1>5, <2>4, <2>5, <2>6 DEF T
<1> QED
  BY <1>3, <1>4, <1>5

\* A round transition that retargets does so within the clamp, also when the
\* clock ran backwards during the window.
LEMMA AdvanceDamped ==
    ASSUME TypeOK, NEW c \in EquiumConfig,
           NEW winner \in Wallets \cup {DefaultKey},
           cfg' = advance_round(c, winner),
           c.block_height = cfg.block_height,
           c.current_target = cfg.current_target,
           c.last_retarget_unix_ts = cfg.last_retarget_unix_ts
    PROVE  RetargetStep
<1> DEFINE d == advance_round(c, winner)
           old == cfg.current_target
           last == cfg.last_retarget_unix_ts
           s == SecondsSince(last)
<1>1. /\ d.block_height = c.block_height + 1
      /\ d.current_target =
             IF is_retarget_boundary(c.block_height + 1)
             THEN next_target(c.current_target,
                              SecondsSince(c.last_retarget_unix_ts))
             ELSE c.current_target
  BY AdvanceRoundWindow
<1>2. cfg' = d
  OBVIOUS
<1> HIDE DEF d
<1>3. /\ cfg'.block_height = cfg.block_height + 1
      /\ cfg'.current_target =
             IF is_retarget_boundary(cfg'.block_height)
             THEN next_target(old, s) ELSE old
  BY <1>1, <1>2
<1>4. /\ old \in Targets /\ last \in Int /\ unix_ts \in Int
      /\ RETARGET_TARGET_SECONDS \in Nat \ {0}
  BY ScheduleAssumption DEF TypeOK, EquiumConfig
<1>5. /\ s \in Nat
      /\ unix_ts - last >= RETARGET_TARGET_SECONDS =>
             s >= RETARGET_TARGET_SECONDS
      /\ unix_ts - last <= RETARGET_TARGET_SECONDS =>
             s <= RETARGET_TARGET_SECONDS
  BY <1>4 DEF SecondsSince
<1> HIDE DEF s
<1>6. /\ old \div 2 <= next_target(old, s) /\ next_target(old, s) <= 2 * old
      /\ s >= RETARGET_TARGET_SECONDS => next_target(old, s) >= old
      /\ s <= RETARGET_TARGET_SECONDS => next_target(old, s) <= old
  BY <1>4, <1>5, NextTargetDamped
<1> QED
  BY <1>3, <1>5, <1>6 DEF RetargetStep

\* Only a round transition closes a round.
LEMMA StepDamped == TypeOK /\ [Next]_vars => [RetargetStep]_vars
<1> SUFFICES ASSUME TypeOK, Next PROVE RetargetStep
  OBVIOUS
<1>0. cfg \in EquiumConfig
  BY DEF TypeOK
<1>1. ASSUME NEW t \in AdminTargets, Initialize(t) PROVE RetargetStep
  BY <1>1 DEF Initialize, RetargetStep
<1>2. ASSUME NEW w \in Wallets, FundVault(w) PROVE RetargetStep
  BY <1>0, <1>2 DEF FundVault, RetargetStep, EquiumConfig
<1>3. ASSUME NEW m \in Miners, NEW s, Mine(m, s) PROVE RetargetStep
  <2>1. PICK c \in EquiumConfig :
            /\ cfg' = advance_round(c, m)
            /\ c = [cfg EXCEPT !.cumulative_mined =
                        cfg.cumulative_mined + cfg.current_epoch_reward]
    BY <1>3, MineAdvances
  <2>2. /\ c.block_height = cfg.block_height
        /\ c.current_target = cfg.current_target
        /\ c.last_retarget_unix_ts = cfg.last_retarget_unix_ts
        /\ m \in Wallets \cup {DefaultKey}
    BY <1>0, <2>1 DEF EquiumConfig, Wallets
  <2> QED
    BY <2>1, <2>2, AdvanceDamped
<1>4. ASSUME AdvanceEmptyRound PROVE RetargetStep
  BY <1>0, <1>4, AdvanceDamped DEF AdvanceEmptyRound
<1>5. ASSUME NEW w \in Wallets, NEW t \in AdminTargets, SetTarget(w, t)
      PROVE  RetargetStep
  BY <1>0, <1>5 DEF SetTarget, RetargetStep, EquiumConfig
<1>6. ASSUME NEW w \in Wallets, RenounceAdmin(w) PROVE RetargetStep
  BY <1>0, <1>6 DEF RenounceAdmin, RetargetStep, EquiumConfig
<1>7. ASSUME NEW a, NEW b, NEW h, Tick(a, b, h) PROVE RetargetStep
  BY <1>7 DEF Tick, RetargetStep
<1>8. ASSUME NEW a, Donate(a) PROVE RetargetStep
  BY <1>8 DEF Donate, RetargetStep
<1> QED
  BY <1>1, <1>2, <1>3, <1>4, <1>5, <1>6, <1>7, <1>8 DEF Next

\* Every retarget is within a factor of two and in the direction of its window,
\* for all targets, windows and clocks; in particular a target of zero stays.
THEOREM RetargetAlwaysDamped == Spec => RetargetDamped
  BY StepDamped, TypeCorrect, PTL DEF Spec, RetargetDamped

-----------------------------------------------------------------------------
(* Solutions.                                                              *)

\* A solution binds its miner and its round.
LEMMA StepBindsSolutions == [Next]_vars => [SolutionStep]_vars
BY DEF SolutionStep, verify_submission, is_valid_solution, build_input

\* No solution wins for two miners or in two rounds, whoever hands it in.
THEOREM SolutionAlwaysWinsOnce == Spec => SolutionWinsOnce
  BY StepBindsSolutions, PTL DEF Spec, SolutionWinsOnce

-----------------------------------------------------------------------------
(* The schedule.                                                           *)

\* The epoch changes at a halving boundary and nowhere else.
LEMMA EpochStep ==
    ASSUME NEW h \in Nat
    PROVE  /\ h \div HALVING_INTERVAL_BLOCKS \in Nat
           /\ (h + 1) \div HALVING_INTERVAL_BLOCKS =
                  IF is_halving_boundary(h + 1)
                  THEN h \div HALVING_INTERVAL_BLOCKS + 1
                  ELSE h \div HALVING_INTERVAL_BLOCKS
<1> DEFINE H == HALVING_INTERVAL_BLOCKS
           q == h \div H
           r == h % H
<1>1. H \in Nat \ {0}
  BY ScheduleAssumption
<1> HIDE DEF H
<1>2. q \in Nat /\ r \in 0..(H - 1) /\ h = H * q + r
  BY <1>1, DivMod
<1> HIDE DEF q, r
<1>3. CASE r = H - 1
  <2>1. h + 1 = H * (q + 1) + 0
    <3>1. H * (q + 1) = H * q + H
      BY <1>1, <1>2
    <3> QED
      BY <1>1, <1>2, <1>3, <3>1
  <2>2. (h + 1) \div H = q + 1 /\ (h + 1) % H = 0
    BY <1>1, <1>2, <2>1, DivUnique
  <2> QED
    BY <1>2, <2>2 DEF H, q, is_halving_boundary
<1>4. CASE r # H - 1
  <2>1. h + 1 = H * q + (r + 1) /\ r + 1 \in 0..(H - 1)
    BY <1>1, <1>2, <1>4
  <2>2. (h + 1) \div H = q /\ (h + 1) % H = r + 1
    BY <1>1, <1>2, <2>1, DivUnique
  <2> QED
    BY <1>2, <2>2 DEF H, q, is_halving_boundary
<1> QED
  BY <1>3, <1>4

\* The pure schedule halves at a boundary and rests between two of them, also
\* where the epoch's number reaches the width of the word.
LEMMA RewardStep ==
    ASSUME NEW h \in Nat
    PROVE  reward_at_height(h + 1) =
               IF is_halving_boundary(h + 1)
               THEN shift_right(reward_at_height(h), 1)
               ELSE reward_at_height(h)
<1> DEFINE k == h \div HALVING_INTERVAL_BLOCKS
           shifted(n) == shift_right(INITIAL_BLOCK_REWARD_BASE, n)
<1>1. k \in Nat /\ (h + 1) \div HALVING_INTERVAL_BLOCKS =
                       IF is_halving_boundary(h + 1) THEN k + 1 ELSE k
  BY EpochStep
<1> HIDE DEF k
<1>2. \A n \in Nat : shifted(n) \in Nat
                     /\ shifted(n + 1) = shift_right(shifted(n), 1)
  <2>1. \A n \in Nat : shifted(n) \in Nat /\ shifted(n + 1) = shifted(n) \div 2
    BY ScheduleAssumption, ShiftRight
  <2> HIDE DEF shifted
  <2> QED
    BY <2>1, RewardHalves
<1>3. shifted(64) = 0 /\ shift_right(0, 1) = 0
  <2>1. shift_right(0, 1) = 0 \div 2
    BY RewardHalves
  <2> QED
    BY <2>1, WordAssumption
<1>4. /\ reward_at_height(h) = IF k >= 64 THEN 0 ELSE shifted(k)
      /\ reward_at_height(h + 1) =
             IF is_halving_boundary(h + 1)
             THEN IF k + 1 >= 64 THEN 0 ELSE shifted(k + 1)
             ELSE IF k >= 64 THEN 0 ELSE shifted(k)
  BY <1>1 DEF reward_at_height, k
<1> HIDE DEF shifted
<1>5. CASE k >= 64
  BY <1>1, <1>3, <1>4, <1>5
<1>6. CASE k = 63
  BY <1>2, <1>3, <1>4, <1>6
<1>7. CASE k < 63
  BY <1>1, <1>2, <1>4, <1>7
<1> QED
  BY <1>1, <1>5, <1>6, <1>7

\* The first height is in the first epoch, and nothing is shifted there.
LEMMA FirstReward == reward_at_height(0) = INITIAL_BLOCK_REWARD_BASE
<1>1. 0 \div HALVING_INTERVAL_BLOCKS = 0
  <2>1. HALVING_INTERVAL_BLOCKS \in Nat \ {0}
    BY ScheduleAssumption
  <2>2. 0 = HALVING_INTERVAL_BLOCKS * 0 + 0
        /\ 0 \in 0..(HALVING_INTERVAL_BLOCKS - 1)
    BY <2>1
  <2> QED
    BY <2>1, <2>2, DivUnique
<1>2. shift_right(INITIAL_BLOCK_REWARD_BASE, 0) = INITIAL_BLOCK_REWARD_BASE
  BY ScheduleAssumption, ShiftRight
<1> QED
  BY <1>1, <1>2 DEF reward_at_height

\* A round transition keeps the reward the one of the pure schedule.
LEMMA AdvanceKeepsSchedule ==
    ASSUME NEW c \in EquiumConfig, NEW winner \in Wallets \cup {DefaultKey},
           NEW d, d = advance_round(c, winner),
           c.current_epoch_reward = reward_at_height(c.block_height)
    PROVE  d.current_epoch_reward = reward_at_height(d.block_height)
<1>1. c.block_height \in Nat
  BY DEF EquiumConfig
<1>2. d.block_height = c.block_height + 1
      /\ d.current_epoch_reward = IF is_halving_boundary(c.block_height + 1)
                                  THEN shift_right(c.current_epoch_reward, 1)
                                  ELSE c.current_epoch_reward
  BY AdvanceRoundFields
<1> QED
  BY <1>1, <1>2, RewardStep

\* The reward kept in the config is the pure schedule's for the height.
RewardInStep ==
    initialized => cfg.current_epoch_reward = reward_at_height(cfg.block_height)

\* Every step keeps it so, and pays nothing but it.
LEMMA ScheduleInductive ==
    TypeOK /\ NothingBeforeLaunch /\ RewardInStep /\ [Next]_vars
        => RewardInStep' /\ [PayoutStep]_vars
<1> SUFFICES ASSUME TypeOK, NothingBeforeLaunch, RewardInStep, [Next]_vars
             PROVE  RewardInStep' /\ [PayoutStep]_vars
  OBVIOUS
<1> DEFINE Goal == RewardInStep' /\ PayoutStep
           NoPayout == ~(vault' < vault)
                       /\ cfg'.cumulative_mined = cfg.cumulative_mined
<1>0. cfg \in EquiumConfig /\ vault \in Nat
  BY DEF TypeOK
<1>1. ASSUME NEW t \in AdminTargets, Initialize(t) PROVE Goal
  <2>1. cfg'.current_epoch_reward = INITIAL_BLOCK_REWARD_BASE
        /\ cfg'.block_height = 0 /\ cfg'.cumulative_mined = 0 /\ vault' = vault
    BY <1>1 DEF Initialize, NoConfig, tokens
  <2>2. cfg.cumulative_mined = 0
    BY <1>1, <1>0 DEF Initialize, NothingBeforeLaunch, EquiumConfig
  <2> QED
    BY <1>0, <2>1, <2>2, FirstReward DEF RewardInStep, PayoutStep
<1>2. ASSUME NEW s \in Wallets, FundVault(s) PROVE Goal
  <2>1. NoPayout
    BY <1>0, <1>2, ProgramAssumption DEF FundVault, EquiumConfig
  <2> QED
    BY <1>0, <1>2, <2>1 DEF FundVault, EquiumConfig, RewardInStep, PayoutStep
<1>3. ASSUME NEW m \in Miners, NEW s \in Submissions, Mine(m, s) PROVE Goal
  <2> DEFINE r == cfg.current_epoch_reward
             credited == [cfg EXCEPT !.cumulative_mined = @ + r]
  <2>1. /\ initialized /\ initialized' = initialized
        /\ vault' = vault - r
        /\ ata' = [ata EXCEPT ![m] = @ + r]
        /\ cfg' = advance_round(credited, m)
    BY <1>3 DEF Mine, mine_ok
  <2>2. r = reward_at_height(cfg.block_height)
    BY <2>1 DEF RewardInStep
  <2>3. /\ credited \in EquiumConfig
        /\ credited.block_height = cfg.block_height
        /\ credited.current_epoch_reward = r
        /\ credited.cumulative_mined = cfg.cumulative_mined + r
    BY <1>0 DEF EquiumConfig
  <2>4. m \in Wallets \cup {DefaultKey} /\ m # DefaultKey
    BY ProgramAssumption DEF Wallets
  <2> HIDE DEF credited, r
  <2>5. cfg'.current_epoch_reward = reward_at_height(cfg'.block_height)
    BY <2>1, <2>2, <2>3, <2>4, AdvanceKeepsSchedule
  <2>6. /\ cfg'.block_height = cfg.block_height + 1
        /\ cfg'.cumulative_mined = cfg.cumulative_mined + r
    BY <2>1, <2>3, <2>4, AdvanceRoundFields
  <2>7. cfg'.last_winner = m
    BY <2>1, <2>3, <2>4
       DEF advance_round, next_round, retargeted, halved, EquiumConfig
  <2> QED
    BY <2>1, <2>2, <2>5, <2>6, <2>7 DEF RewardInStep, PayoutStep
<1>4. ASSUME AdvanceEmptyRound PROVE Goal
  <2>1. /\ initialized /\ initialized' = initialized /\ vault' = vault
        /\ cfg' = advance_round(cfg, DefaultKey)
    BY <1>4 DEF AdvanceEmptyRound, advance_empty_round_ok, tokens
  <2>2. cfg'.current_epoch_reward = reward_at_height(cfg'.block_height)
    BY <1>0, <2>1, AdvanceKeepsSchedule DEF RewardInStep
  <2>3. cfg'.cumulative_mined = cfg.cumulative_mined
    BY <1>0, <2>1, AdvanceRoundFields
  <2> QED
    BY <1>0, <2>1, <2>2, <2>3 DEF RewardInStep, PayoutStep
<1>5. ASSUME NEW s \in Wallets, NEW t \in AdminTargets, SetTarget(s, t)
      PROVE  Goal
  BY <1>0, <1>5 DEF SetTarget, EquiumConfig, tokens, RewardInStep, PayoutStep
<1>6. ASSUME NEW s \in Wallets, RenounceAdmin(s) PROVE Goal
  BY <1>0, <1>6 DEF RenounceAdmin, EquiumConfig, tokens, RewardInStep, PayoutStep
<1>7. ASSUME NEW slots \in SlotSteps, NEW seconds \in TimeSteps,
             NEW hash \in Entropies, Tick(slots, seconds, hash)
      PROVE  Goal
  BY <1>0, <1>7 DEF Tick, tokens, RewardInStep, PayoutStep
<1>8. ASSUME NEW a \in DonationAmounts, Donate(a) PROVE Goal
  BY <1>0, <1>8, ProgramAssumption DEF Donate, RewardInStep, PayoutStep
<1>9. CASE UNCHANGED vars
  BY <1>0, <1>9 DEF vars, tokens, RewardInStep, PayoutStep
<1> QED
  BY <1>1, <1>2, <1>3, <1>4, <1>5, <1>6, <1>7, <1>8, <1>9 DEF Next

\* In every state the reward kept by repeated shifts and the two announced
\* boundaries are the pure schedule's, however long the history.
THEOREM ScheduleAlwaysInStep == Spec => []ScheduleInStep
<1>1. Init => RewardInStep
  BY DEF Init, RewardInStep
<1>2. SupplyInvariant => TypeOK /\ NothingBeforeLaunch /\ BoundariesAhead
  BY DEF SupplyInvariant
<1>3. BoundariesAhead /\ RewardInStep => ScheduleInStep
  BY DEF ScheduleInStep, RewardInStep
<1>4. TypeOK /\ NothingBeforeLaunch /\ RewardInStep /\ [Next]_vars
          => RewardInStep'
  BY ScheduleInductive
<1> QED
  BY <1>1, <1>2, <1>3, <1>4, SupplyInvariantHolds, PTL DEF Spec

\* Tokens leave the vault only as the reward that the pure schedule sets for
\* the height being closed, to the one miner recorded as winner.
THEOREM PayoutAlwaysFollowsSchedule == Spec => PayoutFollowsSchedule
<1>1. Init => RewardInStep
  BY DEF Init, RewardInStep
<1>2. SupplyInvariant => TypeOK /\ NothingBeforeLaunch
  BY DEF SupplyInvariant
<1>3. TypeOK /\ NothingBeforeLaunch /\ RewardInStep /\ [Next]_vars
          => RewardInStep' /\ [PayoutStep]_vars
  BY ScheduleInductive
<1> QED
  BY <1>1, <1>2, <1>3, SupplyInvariantHolds, PTL
     DEF Spec, PayoutFollowsSchedule

-----------------------------------------------------------------------------
(* The program implements the abstract emission: its initial states are    *)
(* initial states of Emission, and each of its steps is an Emission step   *)
(* or leaves everything Emission speaks of unchanged.                      *)

\* The reward a holder is promised next.
PromisedReward == IF initialized THEN cfg.current_epoch_reward
                  ELSE INITIAL_BLOCK_REWARD_BASE

\* A step that leaves the emission alone.
SameEmission ==
    /\ cfg'.mining_open = cfg.mining_open
    /\ cfg'.block_height = cfg.block_height
    /\ PromisedReward' = PromisedReward
    /\ cfg'.cumulative_mined = cfg.cumulative_mined
    /\ ata' = ata

\* Such a step is a stutter of Emission.
LEMMA SameEmissionStutters == SameEmission => UNCHANGED Promise!vars
  BY DEF SameEmission, PromisedReward, Promise!vars

\* Before `initialize` nothing is open, closed or paid.
LEMMA EmissionInit == Init => Promise!Init
  BY DEF Init, NoConfig, Promise!Init

\* What a round transition does to the emission, in Emission's own terms.
LEMMA AdvanceRoundEmits ==
    ASSUME NEW c \in EquiumConfig, NEW winner \in Wallets \cup {DefaultKey},
           NEW d, d = advance_round(c, winner)
    PROVE  /\ d.block_height = c.block_height + 1
           /\ d.mining_open = c.mining_open
           /\ d.cumulative_mined = c.cumulative_mined
           /\ d.current_epoch_reward =
                  IF (c.block_height + 1) % HALVING_INTERVAL_BLOCKS = 0
                  THEN c.current_epoch_reward \div 2
                  ELSE c.current_epoch_reward
<1>1. c.block_height \in Nat /\ c.current_epoch_reward \in Nat
  BY DEF EquiumConfig
<1>2. is_halving_boundary(c.block_height + 1)
          <=> (c.block_height + 1) % HALVING_INTERVAL_BLOCKS = 0
  BY <1>1 DEF is_halving_boundary
<1>3. shift_right(c.current_epoch_reward, 1) = c.current_epoch_reward \div 2
  BY <1>1, RewardHalves
<1>4. d.current_epoch_reward = IF is_halving_boundary(c.block_height + 1)
                               THEN shift_right(c.current_epoch_reward, 1)
                               ELSE c.current_epoch_reward
  BY AdvanceRoundFields
<1>5. /\ d.block_height = c.block_height + 1
      /\ d.mining_open = c.mining_open
      /\ d.cumulative_mined = c.cumulative_mined
  BY AdvanceRoundFields
<1> QED
  BY <1>2, <1>3, <1>4, <1>5

\* Closing a round, won or skipped, closes a height of Emission: the next
\* height, at the old reward or, behind an epoch's end, half of it.
LEMMA RoundCloses ==
    ASSUME SupplyInvariant, cfg.mining_open, initialized' = initialized,
           NEW c \in EquiumConfig, NEW winner \in Wallets \cup {DefaultKey},
           c.mining_open = cfg.mining_open,
           c.block_height = cfg.block_height,
           c.current_epoch_reward = cfg.current_epoch_reward,
           cfg' = advance_round(c, winner)
    PROVE  Promise!Close /\ cfg'.cumulative_mined = c.cumulative_mined
<1>1. initialized /\ initialized'
  BY DEF SupplyInvariant, NothingBeforeLaunch
<1> DEFINE d == cfg'
<1> HIDE DEF d
<1>2. d = advance_round(c, winner)
  BY DEF d
<1>3. /\ d.block_height = c.block_height + 1
      /\ d.mining_open = c.mining_open
      /\ d.cumulative_mined = c.cumulative_mined
      /\ d.current_epoch_reward =
             IF (c.block_height + 1) % HALVING_INTERVAL_BLOCKS = 0
             THEN c.current_epoch_reward \div 2
             ELSE c.current_epoch_reward
  BY <1>2, AdvanceRoundEmits
<1> QED
  BY <1>1, <1>3 DEF d, Promise!Close

\* A mined round is a win of its miner.
LEMMA MineWins ==
    ASSUME SupplyInvariant, NEW m \in Miners, NEW s, Mine(m, s)
    PROVE  Promise!Win(m)
<1> DEFINE r == cfg.current_epoch_reward
           credited == [cfg EXCEPT !.cumulative_mined = @ + r]
<1>1. cfg \in EquiumConfig /\ r \in Nat /\ cfg.cumulative_mined \in Nat
  BY DEF SupplyInvariant, TypeOK, EquiumConfig
<1>2. /\ initialized /\ cfg.mining_open /\ initialized' = initialized
      /\ r > 0 /\ cfg.cumulative_mined + r <= MINEABLE_BASE
      /\ ata' = [ata EXCEPT ![m] = @ + r]
      /\ cfg' = advance_round(credited, m)
  BY DEF Mine, mine_ok
<1>3. /\ credited \in EquiumConfig
      /\ credited.mining_open = cfg.mining_open
      /\ credited.block_height = cfg.block_height
      /\ credited.current_epoch_reward = cfg.current_epoch_reward
      /\ credited.cumulative_mined = cfg.cumulative_mined + r
  BY <1>1 DEF EquiumConfig
<1>4. m \in Wallets \cup {DefaultKey}
  BY DEF Wallets
<1>5. Promise!Close /\ cfg'.cumulative_mined = cfg.cumulative_mined + r
  <2> HIDE DEF credited
  <2> QED
    BY <1>2, <1>3, <1>4, RoundCloses
<1> QED
  BY <1>2, <1>5 DEF Promise!Win

\* A round skipped for its age is a skip.
LEMMA AdvanceSkips ==
    ASSUME SupplyInvariant, AdvanceEmptyRound
    PROVE  Promise!Skip
<1>1. cfg \in EquiumConfig
  BY DEF SupplyInvariant, TypeOK
<1>2. /\ cfg.mining_open /\ initialized' = initialized /\ ata' = ata
      /\ cfg' = advance_round(cfg, DefaultKey)
  BY DEF AdvanceEmptyRound, advance_empty_round_ok, tokens
<1>3. Promise!Close /\ cfg'.cumulative_mined = cfg.cumulative_mined
  BY <1>1, <1>2, RoundCloses
<1> QED
  BY <1>2, <1>3 DEF Promise!Skip

\* Every step of the program is a step of Emission or a stutter.
LEMMA EmissionNext ==
    SupplyInvariant /\ [Next]_vars => [Promise!Next]_(Promise!vars)
<1> SUFFICES ASSUME SupplyInvariant, [Next]_vars
             PROVE  Promise!Next \/ SameEmission
  BY SameEmissionStutters
<1>1. cfg \in EquiumConfig
  BY DEF SupplyInvariant, TypeOK
<1>2. ASSUME NEW t \in AdminTargets, Initialize(t) PROVE SameEmission
  <2>1. ~initialized /\ ~cfg.mining_open
    BY <1>2 DEF Initialize, SupplyInvariant, NothingBeforeLaunch
  <2>2. cfg.block_height = 0 /\ cfg.cumulative_mined = 0
        /\ cfg.mining_open = FALSE
    BY <1>1, <2>1 DEF SupplyInvariant, NothingBeforeLaunch, EquiumConfig
  <2> QED
    BY <1>2, <2>1, <2>2
       DEF Initialize, NoConfig, SameEmission, PromisedReward, tokens
<1>3. ASSUME NEW s \in Wallets, FundVault(s) PROVE Promise!Next
  BY <1>1, <1>3 DEF FundVault, EquiumConfig, Promise!Next, Promise!Open
<1>4. ASSUME NEW m \in Miners, NEW s \in Submissions, Mine(m, s)
      PROVE  Promise!Next
  BY <1>4, MineWins DEF Promise!Next
<1>5. ASSUME AdvanceEmptyRound PROVE Promise!Next
  BY <1>5, AdvanceSkips DEF Promise!Next
<1>6. ASSUME NEW s \in Wallets, NEW t \in AdminTargets, SetTarget(s, t)
      PROVE  SameEmission
  BY <1>1, <1>6
     DEF SetTarget, EquiumConfig, SameEmission, PromisedReward, tokens
<1>7. ASSUME NEW s \in Wallets, RenounceAdmin(s) PROVE SameEmission
  BY <1>1, <1>7
     DEF RenounceAdmin, EquiumConfig, SameEmission, PromisedReward, tokens
<1>8. ASSUME NEW slots \in SlotSteps, NEW seconds \in TimeSteps,
             NEW hash \in Entropies, Tick(slots, seconds, hash)
      PROVE  SameEmission
  BY <1>8 DEF Tick, SameEmission, PromisedReward, tokens
<1>9. ASSUME NEW a \in DonationAmounts, Donate(a) PROVE SameEmission
  BY <1>9 DEF Donate, SameEmission, PromisedReward
<1>10. CASE UNCHANGED vars
  BY <1>10 DEF vars, tokens, SameEmission, PromisedReward
<1> QED
  BY <1>2, <1>3, <1>4, <1>5, <1>6, <1>7, <1>8, <1>9, <1>10 DEF Next

\* The program implements Emission, for every schedule whose two first epochs
\* fit in the mineable supply: no instruction, in whatever order, shows a
\* holder anything but heights closed one by one and winners paid their due.
THEOREM EmissionImplemented == Spec => EmissionPromise
<1>1. Init => Promise!Init
  BY EmissionInit
<1>2. SupplyInvariant /\ [Next]_vars => [Promise!Next]_(Promise!vars)
  BY EmissionNext
<1> QED
  BY <1>1, <1>2, SupplyInvariantHolds, PTL DEF Spec, EmissionPromise,
     Promise!Spec
=============================================================================
