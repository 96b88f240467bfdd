----------------------------- MODULE MinerProofs -----------------------------
(***************************************************************************)
(* The miners and the program together, for any number of miners and any   *)
(* schedule: the program's own invariants survive every client and every   *)
(* behaviour of the network, each height is closed once and paid to one    *)
(* wallet, a client's books match the chain, and it is told the truth.     *)
(*                                                                         *)
(* A client acts on a snapshot of the config.  What makes it safe is that  *)
(* a snapshot at the chain's height has the chain's challenge and reward,  *)
(* and that the one transaction a client waits for is bound to the         *)
(* snapshot it was solved for.                                             *)
(***************************************************************************)
EXTENDS Miner, EquiumProofs

-----------------------------------------------------------------------------
(* Types.                                                                  *)

ClientPCs == {"fetch", "solve", "confirm_mine", "confirm_advance", "stopped",
              "exited"}

ClientStates ==
    [pc : ClientPCs, cfg : EquiumConfig, current_height : Nat \cup {Never},
     last_height_change_at : Int, last_advance_attempt_at : Int,
     blocks_mined : Nat, total_reward_base : Nat, sent : Nat]

InputBlocks == [challenge : Challenges, miner : Miners, height : Nat]
MineCalls == [kind : {"mine"},
              submission : [input : InputBlocks, hash : SolutionHashes]]
Transactions == [payer : Miners, seq : Nat, call : MineCalls \cup {AdvanceCall}]
Outcomes == {"none", "ok", "stale challenge", "above target",
             "blockhash expired", "submit error", "couldn't advance"}
Events == [height : Nat, winner : Miners, reward : Nat]

\* The types of what the clients and the network add to the program's state.
SystemType ==
    /\ client \in [Miners -> ClientStates]
    /\ served \in EquiumConfig
    /\ pending \subseteq Transactions
    /\ result \in [Miners -> Outcomes]
    /\ gave_up \subseteq Miners
    /\ blocks \subseteq Events

-----------------------------------------------------------------------------
(* The inductive invariant.                                                *)

\* A config read at the chain's height has the chain's challenge and reward.
Snapshot(c, now) ==
    /\ c.block_height <= now.block_height
    /\ c.block_height = now.block_height =>
           /\ c.current_challenge = now.current_challenge
           /\ c.current_epoch_reward = now.current_epoch_reward

Snapshots ==
    /\ Snapshot(served, cfg)
    /\ \A m \in Miners :
           client[m].pc \in {"solve", "confirm_mine"} =>
               Snapshot(client[m].cfg, cfg)

\* A solution submitted for the client's snapshot.
SolvedFor(c, tx) ==
    /\ tx.call.kind = "mine"
    /\ tx.call.submission.input = build_input(c.cfg.current_challenge, tx.payer,
                                              c.cfg.block_height)
    /\ tx.call.submission.hash < c.cfg.current_target

\* The transaction a client waits for is undecided and bound to its snapshot;
\* as long as the client never gave up on one, no other `mine` is on its way.
InFlight(tx) ==
    LET c == client[tx.payer]
    IN  /\ tx.seq <= c.sent
        /\ tx.seq = c.sent =>
               /\ result[tx.payer] = "none"
               /\ c.pc = "confirm_mine" => SolvedFor(c, tx)
        /\ (tx.call.kind = "mine" /\ tx.payer \notin gave_up) =>
               tx.seq = c.sent /\ c.pc = "confirm_mine"

Flight ==
    /\ \A tx \in pending : InFlight(tx)
    /\ \A t1, t2 \in pending :
           (t1.payer = t2.payer /\ t1.seq = t2.seq) => t1 = t2

\* A block of this client landed that it has not counted yet.
Uncounted(m) == client[m].pc = "confirm_mine" /\ result[m] = "ok"

\* The client's books, with what it is about to count.
Blocks(m) == client[m].blocks_mined + (IF Uncounted(m) THEN 1 ELSE 0)
Reward(m) == client[m].total_reward_base
             + (IF Uncounted(m) THEN client[m].cfg.current_epoch_reward ELSE 0)

Books ==
    \A m \in Miners :
        /\ Blocks(m) <= Cardinality(WonBy(m))
        /\ Reward(m) <= ata[m]
        /\ m \notin gave_up => /\ Blocks(m) = Cardinality(WonBy(m))
                               /\ Reward(m) = ata[m]

Ledger == IsFiniteSet(blocks) /\ EveryHeightClosedOnce

-----------------------------------------------------------------------------
(* The system's steps and the program's.                                   *)

\* What a client step leaves alone, whichever it is.
LEMMA ClientFrame ==
    ASSUME NEW m \in Miners, ClientStep(m) \/ LoseTouch(m) \/ FetchFails(m)
    PROVE  UNCHANGED <<initialized, cfg, vault, source, ata, slot, unix_ts,
                       slot_hash, opened_slot, served, blocks>>
BY DEF ClientStep, Fetch, Skip, Exhausted, Solved, Mined, Advanced, Rejected,
       LoseTouch, FetchFails, chain, network

\* A transaction that the program accepts is a call of one of its instructions.
LEMMA LandIsCall ==
    ASSUME SystemType, NEW tx \in pending, Land(tx)
    PROVE  Next
<1>1. tx \in Transactions
  BY DEF SystemType
<1>2. CASE tx.call.kind = "mine"
  <2> DEFINE m == tx.payer
             s == tx.call.submission
  <2>1. Mine(m, s) /\ mine_ok(m, s)
    BY <1>2 DEF Land, Accepted
  <2>2. m \in Miners /\ s \in [input : InputBlocks, hash : SolutionHashes]
    BY <1>1, <1>2 DEF Transactions, MineCalls, AdvanceCall
  <2>3. s.input = build_input(cfg.current_challenge, m, cfg.block_height)
    BY <2>1 DEF mine_ok, verify_submission, is_valid_solution
  <2> HIDE DEF m, s
  <2>4. s \in Submissions
    BY <2>2, <2>3 DEF Submissions
  <2> QED
    BY <2>1, <2>2, <2>4 DEF Next
<1>3. CASE tx.call.kind # "mine"
  BY <1>3 DEF Land, Next
<1> QED
  BY <1>2, <1>3

\* Every step of the system is a step of the program or leaves it alone: the
\* clients reach it through its instructions only.
LEMMA SystemStepIsProgramStep ==
    SystemType /\ [SystemNext]_all_vars => [Next]_vars
<1> SUFFICES ASSUME SystemType, [SystemNext]_all_vars PROVE [Next]_vars
  OBVIOUS
<1> DEFINE Untouched == UNCHANGED <<initialized, cfg, vault, source, ata, slot,
                                    unix_ts, slot_hash, opened_slot>>
<1>1. Untouched => UNCHANGED vars
  BY DEF vars, tokens, clock
<1>2. CASE \E m \in Miners : ClientStep(m) \/ LoseTouch(m) \/ FetchFails(m)
  BY <1>1, <1>2, ClientFrame
<1>3. CASE Deliver
  <2>1. PICK tx \in pending : Land(tx) \/ Bounce(tx) \/ Expire(tx)
    BY <1>3 DEF Deliver
  <2>2. CASE Land(tx)
    BY <2>2, LandIsCall
  <2>3. CASE Bounce(tx) \/ Expire(tx)
    BY <1>1, <2>3 DEF Bounce, Expire, chain
  <2> QED
    BY <2>1, <2>2, <2>3
<1>4. CASE Serve
  BY <1>1, <1>4 DEF Serve, chain
<1>5. CASE Surroundings
  <2>1. EXPECTED_ADMIN \in Wallets
    BY DEF Wallets
  <2> QED
    BY <1>5, <2>1 DEF Surroundings, Next
<1>6. CASE UNCHANGED all_vars
  BY <1>1, <1>6 DEF all_vars, chain
<1> QED
  BY <1>2, <1>3, <1>4, <1>5, <1>6 DEF SystemNext

\* The launch leaves the program in a state its own invariants allow.
LEMMA LaunchState ==
    SystemInit => SupplyInvariant /\ RewardInStep
<1> SUFFICES ASSUME SystemInit PROVE SupplyInvariant /\ RewardInStep
  OBVIOUS
<1> DEFINE H == HALVING_INTERVAL_BLOCKS
           R == RETARGET_INTERVAL_BLOCKS
           I == INITIAL_BLOCK_REWARD_BASE
<1>0. H \in Nat \ {0} /\ R \in Nat \ {0} /\ I \in Nat
      /\ AdminTargets \subseteq Targets
  BY ScheduleAssumption, ProgramAssumption
<1>1. PICK t \in AdminTargets : cfg = LaunchConfig(t)
  BY DEF SystemInit
<1>2. /\ cfg.mining_open /\ cfg.block_height = 0
      /\ cfg.cumulative_mined = 0 /\ cfg.empty_rounds = 0
      /\ cfg.current_epoch_reward = I
      /\ cfg.next_halving_block = H
      /\ cfg.next_retarget_block = R
      /\ cfg.current_round_open_slot = 0
  BY <1>1 DEF LaunchConfig, NoConfig
<1>3. TypeOK
  <2>1. genesis_challenge \in Challenges
    BY DEF genesis_challenge, Challenges
  <2>2. 0 \in Targets
    BY ScheduleAssumption DEF Targets
  <2>3. NoConfig \in EquiumConfig
    BY <2>1, <2>2 DEF NoConfig, EquiumConfig
  <2>4. cfg \in EquiumConfig
    BY <1>0, <1>1, <2>3 DEF LaunchConfig, EquiumConfig, Wallets
  <2>5. vault \in Nat /\ source \in Nat
    BY ProgramAssumption DEF SystemInit
  <2> QED
    BY <2>4, <2>5 DEF SystemInit, TypeOK
<1>4. NextMultiple(0, H) = H /\ NextMultiple(0, R) = R
  <2>1. 0 = H * 0 + 0 /\ 0 = R * 0 + 0 /\ 0 \in 0..(H - 1) /\ 0 \in 0..(R - 1)
    BY <1>0
  <2>2. 0 \div H = 0 /\ 0 \div R = 0
    BY <2>1, <1>0, DivUnique
  <2> QED
    BY <1>0, <2>2 DEF NextMultiple
<1>5. StillMineable(cfg)
  <2>1. 0 + (I * (H - 0) + I * H) = 2 * (H * I)
    BY <1>0
  <2> QED
    BY <1>0, <1>2, <2>1 DEF StillMineable
<1>6. VaultHoldsTheRest
  BY <1>2, ProgramAssumption DEF SystemInit, VaultHoldsTheRest
<1>7. EmptyRoundsPaced
  <2>1. 0 + 0 * ROUND_TIMEOUT_SLOTS <= 0
    BY ProgramAssumption
  <2> QED
    BY <1>2, <2>1 DEF SystemInit, EmptyRoundsPaced
<1>8. RewardInStep
  BY <1>2, FirstReward DEF RewardInStep
<1> QED
  BY <1>2, <1>3, <1>4, <1>5, <1>6, <1>7, <1>8
     DEF SupplyInvariant, NothingBeforeLaunch, BoundariesAhead, SystemInit

-----------------------------------------------------------------------------
(* The types hold.                                                         *)

\* The clients start with types in order.
LEMMA SystemTypeInit == SystemInit => SystemType
<1> SUFFICES ASSUME SystemInit PROVE SystemType
  OBVIOUS
<1>1. cfg \in EquiumConfig
  BY LaunchState DEF SupplyInvariant, TypeOK
<1>2. NoConfig \in EquiumConfig
  <2>1. genesis_challenge \in Challenges
    BY DEF genesis_challenge, Challenges
  <2>2. 0 \in Targets
    BY ScheduleAssumption DEF Targets
  <2> QED
    BY <2>1, <2>2 DEF NoConfig, EquiumConfig
<1>3. client \in [Miners -> ClientStates]
  BY <1>2 DEF SystemInit, ClientStates, ClientPCs, Never
<1> QED
  BY <1>1, <1>3 DEF SystemInit, SystemType, Outcomes

\* Fetching keeps the type of a client.
LEMMA FetchedType ==
    ASSUME SystemType, TypeOK, NEW m \in Miners
    PROVE  Fetched(m) \in ClientStates
<1>1. client[m] \in ClientStates /\ served \in EquiumConfig /\ unix_ts \in Int
  BY DEF SystemType, TypeOK
<1>2. served.block_height \in Nat
  BY <1>1 DEF EquiumConfig
<1> DEFINE c == client[m]
           moved == served.block_height # c.current_height
           since == IF moved THEN unix_ts ELSE c.last_height_change_at
           tried_at == IF moved THEN Never ELSE c.last_advance_attempt_at
<1>3. since \in Int /\ tried_at \in Int
  BY <1>1 DEF ClientStates, Never
<1>4. Fetched(m) = [c EXCEPT !.cfg = served,
                             !.current_height = served.block_height,
                             !.last_height_change_at = since,
                             !.last_advance_attempt_at = tried_at]
  BY <1>1 DEF Fetched, ClientStates
<1>5. c \in ClientStates
  BY <1>1
<1> HIDE DEF c, since, tried_at
<1> QED
  BY <1>1, <1>2, <1>3, <1>4, <1>5 DEF ClientStates

\* So does sending a transaction, or failing to.
LEMMA SubmitType ==
    ASSUME SystemType, NEW m \in Miners, NEW c \in ClientStates,
           NEW call \in MineCalls \cup {AdvanceCall},
           NEW pc \in ClientPCs,
           Submit([payer |-> m, state |-> c, sent |-> c.sent], call, pc)
    PROVE  /\ client' \in [Miners -> ClientStates]
           /\ pending' \subseteq Transactions
           /\ result' \in [Miners -> Outcomes]
<1>1. CASE /\ client' = [client EXCEPT ![m] = [c EXCEPT !.pc = pc, !.sent = @ + 1]]
           /\ pending' = pending \cup
                  {[payer |-> m, seq |-> c.sent + 1, call |-> call]}
           /\ result' = [result EXCEPT ![m] = "none"]
  <2>1. c.sent + 1 \in Nat
    BY DEF ClientStates
  <2>2. [c EXCEPT !.pc = pc, !.sent = @ + 1] \in ClientStates
    BY <2>1 DEF ClientStates
  <2>3. [payer |-> m, seq |-> c.sent + 1, call |-> call] \in Transactions
    BY <2>1 DEF Transactions
  <2> QED
    BY <1>1, <2>2, <2>3 DEF SystemType, Outcomes
<1>2. CASE /\ client' = [client EXCEPT ![m] = [c EXCEPT !.pc = "fetch"]]
           /\ UNCHANGED <<pending, result>>
  <2>1. [c EXCEPT !.pc = "fetch"] \in ClientStates
    BY DEF ClientStates, ClientPCs
  <2> QED
    BY <1>2, <2>1 DEF SystemType
<1> QED
  BY <1>1, <1>2 DEF Submit

\* Every client step keeps the types.
LEMMA ClientKeepsType ==
    ASSUME SystemType, TypeOK, NEW m \in Miners,
           ClientStep(m) \/ LoseTouch(m) \/ FetchFails(m)
    PROVE  SystemType'
<1>0. client[m] \in ClientStates /\ served' = served /\ blocks' = blocks
  BY ClientFrame DEF SystemType
<1>1. CASE Fetch(m)
  <2>1. [Fetched(m) EXCEPT !.pc = "solve"] \in ClientStates
    BY FetchedType DEF ClientStates, ClientPCs
  <2> QED
    BY <1>0, <1>1, <2>1 DEF Fetch, SystemType, network
<1>2. CASE Skip(m)
  <2> DEFINE c == [Fetched(m) EXCEPT !.last_advance_attempt_at = unix_ts]
  <2>1. c \in ClientStates
    BY FetchedType DEF ClientStates, TypeOK
  <2>2. Submit([payer |-> m, state |-> c, sent |-> c.sent], AdvanceCall,
               "confirm_advance")
    BY <1>2 DEF Skip
  <2>3. gave_up' = gave_up
    BY <1>2 DEF Skip
  <2> HIDE DEF c
  <2>4. /\ client' \in [Miners -> ClientStates]
        /\ pending' \subseteq Transactions
        /\ result' \in [Miners -> Outcomes]
    <3>1. "confirm_advance" \in ClientPCs
      BY DEF ClientPCs
    <3> QED
      BY <2>1, <2>2, <3>1, SubmitType
  <2> QED
    BY <1>0, <2>3, <2>4 DEF SystemType
<1>3. ASSUME NEW hash \in SolutionHashes, Solved(m, hash) PROVE SystemType'
  <2> DEFINE c == client[m]
             call == MineCall([input |-> build_input(c.cfg.current_challenge, m,
                                                     c.cfg.block_height),
                               hash |-> hash])
  <2>1. c.cfg.current_challenge \in Challenges /\ c.cfg.block_height \in Nat
    BY <1>0 DEF ClientStates, EquiumConfig
  <2>2. call \in MineCalls
    BY <2>1 DEF MineCall, MineCalls, InputBlocks, build_input
  <2>3. Submit([payer |-> m, state |-> c, sent |-> c.sent], call, "confirm_mine")
        /\ gave_up' = gave_up
    BY <1>3 DEF Solved
  <2> HIDE DEF c, call
  <2>4. /\ client' \in [Miners -> ClientStates]
        /\ pending' \subseteq Transactions
        /\ result' \in [Miners -> Outcomes]
    <3>1. "confirm_mine" \in ClientPCs /\ c \in ClientStates
      BY <1>0 DEF ClientPCs, c
    <3> QED
      BY <2>2, <2>3, <3>1, SubmitType
  <2> QED
    BY <1>0, <2>3, <2>4 DEF SystemType
<1>4. CASE Mined(m)
  <2> DEFINE c == client[m]
             d == [c EXCEPT
                      !.blocks_mined = c.blocks_mined + 1,
                      !.total_reward_base = @ + c.cfg.current_epoch_reward,
                      !.pc = IF max_blocks > 0 /\ c.blocks_mined + 1 >= max_blocks
                             THEN "stopped" ELSE "fetch"]
  <2>1. c.blocks_mined + 1 \in Nat
        /\ c.total_reward_base + c.cfg.current_epoch_reward \in Nat
    BY <1>0 DEF ClientStates, EquiumConfig
  <2>2. d \in ClientStates
    BY <1>0, <2>1 DEF ClientStates, ClientPCs
  <2>3. client' = [client EXCEPT ![m] = d]
        /\ UNCHANGED <<pending, result, gave_up>>
    BY <1>4 DEF Mined, network
  <2> HIDE DEF d
  <2> QED
    BY <1>0, <2>2, <2>3 DEF SystemType
<1>5. CASE Exhausted(m) \/ Advanced(m) \/ Rejected(m) \/ LoseTouch(m)
           \/ FetchFails(m)
  <2>1. PICK pc \in ClientPCs : client' = [client EXCEPT ![m].pc = pc]
    BY <1>5 DEF Exhausted, Advanced, Rejected, LoseTouch, FetchFails, ClientPCs
  <2>2. pending' = pending /\ result' = result /\ gave_up' \subseteq Miners
    BY <1>5 DEF Exhausted, Advanced, Rejected, LoseTouch, FetchFails, network,
                SystemType
  <2>3. [client[m] EXCEPT !.pc = pc] \in ClientStates
    BY <1>0 DEF ClientStates
  <2> QED
    BY <1>0, <2>1, <2>2, <2>3 DEF SystemType
<1> QED
  BY <1>1, <1>2, <1>3, <1>4, <1>5 DEF ClientStep

\* So does whatever becomes of a transaction.
LEMMA DeliverKeepsType ==
    ASSUME SystemType, TypeOK, NEW tx \in pending,
           Land(tx) \/ Bounce(tx) \/ Expire(tx)
    PROVE  SystemType'
<1>1. tx.payer \in Miners /\ pending' \subseteq Transactions
  BY DEF SystemType, Transactions, Land, Bounce, Expire
<1>2. \E outcome \in Outcomes : Report(tx, outcome)
  <2>1. /\ classify_submit_err(tx) \in Outcomes
        /\ classify_expiry(tx) \subseteq Outcomes
    BY DEF classify_submit_err, classify_expiry, Outcomes
  <2> QED
    BY <2>1 DEF Land, Bounce, Expire, Outcomes
<1>3. result' \in [Miners -> Outcomes]
  BY <1>1, <1>2 DEF Report, SystemType
<1>4. blocks' \subseteq Events
  <2>1. BlockMined(tx.payer) \in Events
    BY <1>1 DEF BlockMined, Events, TypeOK, EquiumConfig
  <2> QED
    BY <2>1 DEF Land, Bounce, Expire, SystemType
<1> QED
  BY <1>1, <1>3, <1>4 DEF SystemType, Land, Bounce, Expire

\* Every step of the system keeps the types.
LEMMA SystemTypeNext ==
    SystemType /\ TypeOK /\ [SystemNext]_all_vars => SystemType'
<1> SUFFICES ASSUME SystemType, TypeOK, [SystemNext]_all_vars PROVE SystemType'
  OBVIOUS
<1>1. CASE \E m \in Miners : ClientStep(m) \/ LoseTouch(m) \/ FetchFails(m)
  BY <1>1, ClientKeepsType
<1>2. CASE Deliver
  BY <1>2, DeliverKeepsType DEF Deliver
<1>3. CASE Serve
  BY <1>3 DEF Serve, SystemType, TypeOK
<1>4. CASE Surroundings \/ UNCHANGED all_vars
  BY <1>4 DEF Surroundings, SystemType, all_vars, network
<1> QED
  BY <1>1, <1>2, <1>3, <1>4 DEF SystemNext

-----------------------------------------------------------------------------
(* What the steps of the system do to the chain.                           *)

\* A `mine` that lands closes the height it was solved for and pays its wallet.
LEMMA LandMine ==
    ASSUME SystemType, TypeOK, NEW tx \in pending, Land(tx),
           tx.call.kind = "mine"
    PROVE  /\ verify_submission(tx.payer, tx.call.submission)
           /\ ata' = [ata EXCEPT ![tx.payer] = @ + cfg.current_epoch_reward]
           /\ blocks' = blocks \cup {BlockMined(tx.payer)}
           /\ cfg'.block_height = cfg.block_height + 1
           /\ cfg'.empty_rounds = cfg.empty_rounds
<1> DEFINE m == tx.payer
           s == tx.call.submission
<1>1. m \in Miners
  BY DEF SystemType, Transactions
<1>2. Mine(m, s) /\ mine_ok(m, s) /\ blocks' = blocks \cup {BlockMined(m)}
  BY DEF Land, Accepted
<1> HIDE DEF m, s
<1>3. m \in Wallets \cup {DefaultKey} /\ m # DefaultKey
  BY <1>1, ProgramAssumption DEF Wallets
<1>4. PICK c \in EquiumConfig :
          /\ cfg' = advance_round(c, m)
          /\ c = [cfg EXCEPT !.cumulative_mined =
                      cfg.cumulative_mined + cfg.current_epoch_reward]
  BY <1>1, <1>2, MineAdvances
<1>5. c.block_height = cfg.block_height /\ c.empty_rounds = cfg.empty_rounds
  BY <1>4 DEF TypeOK, EquiumConfig
<1>6. cfg'.block_height = c.block_height + 1
      /\ cfg'.empty_rounds = c.empty_rounds
  <2> DEFINE d == cfg'
  <2> HIDE DEF d
  <2>1. d = advance_round(c, m)
    BY <1>4 DEF d
  <2>2. d.block_height = c.block_height + 1 /\ d.empty_rounds = c.empty_rounds
    BY <1>3, <2>1, AdvanceRoundFields
  <2> QED
    BY <2>2 DEF d
<1> QED
  BY <1>2, <1>5, <1>6 DEF Mine, mine_ok, m, s

\* A skip that lands closes a height for nobody.
LEMMA LandSkip ==
    ASSUME SystemType, TypeOK, NEW tx \in pending, Land(tx),
           tx.call.kind # "mine"
    PROVE  /\ ata' = ata /\ blocks' = blocks
           /\ cfg'.block_height = cfg.block_height + 1
           /\ cfg'.empty_rounds = cfg.empty_rounds + 1
<1>1. AdvanceEmptyRound /\ blocks' = blocks
  BY DEF Land
<1>2. cfg \in EquiumConfig /\ cfg' = advance_round(cfg, DefaultKey) /\ ata' = ata
  BY <1>1 DEF TypeOK, AdvanceEmptyRound, tokens
<1>3. cfg'.block_height = cfg.block_height + 1
      /\ cfg'.empty_rounds = cfg.empty_rounds + 1
  BY <1>2, AdvanceRoundFields
<1> QED
  BY <1>1, <1>2, <1>3

\* A step that closes no height.
RoundGoesOn ==
    /\ cfg'.block_height = cfg.block_height
    /\ cfg'.empty_rounds = cfg.empty_rounds
    /\ cfg'.current_challenge = cfg.current_challenge
    /\ cfg'.current_epoch_reward = cfg.current_epoch_reward
    /\ ata' = ata /\ blocks' = blocks

\* All the steps but a landing are of this kind.
LEMMA OthersGoOn ==
    ASSUME TypeOK, [SystemNext]_all_vars
    PROVE  RoundGoesOn \/ \E tx \in pending : Land(tx)
<1>1. CASE \E m \in Miners : ClientStep(m) \/ LoseTouch(m) \/ FetchFails(m)
  BY <1>1, ClientFrame DEF RoundGoesOn
<1>2. CASE Deliver
  BY <1>2 DEF Deliver, Bounce, Expire, chain, RoundGoesOn
<1>3. CASE Serve \/ UNCHANGED all_vars
  BY <1>3 DEF Serve, all_vars, chain, RoundGoesOn
<1>4. CASE Surroundings
  <2>1. cfg \in EquiumConfig
    BY DEF TypeOK
  <2> QED
    BY <1>4, <2>1 DEF Surroundings, SetTarget, Tick, tokens, EquiumConfig,
                      RoundGoesOn
<1> QED
  BY <1>1, <1>2, <1>3, <1>4 DEF SystemNext

\* Sending a transaction, or failing to, changes the payer's client alone.
LEMMA SubmitEffect ==
    ASSUME SystemType, NEW m \in Miners, NEW c \in ClientStates,
           NEW call, NEW pc,
           Submit([payer |-> m, state |-> c, sent |-> c.sent], call, pc)
    PROVE  /\ \A o \in Miners \ {m} :
                  client'[o] = client[o] /\ result'[o] = result[o]
           /\ client'[m].cfg = c.cfg
           /\ client'[m].blocks_mined = c.blocks_mined
           /\ client'[m].total_reward_base = c.total_reward_base
           /\ \/ /\ client'[m].pc = pc /\ client'[m].sent = c.sent + 1
                 /\ result'[m] = "none"
                 /\ pending' = pending \cup
                        {[payer |-> m, seq |-> c.sent + 1, call |-> call]}
              \/ /\ client'[m].pc = "fetch" /\ client'[m].sent = c.sent
                 /\ pending' = pending /\ result' = result
<1>0. client \in [Miners -> ClientStates] /\ result \in [Miners -> Outcomes]
  BY DEF SystemType
<1>1. CASE /\ client' = [client EXCEPT ![m] = [c EXCEPT !.pc = pc, !.sent = @ + 1]]
           /\ pending' = pending \cup
                  {[payer |-> m, seq |-> c.sent + 1, call |-> call]}
           /\ result' = [result EXCEPT ![m] = "none"]
  BY <1>0, <1>1 DEF ClientStates
<1>2. CASE /\ client' = [client EXCEPT ![m] = [c EXCEPT !.pc = "fetch"]]
           /\ UNCHANGED <<pending, result>>
  BY <1>0, <1>2 DEF ClientStates
<1> QED
  BY <1>1, <1>2 DEF Submit

\* A client step touches no other client, nor what other clients learn.
LEMMA OtherClients ==
    ASSUME SystemType, TypeOK, NEW m \in Miners,
           ClientStep(m) \/ LoseTouch(m) \/ FetchFails(m),
           NEW o \in Miners \ {m}
    PROVE  /\ client'[o] = client[o] /\ result'[o] = result[o]
           /\ o \in gave_up' <=> o \in gave_up
<1>0. client \in [Miners -> ClientStates]
  BY DEF SystemType
<1>1. CASE Skip(m)
  <2> DEFINE c == [Fetched(m) EXCEPT !.last_advance_attempt_at = unix_ts]
  <2>1. c \in ClientStates
    BY FetchedType DEF ClientStates, TypeOK
  <2>2. gave_up' = gave_up
        /\ Submit([payer |-> m, state |-> c, sent |-> c.sent], AdvanceCall,
                  "confirm_advance")
    BY <1>1 DEF Skip
  <2> HIDE DEF c
  <2> QED
    BY <2>1, <2>2, SubmitEffect
<1>2. CASE \E hash \in SolutionHashes : Solved(m, hash)
  <2>1. client[m] \in ClientStates
    BY <1>0
  <2> QED
    BY <1>2, <2>1, SubmitEffect DEF Solved
<1>3. CASE Fetch(m)
  BY <1>0, <1>3 DEF Fetch, network
<1>4. CASE Exhausted(m) \/ Mined(m) \/ Advanced(m) \/ Rejected(m)
           \/ LoseTouch(m) \/ FetchFails(m)
  BY <1>0, <1>4 DEF Exhausted, Mined, Advanced, Rejected, LoseTouch, FetchFails,
     network
<1> QED
  BY <1>1, <1>2, <1>3, <1>4 DEF ClientStep

\* Whatever a client does, the snapshot it solves for is the one it had or what
\* the node serves.
LEMMA ClientSnapshot ==
    ASSUME SystemType, TypeOK, NEW m \in Miners,
           ClientStep(m) \/ LoseTouch(m) \/ FetchFails(m), NEW o \in Miners,
           client'[o].pc \in {"solve", "confirm_mine"}
    PROVE  \/ client'[o].cfg = served
           \/ /\ client[o].pc \in {"solve", "confirm_mine"}
              /\ client'[o].cfg = client[o].cfg
<1>0. client \in [Miners -> ClientStates]
  BY DEF SystemType
<1>1. CASE o # m
  BY <1>0, <1>1, OtherClients
<1>2. CASE o = m
  <2>1. CASE Fetch(m)
    <3>1. Fetched(m) \in ClientStates /\ Fetched(m).cfg = served
      BY <1>0, FetchedType DEF Fetched, ClientStates
    <3> QED
      BY <1>0, <1>2, <2>1, <3>1 DEF Fetch, ClientStates
  <2>2. CASE Skip(m)
    <3> DEFINE c == [Fetched(m) EXCEPT !.last_advance_attempt_at = unix_ts]
    <3>1. c \in ClientStates
      BY FetchedType DEF ClientStates, TypeOK
    <3>2. Submit([payer |-> m, state |-> c, sent |-> c.sent], AdvanceCall,
                 "confirm_advance")
      BY <2>2 DEF Skip
    <3> HIDE DEF c
    <3>3. client'[m].pc \in {"fetch", "confirm_advance"}
      BY <3>1, <3>2, SubmitEffect
    <3> QED
      BY <1>2, <3>3
  <2>3. CASE \E hash \in SolutionHashes : Solved(m, hash)
    <3>1. client[m] \in ClientStates /\ client[m].pc = "solve"
      BY <1>0, <2>3 DEF Solved
    <3>2. client'[m].cfg = client[m].cfg
      BY <2>3, <3>1, SubmitEffect DEF Solved
    <3> QED
      BY <1>2, <3>1, <3>2
  <2>4. CASE Mined(m)
    <3>1. client'[m].pc \in {"fetch", "stopped"}
      BY <1>0, <2>4 DEF Mined, ClientStates
    <3> QED
      BY <1>2, <3>1
  <2>5. CASE Exhausted(m) \/ Advanced(m) \/ Rejected(m) \/ LoseTouch(m)
             \/ FetchFails(m)
    <3>1. PICK pc \in {"fetch", "exited"} : client' = [client EXCEPT ![m].pc = pc]
      BY <2>5 DEF Exhausted, Advanced, Rejected, LoseTouch, FetchFails
    <3>2. client'[m].pc = pc
      BY <1>0, <3>1 DEF ClientStates
    <3> QED
      BY <1>2, <3>2
  <2> QED
    BY <2>1, <2>2, <2>3, <2>4, <2>5 DEF ClientStep
<1> QED
  BY <1>1, <1>2

\* Snapshots stay true: the chain only ever moves on from them.
LEMMA SnapshotsNext ==
    SystemType /\ TypeOK /\ Snapshots /\ [SystemNext]_all_vars => Snapshots'
<1> SUFFICES ASSUME SystemType, TypeOK, Snapshots, [SystemNext]_all_vars
             PROVE  Snapshots'
  OBVIOUS
<1>0. cfg.block_height \in Nat /\ served.block_height \in Nat
      /\ \A m \in Miners : client[m].cfg.block_height \in Nat
  BY DEF SystemType, TypeOK, EquiumConfig, ClientStates
<1>1. ASSUME NEW tx \in pending, Land(tx) PROVE Snapshots'
  <2>1. cfg'.block_height = cfg.block_height + 1
    BY <1>1, LandMine, LandSkip
  <2>2. client' = client /\ served' = served
    BY <1>1 DEF Land
  <2> QED
    BY <1>0, <2>1, <2>2 DEF Snapshots, Snapshot
<1>2. ASSUME RoundGoesOn PROVE Snapshots'
  <2>1. \A c : Snapshot(c, cfg) => Snapshot(c, cfg')
    BY <1>2 DEF RoundGoesOn, Snapshot
  <2>2. Snapshot(cfg, cfg)
    BY <1>0 DEF Snapshot
  <2>3. CASE \E m \in Miners : ClientStep(m) \/ LoseTouch(m) \/ FetchFails(m)
    <3>1. served' = served
      BY <2>3, ClientFrame
    <3>2. \A o \in Miners : client'[o].pc \in {"solve", "confirm_mine"}
              => Snapshot(client'[o].cfg, cfg)
      BY <2>3, ClientSnapshot DEF Snapshots
    <3> QED
      BY <2>1, <3>1, <3>2 DEF Snapshots
  <2>4. CASE Deliver \/ Serve \/ Surroundings \/ UNCHANGED all_vars
    <3>1. client' = client /\ served' \in {served, cfg}
      BY <2>4 DEF Deliver, Land, Bounce, Expire, Serve, Surroundings, all_vars,
                  network
    <3>2. Snapshot(served', cfg)
      BY <2>2, <3>1 DEF Snapshots
    <3> QED
      BY <2>1, <3>1, <3>2 DEF Snapshots
  <2> QED
    BY <2>3, <2>4 DEF SystemNext
<1> QED
  BY <1>1, <1>2, OthersGoOn

-----------------------------------------------------------------------------
(* Transactions in flight.                                                 *)

\* A client step that sends nothing; a client that stops waiting for a `mine`
\* has its answer or has given up.
MovesOn(m) ==
    /\ pending' = pending /\ result' = result
    /\ client'[m].sent = client[m].sent
    /\ client'[m].pc # "confirm_mine"
    /\ client[m].pc = "confirm_mine" => result[m] # "none" \/ m \in gave_up'
    /\ gave_up \subseteq gave_up'

\* A client step that sends a transaction and starts to wait for it.
Sends(m, tx) ==
    /\ client[m].pc # "confirm_mine"
    /\ gave_up' = gave_up
    /\ client'[m].sent = client[m].sent + 1
    /\ result'[m] = "none"
    /\ tx.payer = m /\ tx.seq = client'[m].sent
    /\ pending' = pending \cup {tx}
    /\ tx.call.kind = "mine" <=> client'[m].pc = "confirm_mine"
    /\ tx.call.kind = "mine" => SolvedFor(client'[m], tx)

\* Every client step is of one of the two kinds.
LEMMA ClientEffect ==
    ASSUME SystemType, TypeOK, NEW m \in Miners,
           ClientStep(m) \/ LoseTouch(m) \/ FetchFails(m)
    PROVE  MovesOn(m) \/ \E tx : Sends(m, tx)
<1>0. client \in [Miners -> ClientStates] /\ client[m] \in ClientStates
      /\ client[m].sent \in Nat
  BY DEF SystemType, ClientStates
<1>1. CASE Fetch(m)
  <2> DEFINE c == Fetched(m)
  <2>1. c \in ClientStates /\ c.sent = client[m].sent
    BY <1>0, FetchedType DEF Fetched, ClientStates
  <2>2. client' = [client EXCEPT ![m] = [c EXCEPT !.pc = "solve"]]
        /\ client[m].pc = "fetch"
        /\ UNCHANGED <<pending, result, gave_up>>
    BY <1>1 DEF Fetch, network
  <2> HIDE DEF c
  <2> QED
    BY <1>0, <2>1, <2>2 DEF MovesOn, ClientStates
<1>2. CASE Skip(m)
  <2> DEFINE c == [Fetched(m) EXCEPT !.last_advance_attempt_at = unix_ts]
             tx == [payer |-> m, seq |-> c.sent + 1, call |-> AdvanceCall]
  <2>1. Fetched(m) \in ClientStates /\ Fetched(m).sent = client[m].sent
    BY <1>0, FetchedType DEF Fetched, ClientStates
  <2>2. c \in ClientStates /\ c.sent = client[m].sent
    BY <2>1 DEF ClientStates, TypeOK
  <2>3. Submit([payer |-> m, state |-> c, sent |-> c.sent], AdvanceCall,
               "confirm_advance")
        /\ gave_up' = gave_up /\ client[m].pc = "fetch"
    BY <1>2 DEF Skip
  <2>4. /\ tx.payer = m /\ tx.seq = c.sent + 1 /\ tx.call.kind # "mine"
    BY DEF AdvanceCall
  <2> HIDE DEF c
  <2>5. \/ /\ client'[m].pc = "confirm_advance" /\ client'[m].sent = c.sent + 1
           /\ result'[m] = "none" /\ pending' = pending \cup {tx}
        \/ /\ client'[m].pc = "fetch" /\ client'[m].sent = c.sent
           /\ pending' = pending /\ result' = result
    BY <2>2, <2>3, SubmitEffect
  <2> HIDE DEF tx
  <2> QED
    BY <2>2, <2>3, <2>4, <2>5 DEF MovesOn, Sends
<1>3. ASSUME NEW hash \in SolutionHashes, Solved(m, hash)
      PROVE  MovesOn(m) \/ \E tx : Sends(m, tx)
  <2> DEFINE c == client[m]
             input == build_input(c.cfg.current_challenge, m, c.cfg.block_height)
             call == MineCall([input |-> input, hash |-> hash])
             tx == [payer |-> m, seq |-> c.sent + 1, call |-> call]
  <2>1. Submit([payer |-> m, state |-> c, sent |-> c.sent], call, "confirm_mine")
        /\ gave_up' = gave_up /\ client[m].pc = "solve"
        /\ hash < c.cfg.current_target
    BY <1>3 DEF Solved, hash_under_target
  <2>2. /\ tx.payer = m /\ tx.seq = c.sent + 1 /\ tx.call.kind = "mine"
        /\ tx.call.submission.input = input /\ tx.call.submission.hash = hash
    BY DEF MineCall
  <2> HIDE DEF call, input
  <2>3. /\ client'[m].cfg = c.cfg
        /\ \/ /\ client'[m].pc = "confirm_mine" /\ client'[m].sent = c.sent + 1
              /\ result'[m] = "none" /\ pending' = pending \cup {tx}
           \/ /\ client'[m].pc = "fetch" /\ client'[m].sent = c.sent
              /\ pending' = pending /\ result' = result
    BY <1>0, <2>1, SubmitEffect
  <2> HIDE DEF tx
  <2> QED
    BY <2>1, <2>2, <2>3 DEF MovesOn, Sends, SolvedFor, input
<1>4. CASE Mined(m)
  <2>1. client'[m].pc \in {"fetch", "stopped"}
        /\ client'[m].sent = client[m].sent
    BY <1>0, <1>4 DEF Mined, ClientStates
  <2> QED
    BY <1>4, <2>1 DEF Mined, MovesOn, network
<1>5. CASE Exhausted(m) \/ Advanced(m) \/ Rejected(m) \/ LoseTouch(m)
           \/ FetchFails(m)
  <2>1. PICK pc \in {"fetch", "exited"} : client' = [client EXCEPT ![m].pc = pc]
    BY <1>5 DEF Exhausted, Advanced, Rejected, LoseTouch, FetchFails
  <2>2. client'[m].pc = pc /\ client'[m].sent = client[m].sent
    BY <1>0, <2>1 DEF ClientStates
  <2>3. /\ pending' = pending /\ result' = result /\ gave_up \subseteq gave_up'
        /\ client[m].pc = "confirm_mine" => result[m] # "none" \/ m \in gave_up'
    BY <1>5 DEF Exhausted, Advanced, Rejected, LoseTouch, FetchFails, network
  <2> QED
    BY <2>1, <2>2, <2>3 DEF MovesOn
<1> QED
  BY <1>1, <1>2, <1>3, <1>4, <1>5 DEF ClientStep

\* A client step keeps what is known of the transactions in flight.
LEMMA ClientKeepsFlight ==
    ASSUME SystemType, TypeOK, Flight, NEW m \in Miners,
           ClientStep(m) \/ LoseTouch(m) \/ FetchFails(m)
    PROVE  Flight'
<1>0. \A tx \in pending : tx.payer \in Miners /\ tx.seq \in Nat
  BY DEF SystemType, Transactions
<1>1. client[m].sent \in Nat
  BY DEF SystemType, ClientStates
<1>2. ASSUME NEW tx \in pending, tx.payer # m PROVE InFlight(tx)'
  <2>1. client'[tx.payer] = client[tx.payer]
        /\ result'[tx.payer] = result[tx.payer]
        /\ (tx.payer \in gave_up' <=> tx.payer \in gave_up)
    BY <1>0, <1>2, OtherClients
  <2>2. InFlight(tx)
    BY DEF Flight
  <2> QED
    BY <2>1, <2>2 DEF InFlight
<1>3. CASE MovesOn(m)
  <2>1. ASSUME NEW tx \in pending, tx.payer = m PROVE InFlight(tx)'
    <3>1. InFlight(tx)
      BY DEF Flight
    <3> QED
      BY <1>3, <2>1, <3>1 DEF MovesOn, InFlight
  <2>2. pending' = pending
    BY <1>3 DEF MovesOn
  <2> QED
    BY <1>2, <2>1, <2>2 DEF Flight
<1>4. ASSUME NEW new, Sends(m, new) PROVE Flight'
  <2>1. pending' = pending \cup {new}
    BY <1>4 DEF Sends
  <2>2. ASSUME NEW tx \in pending, tx.payer = m
        PROVE  InFlight(tx)' /\ tx.seq # new.seq
    <3>1. InFlight(tx)
      BY DEF Flight
    <3> QED
      BY <1>0, <1>1, <1>4, <2>2, <3>1 DEF Sends, InFlight
  <2>3. InFlight(new)'
    BY <1>1, <1>4 DEF Sends, InFlight
  <2>4. \A t1, t2 \in pending' :
            (t1.payer = t2.payer /\ t1.seq = t2.seq) => t1 = t2
    BY <1>4, <2>1, <2>2 DEF Flight, Sends
  <2> QED
    BY <1>2, <2>1, <2>2, <2>3, <2>4 DEF Flight
<1> QED
  BY <1>3, <1>4, ClientEffect

\* What becomes of a transaction is told only to a client that waits for it.
LEMMA DeliverKeepsFlight ==
    ASSUME SystemType, Flight, NEW tx \in pending,
           Land(tx) \/ Bounce(tx) \/ Expire(tx)
    PROVE  Flight'
<1>0. tx.payer \in Miners
  BY DEF SystemType, Transactions
<1>1. /\ client' = client /\ gave_up' = gave_up /\ pending' = pending \ {tx}
      /\ \E outcome : Report(tx, outcome)
  BY DEF Land, Bounce, Expire
<1>2. ASSUME NEW t \in pending, t # tx PROVE InFlight(t)'
  <2>1. InFlight(t)
    BY DEF Flight
  <2>2. t.seq = client[t.payer].sent => result'[t.payer] = result[t.payer]
    <3> SUFFICES ASSUME t.seq = client[t.payer].sent
                 PROVE  result'[t.payer] = result[t.payer]
      OBVIOUS
    <3>1. t.payer # tx.payer \/ tx.seq # client[tx.payer].sent
      BY <1>2 DEF Flight
    <3> QED
      BY <1>0, <1>1, <3>1 DEF Report, SystemType
  <2> QED
    BY <1>1, <2>1, <2>2 DEF InFlight
<1> QED
  BY <1>1, <1>2 DEF Flight

\* Every step of the system does.
LEMMA FlightNext ==
    SystemType /\ TypeOK /\ Flight /\ [SystemNext]_all_vars => Flight'
<1> SUFFICES ASSUME SystemType, TypeOK, Flight, [SystemNext]_all_vars
             PROVE  Flight'
  OBVIOUS
<1>1. CASE \E m \in Miners : ClientStep(m) \/ LoseTouch(m) \/ FetchFails(m)
  BY <1>1, ClientKeepsFlight
<1>2. CASE Deliver
  BY <1>2, DeliverKeepsFlight DEF Deliver
<1>3. CASE Serve \/ Surroundings \/ UNCHANGED all_vars
  <2>1. UNCHANGED <<client, pending, result, gave_up>>
    BY <1>3 DEF Serve, Surroundings, all_vars, network
  <2> QED
    BY <2>1 DEF Flight, InFlight
<1> QED
  BY <1>1, <1>2, <1>3 DEF SystemNext

-----------------------------------------------------------------------------
(* The ledger of closed heights.                                           *)

\* One more block adds itself to its winner's blocks and its reward to what the
\* winner earned, and changes nothing for anybody else.
LEMMA OneMoreBlock ==
    ASSUME SystemType, IsFiniteSet(blocks), NEW new \in Events, new \notin blocks,
           blocks' = blocks \cup {new}, NEW o \in Miners
    PROVE  /\ Cardinality(WonBy(o)) \in Nat /\ EarnedBy(o) \in Nat
           /\ Cardinality(WonBy(o)') =
                  Cardinality(WonBy(o)) + (IF o = new.winner THEN 1 ELSE 0)
           /\ EarnedBy(o)' =
                  EarnedBy(o) + (IF o = new.winner THEN new.reward ELSE 0)
<1> DEFINE f == [b \in blocks |-> b.reward]
           g == [b \in blocks \cup {new} |-> b.reward]
           W == WonBy(o)
<1>1. IsFiniteSet(W) /\ W \subseteq blocks /\ new \notin W
  <2>1. W \subseteq blocks /\ new \notin W
    BY DEF WonBy
  <2> QED
    BY <2>1, FS_Subset
<1>2. \A b \in blocks : b.reward \in Nat
  BY DEF SystemType, Events
<1>3. new.reward \in Nat
  BY DEF Events
<1>4. \A b \in W : f[b] \in Nat /\ g[b] \in Nat /\ g[b] = f[b]
  BY <1>1, <1>2
<1>5. g[new] = new.reward
  OBVIOUS
<1>6. EarnedBy(o) = SumFunctionOnSet(f, W)
      /\ EarnedBy(o)' = SumFunctionOnSet(g, WonBy(o)')
  BY DEF EarnedBy
<1>7. WonBy(o)' = IF o = new.winner THEN W \cup {new} ELSE W
  BY DEF WonBy
<1> HIDE DEF f, g, W
<1>8. Cardinality(W) \in Nat /\ SumFunctionOnSet(f, W) \in Nat
  BY <1>1, <1>4, FS_CardinalityType, SumType
<1>9. SumFunctionOnSet(g, W) = SumFunctionOnSet(f, W)
  BY <1>1, <1>4, SumSame
<1>10. CASE o = new.winner
  <2>1. Cardinality(W \cup {new}) = Cardinality(W) + 1
    BY <1>1, FS_AddElement
  <2>2. SumFunctionOnSet(g, W \cup {new}) = g[new] + SumFunctionOnSet(g, W)
    BY <1>1, <1>3, <1>4, <1>5, SumAdd
  <2>3. SumFunctionOnSet(g, W \cup {new})
            = SumFunctionOnSet(f, W) + new.reward
    BY <1>3, <1>5, <1>8, <1>9, <2>2
  <2> QED
    BY <1>6, <1>7, <1>8, <1>10, <2>1, <2>3 DEF W
<1>11. CASE o # new.winner
  <2>1. Cardinality(W) = Cardinality(W) + 0
        /\ SumFunctionOnSet(f, W) = SumFunctionOnSet(f, W) + 0
    BY <1>8
  <2> QED
    BY <1>6, <1>7, <1>8, <1>9, <1>11, <2>1 DEF W
<1> QED
  BY <1>10, <1>11

\* The block of a landing `mine` is a new one.
LEMMA NewBlock ==
    ASSUME SystemType, TypeOK, Ledger, NEW tx \in pending, Land(tx),
           tx.call.kind = "mine", NEW new, new = BlockMined(tx.payer)
    PROVE  /\ new \in Events /\ new \notin blocks
           /\ blocks' = blocks \cup {new}
           /\ new.height = cfg.block_height /\ new.winner = tx.payer
           /\ new.reward = cfg.current_epoch_reward
<1>1. tx.payer \in Miners /\ cfg.block_height \in Nat
      /\ cfg.current_epoch_reward \in Nat
  BY DEF SystemType, Transactions, TypeOK, EquiumConfig
<1>2. new \in Events /\ new.height = cfg.block_height
      /\ new.winner = tx.payer /\ new.reward = cfg.current_epoch_reward
  BY <1>1 DEF BlockMined, Events
<1>3. new \notin blocks
  BY <1>1, <1>2 DEF Ledger, EveryHeightClosedOnce
<1> QED
  BY <1>2, <1>3, LandMine

\* Every step keeps the ledger in order.
LEMMA LedgerNext ==
    SystemType /\ TypeOK /\ Ledger /\ [SystemNext]_all_vars => Ledger'
<1> SUFFICES ASSUME SystemType, TypeOK, Ledger, [SystemNext]_all_vars
             PROVE  Ledger'
  OBVIOUS
<1>0. cfg.block_height \in Nat /\ cfg.empty_rounds \in Nat
      /\ IsFiniteSet(blocks) /\ Cardinality(blocks) \in Nat
      /\ \A b \in blocks : b.height \in Nat
  BY FS_CardinalityType DEF TypeOK, EquiumConfig, Ledger, SystemType, Events
<1>1. ASSUME NEW tx \in pending, Land(tx), tx.call.kind = "mine"
      PROVE  Ledger'
  <2> DEFINE new == BlockMined(tx.payer)
  <2>1. /\ new \in Events /\ new \notin blocks
        /\ blocks' = blocks \cup {new}
        /\ new.height = cfg.block_height /\ new.winner = tx.payer
        /\ new.reward = cfg.current_epoch_reward
    BY <1>1, NewBlock
  <2> HIDE DEF new
  <2>2. /\ ata' = [ata EXCEPT ![tx.payer] = @ + cfg.current_epoch_reward]
        /\ cfg'.block_height = cfg.block_height + 1
        /\ cfg'.empty_rounds = cfg.empty_rounds
    BY <1>1, LandMine
  <2>3. IsFiniteSet(blocks') /\ Cardinality(blocks') = Cardinality(blocks) + 1
    BY <1>0, <2>1, FS_AddElement
  <2>4. \A b \in blocks' : b.height < cfg'.block_height
    BY <1>0, <2>1, <2>2 DEF Ledger, EveryHeightClosedOnce
  <2>5. \A b1, b2 \in blocks' : b1.height = b2.height => b1 = b2
    BY <1>0, <2>1 DEF Ledger, EveryHeightClosedOnce
  <2>6. Cardinality(blocks') + cfg'.empty_rounds = cfg'.block_height
    BY <1>0, <2>2, <2>3 DEF Ledger, EveryHeightClosedOnce
  <2>7. ASSUME NEW o \in Miners PROVE ata'[o] = EarnedBy(o)'
    <3>1. EarnedBy(o)' =
              EarnedBy(o) + (IF o = new.winner THEN new.reward ELSE 0)
          /\ EarnedBy(o) \in Nat
      BY <1>0, <2>1, OneMoreBlock
    <3>2. ata \in [Miners -> Nat] /\ ata[o] = EarnedBy(o)
      BY DEF TypeOK, Ledger, EveryHeightClosedOnce
    <3> QED
      BY <2>1, <2>2, <3>1, <3>2
  <2> QED
    BY <2>3, <2>4, <2>5, <2>6, <2>7 DEF Ledger, EveryHeightClosedOnce
<1>2. ASSUME NEW tx \in pending, Land(tx), tx.call.kind # "mine"
      PROVE  Ledger'
  <2>1. /\ ata' = ata /\ blocks' = blocks
        /\ cfg'.block_height = cfg.block_height + 1
        /\ cfg'.empty_rounds = cfg.empty_rounds + 1
    BY <1>2, LandSkip
  <2>2. \A o : EarnedBy(o)' = EarnedBy(o)
    BY <2>1 DEF EarnedBy, WonBy
  <2> QED
    BY <1>0, <2>1, <2>2 DEF Ledger, EveryHeightClosedOnce
<1>3. ASSUME RoundGoesOn PROVE Ledger'
  <2>1. \A o : EarnedBy(o)' = EarnedBy(o)
    BY <1>3 DEF RoundGoesOn, EarnedBy, WonBy
  <2> QED
    BY <1>3, <2>1 DEF RoundGoesOn, Ledger, EveryHeightClosedOnce
<1> QED
  BY <1>1, <1>2, <1>3, OthersGoOn

-----------------------------------------------------------------------------
(* The books of the clients.                                               *)

\* Counting a block moves it from the pending part of a client's books to the
\* settled one; only a client that gives up may lose one.
LEMMA ClientBooks ==
    ASSUME SystemType, TypeOK, NEW m \in Miners,
           ClientStep(m) \/ LoseTouch(m) \/ FetchFails(m)
    PROVE  /\ Blocks(m)' <= Blocks(m) /\ Reward(m)' <= Reward(m)
           /\ m \in gave_up' \/ (Blocks(m)' = Blocks(m)
                                 /\ Reward(m)' = Reward(m))
<1> DEFINE b == client[m].blocks_mined
           r == client[m].total_reward_base
           e == client[m].cfg.current_epoch_reward
           Same == /\ client'[m].blocks_mined = b
                   /\ client'[m].total_reward_base = r
<1>0. client \in [Miners -> ClientStates] /\ client[m] \in ClientStates
      /\ b \in Nat /\ r \in Nat /\ e \in Nat
  BY DEF SystemType, ClientStates, EquiumConfig
<1>1. ASSUME Same, ~Uncounted(m), ~Uncounted(m)'
      PROVE  Blocks(m)' = Blocks(m) /\ Reward(m)' = Reward(m)
  BY <1>1 DEF Blocks, Reward
<1>2. Blocks(m) \in Nat /\ Reward(m) \in Nat
  BY <1>0 DEF Blocks, Reward
<1>3. CASE Fetch(m)
  <2> DEFINE c == Fetched(m)
  <2>1. c \in ClientStates /\ c.blocks_mined = b /\ c.total_reward_base = r
    BY <1>0, FetchedType DEF Fetched, ClientStates
  <2>2. client' = [client EXCEPT ![m] = [c EXCEPT !.pc = "solve"]]
        /\ client[m].pc = "fetch"
    BY <1>3 DEF Fetch
  <2> HIDE DEF c
  <2>3. Same /\ ~Uncounted(m) /\ ~Uncounted(m)'
    BY <1>0, <2>1, <2>2 DEF Uncounted, ClientStates
  <2> QED
    BY <1>1, <1>2, <2>3
<1>4. CASE Skip(m)
  <2> DEFINE c == [Fetched(m) EXCEPT !.last_advance_attempt_at = unix_ts]
  <2>1. Fetched(m) \in ClientStates /\ Fetched(m).blocks_mined = b
        /\ Fetched(m).total_reward_base = r
    BY <1>0, FetchedType DEF Fetched, ClientStates
  <2>2. c \in ClientStates /\ c.blocks_mined = b /\ c.total_reward_base = r
    BY <2>1 DEF ClientStates, TypeOK
  <2>3. Submit([payer |-> m, state |-> c, sent |-> c.sent], AdvanceCall,
               "confirm_advance")
        /\ client[m].pc = "fetch"
    BY <1>4 DEF Skip
  <2> HIDE DEF c
  <2>4. Same /\ client'[m].pc \in {"confirm_advance", "fetch"}
    BY <2>2, <2>3, SubmitEffect
  <2>5. ~Uncounted(m) /\ ~Uncounted(m)'
    BY <2>3, <2>4 DEF Uncounted
  <2> QED
    BY <1>1, <1>2, <2>4, <2>5
<1>5. CASE \E hash \in SolutionHashes : Solved(m, hash)
  <2>1. Same /\ (client'[m].pc = "fetch" \/ result'[m] = "none")
    BY <1>0, <1>5, SubmitEffect DEF Solved
  <2>2. client[m].pc = "solve"
    BY <1>5 DEF Solved
  <2>3. ~Uncounted(m) /\ ~Uncounted(m)'
    BY <2>1, <2>2 DEF Uncounted
  <2> QED
    BY <1>1, <1>2, <2>1, <2>3
<1>6. CASE Mined(m)
  <2>1. /\ client'[m].blocks_mined = b + 1
        /\ client'[m].total_reward_base = r + e
        /\ client'[m].pc \in {"fetch", "stopped"}
    BY <1>0, <1>6 DEF Mined, ClientStates
  <2>2. Uncounted(m) /\ ~Uncounted(m)'
    BY <1>6, <2>1 DEF Mined, Uncounted
  <2>3. Blocks(m)' = Blocks(m) /\ Reward(m)' = Reward(m)
    BY <2>1, <2>2, <1>0 DEF Blocks, Reward
  <2> QED
    BY <1>2, <2>3
<1>7. CASE Exhausted(m) \/ Advanced(m) \/ Rejected(m) \/ LoseTouch(m)
           \/ FetchFails(m)
  <2>1. PICK pc \in {"fetch", "exited"} : client' = [client EXCEPT ![m].pc = pc]
    BY <1>7 DEF Exhausted, Advanced, Rejected, LoseTouch, FetchFails
  <2>2. Same /\ client'[m].pc = pc
    BY <1>0, <2>1 DEF ClientStates
  <2>3. ~Uncounted(m)'
    BY <2>1, <2>2 DEF Uncounted
  <2>4. m \in gave_up' \/ ~Uncounted(m)
    BY <1>7 DEF Exhausted, Advanced, Rejected, LoseTouch, FetchFails, Uncounted
  <2>5. Blocks(m)' = b /\ Reward(m)' = r
    BY <1>0, <2>2, <2>3 DEF Blocks, Reward
  <2>6. b <= Blocks(m) /\ r <= Reward(m)
    BY <1>0 DEF Blocks, Reward
  <2>7. CASE ~Uncounted(m)
    BY <1>1, <1>2, <2>2, <2>3, <2>7
  <2>8. CASE m \in gave_up'
    BY <2>5, <2>6, <2>8
  <2> QED
    BY <2>4, <2>7, <2>8
<1> QED
  BY <1>3, <1>4, <1>5, <1>6, <1>7 DEF ClientStep

\* A landing `mine` reaches its client's books or a client that gave up on it:
\* a client that waits for it is about to count one block at the chain's reward.
LEMMA LandBooks ==
    ASSUME SystemType, TypeOK, Snapshots, Flight, NEW tx \in pending, Land(tx),
           tx.call.kind = "mine", NEW o \in Miners
    PROVE  \/ /\ o = tx.payer
              /\ Blocks(o)' = Blocks(o) + 1
              /\ Reward(o)' = Reward(o) + cfg.current_epoch_reward
           \/ /\ o = tx.payer => o \in gave_up
              /\ Blocks(o)' = Blocks(o) /\ Reward(o)' = Reward(o)
<1> DEFINE c == client[o]
           e == c.cfg.current_epoch_reward
<1>0. /\ c.blocks_mined \in Nat /\ c.total_reward_base \in Nat /\ e \in Nat
      /\ c.cfg.block_height \in Nat
      /\ result \in [Miners -> Outcomes]
  BY DEF SystemType, ClientStates, EquiumConfig
<1>1. client' = client /\ gave_up' = gave_up /\ Report(tx, "ok")
  BY DEF Land
<1>2. InFlight(tx)
  BY DEF Flight
<1>3. CASE o = tx.payer /\ tx.seq = c.sent /\ c.pc = "confirm_mine"
  <2>1. result[o] = "none" /\ result'[o] = "ok" /\ SolvedFor(c, tx)
    BY <1>0, <1>1, <1>2, <1>3 DEF InFlight, Report
  <2>2. ~Uncounted(o) /\ Uncounted(o)'
    BY <1>1, <1>3, <2>1 DEF Uncounted
  <2>3. c.cfg.block_height = cfg.block_height
    <3>1. tx.call.submission.input =
              build_input(c.cfg.current_challenge, tx.payer, c.cfg.block_height)
      BY <2>1 DEF SolvedFor
    <3>2. tx.call.submission.input =
              build_input(cfg.current_challenge, tx.payer, cfg.block_height)
      BY LandMine DEF verify_submission, is_valid_solution
    <3> QED
      BY <3>1, <3>2 DEF build_input
  <2>4. e = cfg.current_epoch_reward
    BY <1>3, <2>3 DEF Snapshots, Snapshot
  <2>5. Blocks(o)' = Blocks(o) + 1 /\ Reward(o)' = Reward(o) + e
    BY <1>0, <1>1, <2>2 DEF Blocks, Reward
  <2> QED
    BY <1>3, <2>4, <2>5
<1>4. CASE ~(o = tx.payer /\ tx.seq = c.sent /\ c.pc = "confirm_mine")
  <2>1. o = tx.payer => o \in gave_up
    BY <1>2, <1>4 DEF InFlight
  <2>2. c.pc = "confirm_mine" => result'[o] = result[o]
    BY <1>0, <1>1, <1>4 DEF Report
  <2>3. Uncounted(o)' = Uncounted(o)
    BY <1>1, <2>2 DEF Uncounted
  <2>4. Blocks(o)' = Blocks(o) /\ Reward(o)' = Reward(o)
    BY <1>1, <2>3 DEF Blocks, Reward
  <2> QED
    BY <2>1, <2>4
<1> QED
  BY <1>3, <1>4

\* Nothing else that becomes of a transaction reaches a client's books: a skip
\* is not counted, and a refusal is not a success.
LEMMA OtherDeliveriesKeepBooks ==
    ASSUME SystemType, TypeOK, Flight, NEW tx \in pending,
           \/ Land(tx) /\ tx.call.kind # "mine"
           \/ Bounce(tx) \/ Expire(tx),
           NEW o \in Miners
    PROVE  Blocks(o)' = Blocks(o) /\ Reward(o)' = Reward(o)
<1>1. client' = client
  BY DEF Land, Bounce, Expire
<1>2. InFlight(tx) /\ result \in [Miners -> Outcomes]
  BY DEF Flight, SystemType
<1>3. \E outcome : /\ Report(tx, outcome)
                   /\ outcome = "ok" => tx.call.kind # "mine"
  <2>1. classify_submit_err(tx) # "ok"
    BY DEF classify_submit_err
  <2>2. CASE Land(tx) /\ tx.call.kind # "mine"
    BY <2>2 DEF Land
  <2>3. CASE Bounce(tx)
    BY <2>1, <2>3 DEF Bounce
  <2>4. CASE Expire(tx)
    <3>1. \E reason \in classify_expiry(tx) : Report(tx, reason)
      BY <2>4 DEF Expire
    <3>2. "ok" \notin classify_expiry(tx)
      BY DEF classify_expiry
    <3> QED
      BY <3>1, <3>2
  <2> QED
    BY <2>2, <2>3, <2>4
<1>4. Uncounted(o)' = Uncounted(o)
  <2>1. CASE o = tx.payer /\ tx.seq = client[o].sent
             /\ client[o].pc = "confirm_mine"
    <3>1. result[o] = "none" /\ tx.call.kind = "mine"
      BY <1>2, <2>1 DEF InFlight, SolvedFor
    <3>2. result'[o] # "ok"
      BY <1>2, <1>3, <2>1, <3>1 DEF Report
    <3> QED
      BY <3>1, <3>2 DEF Uncounted
  <2>2. CASE ~(o = tx.payer /\ tx.seq = client[o].sent
               /\ client[o].pc = "confirm_mine")
    <3>1. client[o].pc = "confirm_mine" => result'[o] = result[o]
      BY <1>2, <1>3, <2>2 DEF Report
    <3> QED
      BY <1>1, <3>1 DEF Uncounted
  <2> QED
    BY <2>1, <2>2
<1> QED
  BY <1>1, <1>4 DEF Blocks, Reward

\* Every step keeps the books in line with the ledger.
LEMMA BooksNext ==
    /\ SystemType /\ TypeOK /\ Snapshots /\ Flight /\ Ledger /\ Books
    /\ [SystemNext]_all_vars
    => Books'
<1> SUFFICES ASSUME SystemType, TypeOK, Snapshots, Flight, Ledger, Books,
                    [SystemNext]_all_vars, NEW o \in Miners
             PROVE  /\ Blocks(o)' <= Cardinality(WonBy(o)')
                    /\ Reward(o)' <= ata'[o]
                    /\ o \notin gave_up' =>
                           /\ Blocks(o)' = Cardinality(WonBy(o)')
                           /\ Reward(o)' = ata'[o]
  BY DEF Books
<1> DEFINE won == Cardinality(WonBy(o))
<1>0. /\ Blocks(o) <= won /\ Reward(o) <= ata[o]
      /\ o \notin gave_up => Blocks(o) = won /\ Reward(o) = ata[o]
  BY DEF Books
<1>1. /\ Blocks(o) \in Nat /\ Reward(o) \in Nat /\ won \in Nat /\ ata[o] \in Nat
      /\ cfg.current_epoch_reward \in Nat
  <2>1. Blocks(o) \in Nat /\ Reward(o) \in Nat
    BY DEF SystemType, ClientStates, EquiumConfig, Blocks, Reward
  <2>2. WonBy(o) \subseteq blocks /\ IsFiniteSet(blocks)
    BY DEF WonBy, Ledger
  <2>3. won \in Nat
    BY <2>2, FS_Subset, FS_CardinalityType
  <2> QED
    BY <2>1, <2>3 DEF TypeOK, EquiumConfig
<1>2. CASE \E m \in Miners : ClientStep(m) \/ LoseTouch(m) \/ FetchFails(m)
  <2>1. PICK m \in Miners : ClientStep(m) \/ LoseTouch(m) \/ FetchFails(m)
    BY <1>2
  <2>2. ata' = ata /\ blocks' = blocks
    BY <2>1, ClientFrame
  <2>3. Cardinality(WonBy(o)') = won
    BY <2>2 DEF WonBy
  <2>4. CASE o = m
    <3>1. /\ Blocks(o)' <= Blocks(o) /\ Reward(o)' <= Reward(o)
          /\ o \in gave_up' \/ (Blocks(o)' = Blocks(o) /\ Reward(o)' = Reward(o))
      BY <2>1, <2>4, ClientBooks
    <3>2. o \notin gave_up' => o \notin gave_up
      BY <2>1 DEF ClientStep, Fetch, Skip, Exhausted, Solved, Mined, Advanced,
                  Rejected, LoseTouch, FetchFails
    <3>3. Blocks(o)' \in Int /\ Reward(o)' \in Int
      <4>1. SystemType'
        BY SystemTypeNext
      <4> QED
        BY <4>1 DEF SystemType, ClientStates, EquiumConfig, Blocks, Reward
    <3> QED
      BY <1>0, <1>1, <2>2, <2>3, <3>1, <3>2, <3>3
  <2>5. CASE o # m
    <3>1. /\ client'[o] = client[o] /\ result'[o] = result[o]
          /\ o \in gave_up' <=> o \in gave_up
      BY <2>1, <2>5, OtherClients
    <3>2. Blocks(o)' = Blocks(o) /\ Reward(o)' = Reward(o)
      BY <3>1 DEF Blocks, Reward, Uncounted
    <3> QED
      BY <1>0, <2>2, <2>3, <3>1, <3>2
  <2> QED
    BY <2>4, <2>5
<1>3. ASSUME NEW tx \in pending, Land(tx), tx.call.kind = "mine"
      PROVE  /\ Blocks(o)' <= Cardinality(WonBy(o)')
             /\ Reward(o)' <= ata'[o]
             /\ o \notin gave_up' => /\ Blocks(o)' = Cardinality(WonBy(o)')
                                     /\ Reward(o)' = ata'[o]
  <2> DEFINE new == BlockMined(tx.payer)
  <2>1. /\ new \in Events /\ new \notin blocks
        /\ blocks' = blocks \cup {new} /\ new.winner = tx.payer
    BY <1>3, NewBlock
  <2> HIDE DEF new
  <2>2. Cardinality(WonBy(o)') = won + (IF o = tx.payer THEN 1 ELSE 0)
    BY <2>1, OneMoreBlock DEF Ledger
  <2>3. ata'[o] = ata[o] + (IF o = tx.payer THEN cfg.current_epoch_reward ELSE 0)
    BY <1>1, <1>3, LandMine DEF TypeOK
  <2>4. gave_up' = gave_up
    BY <1>3 DEF Land
  <2>5. \/ /\ o = tx.payer
           /\ Blocks(o)' = Blocks(o) + 1
           /\ Reward(o)' = Reward(o) + cfg.current_epoch_reward
        \/ /\ o = tx.payer => o \in gave_up
           /\ Blocks(o)' = Blocks(o) /\ Reward(o)' = Reward(o)
    BY <1>3, LandBooks
  <2> HIDE DEF won
  <2> QED
    BY <1>0, <1>1, <2>2, <2>3, <2>4, <2>5
<1>4. ASSUME NEW tx \in pending,
             \/ Land(tx) /\ tx.call.kind # "mine"
             \/ Bounce(tx) \/ Expire(tx)
      PROVE  /\ Blocks(o)' <= Cardinality(WonBy(o)')
             /\ Reward(o)' <= ata'[o]
             /\ o \notin gave_up' => /\ Blocks(o)' = Cardinality(WonBy(o)')
                                     /\ Reward(o)' = ata'[o]
  <2>1. ata' = ata /\ blocks' = blocks /\ gave_up' = gave_up
    BY <1>4, LandSkip DEF Land, Bounce, Expire, chain
  <2>2. Cardinality(WonBy(o)') = won
    BY <2>1 DEF WonBy
  <2>3. Blocks(o)' = Blocks(o) /\ Reward(o)' = Reward(o)
    BY <1>4, OtherDeliveriesKeepBooks
  <2> QED
    BY <1>0, <2>1, <2>2, <2>3
<1>5. CASE Serve \/ Surroundings \/ UNCHANGED all_vars
  <2>1. UNCHANGED <<client, result, gave_up, blocks, ata>>
    BY <1>5 DEF Serve, Surroundings, SetTarget, Tick, tokens, all_vars, network,
                chain
  <2>2. Cardinality(WonBy(o)') = won
    BY <2>1 DEF WonBy
  <2>3. Blocks(o)' = Blocks(o) /\ Reward(o)' = Reward(o)
    BY <2>1 DEF Blocks, Reward, Uncounted
  <2> QED
    BY <1>0, <2>1, <2>2, <2>3
<1> QED
  BY <1>2, <1>3, <1>4, <1>5 DEF SystemNext, Deliver

-----------------------------------------------------------------------------
(* What a client is told.                                                  *)

\* The reason a client is given for a refused block is the true one.
LEMMA BounceTellsWhy ==
    ASSUME SystemType, TypeOK, Snapshots, Flight,
           NEW tx \in pending, Bounce(tx),
           tx.seq = client[tx.payer].sent, client[tx.payer].pc = "confirm_mine",
           NEW c, c = client[tx.payer].cfg
    PROVE  /\ classify_submit_err(tx) = "stale challenge" =>
                  cfg.block_height > c.block_height
           /\ classify_submit_err(tx) = "above target" =>
                  /\ cfg.block_height = c.block_height
                  /\ cfg.current_target < c.current_target
<1> DEFINE s == tx.call.submission
<1>1. tx \in Transactions /\ tx.payer \in Miners
  BY DEF SystemType, Transactions
<1>2. c \in EquiumConfig /\ cfg \in EquiumConfig
  BY <1>1 DEF SystemType, ClientStates, TypeOK
<1>3. SolvedFor(client[tx.payer], tx)
  BY DEF Flight, InFlight
<1>4. /\ s.input = build_input(c.current_challenge, tx.payer, c.block_height)
      /\ s.hash < c.current_target /\ tx.call.kind = "mine"
  BY <1>3 DEF SolvedFor
<1>5. s.hash \in Nat /\ c.current_target \in Nat /\ cfg.current_target \in Nat
  <2>1. tx.call \in MineCalls
    BY <1>1, <1>4 DEF Transactions, MineCalls, AdvanceCall
  <2>2. s.hash \in SolutionHashes
    BY <2>1 DEF MineCalls
  <2>3. s.hash \in Targets /\ c.current_target \in Targets
        /\ cfg.current_target \in Targets
    BY <1>2, <2>2, ProgramAssumption DEF EquiumConfig
  <2>4. Targets \subseteq Nat
    BY DEF Targets
  <2> QED
    BY <2>3, <2>4
<1>6. Snapshot(c, cfg)
  BY <1>1 DEF Snapshots
<1>7. c.block_height \in Nat /\ cfg.block_height \in Nat
  BY <1>2 DEF EquiumConfig
<1>8. ~is_valid_solution(tx.payer, s) => cfg.block_height > c.block_height
  BY <1>4, <1>6, <1>7 DEF is_valid_solution, Snapshot
<1>9. is_valid_solution(tx.payer, s) => cfg.block_height = c.block_height
  BY <1>4 DEF is_valid_solution, build_input
<1>10. ~hash_under_target(s.hash, cfg.current_target)
           => cfg.current_target < c.current_target
  BY <1>4, <1>5 DEF hash_under_target
<1>11. tx.call.kind # "advance"
  BY <1>4
<1> DEFINE valid == is_valid_solution(tx.payer, s)
           under == hash_under_target(s.hash, cfg.current_target)
<1>12. classify_submit_err(tx) = IF ~valid THEN "stale challenge"
                                 ELSE IF ~under THEN "above target"
                                 ELSE "submit error"
  BY <1>11 DEF classify_submit_err
<1> HIDE DEF valid, under
<1>13. ~valid => cfg.block_height > c.block_height
  BY <1>8 DEF valid
<1>14. valid /\ ~under => /\ cfg.block_height = c.block_height
                         /\ cfg.current_target < c.current_target
  BY <1>9, <1>10 DEF valid, under
<1> QED
  BY <1>12, <1>13, <1>14

\* No step tells a client anything but the truth about its block.
LEMMA ReasonNext ==
    /\ SystemType /\ TypeOK /\ Snapshots /\ Flight
    /\ [SystemNext]_all_vars
    => [ReasonStep]_all_vars
<1> SUFFICES ASSUME SystemType, TypeOK, Snapshots, Flight, SystemNext,
                    NEW o \in Miners,
                    client[o].pc = "confirm_mine", result'[o] # result[o]
             PROVE  /\ result'[o] = "stale challenge" =>
                           cfg.block_height > client[o].cfg.block_height
                    /\ result'[o] = "above target" =>
                           /\ cfg.block_height = client[o].cfg.block_height
                           /\ cfg.current_target < client[o].cfg.current_target
  BY DEF ReasonStep
<1>1. CASE \E m \in Miners : ClientStep(m) \/ LoseTouch(m) \/ FetchFails(m)
  <2>1. PICK m \in Miners : ClientStep(m) \/ LoseTouch(m) \/ FetchFails(m)
    BY <1>1
  <2>2. o = m
    BY <2>1, OtherClients
  <2>3. MovesOn(o) \/ \E tx : Sends(o, tx)
    BY <2>1, <2>2, ClientEffect
  <2> QED
    BY <2>3 DEF MovesOn, Sends
<1>2. CASE Deliver
  <2>1. PICK tx \in pending : Land(tx) \/ Bounce(tx) \/ Expire(tx)
    BY <1>2 DEF Deliver
  <2>2. result \in [Miners -> Outcomes]
    BY DEF SystemType
  <2>3. CASE Land(tx)
    <3>1. Report(tx, "ok")
      BY <2>3 DEF Land
    <3> QED
      BY <2>2, <3>1 DEF Report
  <2>4. CASE Expire(tx)
    <3>1. PICK reason \in classify_expiry(tx) : Report(tx, reason)
      BY <2>4 DEF Expire
    <3>2. reason \notin {"stale challenge", "above target"}
      BY DEF classify_expiry
    <3> QED
      BY <2>2, <3>1, <3>2 DEF Report
  <2>5. CASE Bounce(tx)
    <3> DEFINE outcome == classify_submit_err(tx)
    <3>1. Report(tx, outcome)
      BY <2>5 DEF Bounce
    <3> HIDE DEF outcome
    <3>2. /\ o = tx.payer /\ tx.seq = client[o].sent
          /\ result'[o] = outcome
      BY <2>2, <3>1 DEF Report
    <3> QED
      BY <2>5, <3>2, BounceTellsWhy DEF outcome
  <2> QED
    BY <2>1, <2>3, <2>4, <2>5
<1>3. CASE Serve \/ Surroundings
  BY <1>3 DEF Serve, Surroundings, network
<1> QED
  BY <1>1, <1>2, <1>3 DEF SystemNext

-----------------------------------------------------------------------------
(* The invariant of the whole system.                                      *)

SystemInvariant ==
    /\ SupplyInvariant
    /\ RewardInStep
    /\ SystemType
    /\ Snapshots
    /\ Flight
    /\ Ledger
    /\ Books

\* It holds when the miners are started.
LEMMA SystemInvariantInit == SystemInit => SystemInvariant
<1> SUFFICES ASSUME SystemInit PROVE SystemInvariant
  OBVIOUS
<1>1. SupplyInvariant /\ RewardInStep /\ SystemType
  BY LaunchState, SystemTypeInit
<1>2. cfg.block_height = 0 /\ cfg.empty_rounds = 0
  BY DEF SystemInit, LaunchConfig, NoConfig
<1>3. Snapshots
  BY <1>2 DEF SystemInit, Snapshots, Snapshot
<1>4. Flight
  BY DEF SystemInit, Flight
<1>5. IsFiniteSet(blocks) /\ Cardinality(blocks) = 0 /\ blocks = {}
  BY FS_EmptySet DEF SystemInit
<1>6. ASSUME NEW m \in Miners
      PROVE  WonBy(m) = {} /\ EarnedBy(m) = 0 /\ ata[m] = 0
  <2>1. WonBy(m) = {}
    BY <1>5 DEF WonBy
  <2>2. EarnedBy(m) = 0
    BY <2>1, SumEmpty DEF EarnedBy
  <2> QED
    BY <2>1, <2>2 DEF SystemInit
<1>7. Ledger
  BY <1>2, <1>5, <1>6 DEF Ledger, EveryHeightClosedOnce
<1>8. Books
  <2> SUFFICES ASSUME NEW m \in Miners
               PROVE  Blocks(m) = 0 /\ Reward(m) = 0
                      /\ Cardinality(WonBy(m)) = 0 /\ ata[m] = 0
    BY DEF Books
  <2>1. Blocks(m) = 0 /\ Reward(m) = 0
    BY DEF SystemInit, Blocks, Reward, Uncounted
  <2> QED
    BY <1>6, <2>1, FS_EmptySet
<1> QED
  BY <1>1, <1>3, <1>4, <1>7, <1>8 DEF SystemInvariant

\* Every step of the system, whoever takes it, keeps it.
LEMMA SystemInvariantNext ==
    SystemInvariant /\ [SystemNext]_all_vars => SystemInvariant'
<1> SUFFICES ASSUME SystemInvariant, [SystemNext]_all_vars
             PROVE  SystemInvariant'
  OBVIOUS
<1>1. TypeOK /\ NothingBeforeLaunch
  BY DEF SystemInvariant, SupplyInvariant
<1>2. [Next]_vars
  BY SystemStepIsProgramStep DEF SystemInvariant
<1>3. SupplyInvariant' /\ RewardInStep'
  BY <1>1, <1>2, SupplyNext, ScheduleInductive DEF SystemInvariant
<1>4. SystemType' /\ Snapshots' /\ Flight'
  BY <1>1, SystemTypeNext, SnapshotsNext, FlightNext DEF SystemInvariant
<1>5. Ledger' /\ Books'
  BY <1>1, LedgerNext, BooksNext DEF SystemInvariant
<1> QED
  BY <1>3, <1>4, <1>5 DEF SystemInvariant

\* It holds in every state, for any miners, schedule, delays and losses.
THEOREM SystemInvariantHolds == SystemSpec => []SystemInvariant
  BY SystemInvariantInit, SystemInvariantNext, PTL DEF SystemSpec

-----------------------------------------------------------------------------
(* What follows from it.                                                   *)

\* The miners reach the program through its instructions alone, so what is
\* promised of it survives them: the next reward is covered by the cap and the
\* vault, the schedule is the pure one, skips are paced, windows anchored and
\* retargets damped, a solution wins once, only scheduled rewards are paid, and
\* every step of the clients and the network is a step of Emission or a stutter.
THEOREM MinersKeepProgramSafe ==
    SystemSpec => /\ [][Next]_vars
                  /\ [](SupplyCovered /\ ScheduleInStep /\ EmptyRoundsPaced)
                  /\ []WindowAnchored
                  /\ PayoutFollowsSchedule /\ RetargetDamped /\ SolutionWinsOnce
                  /\ [][Promise!Next]_(Promise!vars)
<1>1. SystemInvariant /\ [SystemNext]_all_vars => [Next]_vars
  BY SystemStepIsProgramStep DEF SystemInvariant
<1>2. SystemInvariant => SupplyCovered /\ EmptyRoundsPaced
  BY InvariantCovers DEF SystemInvariant, SupplyInvariant
<1>3. SystemInvariant => ScheduleInStep
  BY DEF SystemInvariant, SupplyInvariant, RewardInStep, ScheduleInStep
<1>4. SystemInvariant /\ [SystemNext]_all_vars => [PayoutStep]_vars
  BY <1>1, ScheduleInductive DEF SystemInvariant, SupplyInvariant
<1>5. SystemInvariant /\ [SystemNext]_all_vars => [RetargetStep]_vars
  BY <1>1, StepDamped DEF SystemInvariant, SupplyInvariant
<1>6. SystemInvariant /\ [SystemNext]_all_vars => [SolutionStep]_vars
  BY <1>1, StepBindsSolutions
<1>7. SystemInvariant /\ [SystemNext]_all_vars => [Promise!Next]_(Promise!vars)
  BY <1>1, EmissionNext DEF SystemInvariant
<1>8. SystemInit => WindowAnchored
  <2> SUFFICES ASSUME SystemInit PROVE WindowAnchored
    OBVIOUS
  <2>1. PICK t \in AdminTargets : cfg = LaunchConfig(t)
    BY DEF SystemInit
  <2>2. cfg.last_retarget_unix_ts = 0 /\ cfg.current_round_open_unix_ts = 0
    BY <2>1 DEF LaunchConfig, NoConfig
  <2> QED
    BY <2>2 DEF WindowAnchored
<1>9. SystemInvariant /\ WindowAnchored /\ [SystemNext]_all_vars
          => WindowAnchored'
  BY <1>1, WindowInductive DEF SystemInvariant, SupplyInvariant
<1> QED
  BY <1>1, <1>2, <1>3, <1>4, <1>5, <1>6, <1>7, <1>8, <1>9,
     SystemInvariantHolds, PTL
     DEF SystemSpec, PayoutFollowsSchedule, RetargetDamped, SolutionWinsOnce

\* Every closed height was won exactly once or skipped, whatever transactions
\* raced, were repeated after a lost answer or came late, and what a wallet
\* holds is what the blocks it won paid.
THEOREM EveryHeightAlwaysClosedOnce == SystemSpec => []EveryHeightClosedOnce
<1>1. SystemInvariant => EveryHeightClosedOnce
  BY DEF SystemInvariant, Ledger
<1> QED
  BY <1>1, SystemInvariantHolds, PTL

\* A client never counts a block or a reward that the chain did not give it,
\* and one that never gave up on an answer knows all of them when it solves.
THEOREM BooksAlwaysMatchChain == SystemSpec => []BooksMatchChain
<1>1. SystemInvariant => BooksMatchChain
  <2> SUFFICES ASSUME SystemInvariant, NEW m \in Miners
               PROVE  /\ client[m].blocks_mined <= Cardinality(WonBy(m))
                      /\ client[m].total_reward_base <= ata[m]
                      /\ (client[m].pc = "solve" /\ m \notin gave_up) =>
                             /\ client[m].blocks_mined = Cardinality(WonBy(m))
                             /\ client[m].total_reward_base = ata[m]
    BY DEF BooksMatchChain
  <2> DEFINE b == client[m].blocks_mined
             r == client[m].total_reward_base
             e == client[m].cfg.current_epoch_reward
  <2>1. b \in Nat /\ r \in Nat /\ e \in Nat /\ ata[m] \in Nat
    BY DEF SystemInvariant, SupplyInvariant, SystemType, TypeOK, ClientStates,
           EquiumConfig
  <2>2. Cardinality(WonBy(m)) \in Nat
    <3>1. WonBy(m) \subseteq blocks /\ IsFiniteSet(blocks)
      BY DEF WonBy, SystemInvariant, Ledger
    <3> QED
      BY <3>1, FS_Subset, FS_CardinalityType
  <2>3. /\ Blocks(m) = IF Uncounted(m) THEN b + 1 ELSE b
        /\ Reward(m) = IF Uncounted(m) THEN r + e ELSE r
    BY <2>1 DEF Blocks, Reward
  <2>4. client[m].pc = "solve" => ~Uncounted(m)
    BY DEF Uncounted
  <2>5. /\ Blocks(m) <= Cardinality(WonBy(m)) /\ Reward(m) <= ata[m]
        /\ m \notin gave_up => /\ Blocks(m) = Cardinality(WonBy(m))
                               /\ Reward(m) = ata[m]
    BY DEF SystemInvariant, Books
  <2> QED
    BY <2>1, <2>2, <2>3, <2>4, <2>5
<1> QED
  BY <1>1, SystemInvariantHolds, PTL

\* A client that is told why its block was refused is told the truth: its round
\* is over, or the admin made it harder after the client read it.
THEOREM ReasonAlwaysTrue == SystemSpec => ReasonIsTrue
<1>1. SystemInvariant /\ [SystemNext]_all_vars => [ReasonStep]_all_vars
  BY ReasonNext DEF SystemInvariant, SupplyInvariant
<1> QED
  BY <1>1, SystemInvariantHolds, PTL DEF SystemSpec, ReasonIsTrue

-----------------------------------------------------------------------------
(* --max-blocks.                                                           *)

\* A client whose count has reached the limit has stopped.
Stops ==
    max_blocks > 0 =>
        \A m \in Miners :
            /\ client[m].blocks_mined <= max_blocks
            /\ client[m].pc # "stopped" => client[m].blocks_mined < max_blocks

\* Mined alone counts, and stops at the limit; nothing restarts a client.
LEMMA StopsNext ==
    SystemType /\ Stops /\ [SystemNext]_all_vars => Stops'
<1> SUFFICES ASSUME SystemType, Stops, [SystemNext]_all_vars, max_blocks > 0,
                    NEW n \in Miners
             PROVE  /\ client'[n].blocks_mined <= max_blocks
                    /\ client'[n].pc # "stopped"
                           => client'[n].blocks_mined < max_blocks
  BY DEF Stops
<1>1. /\ client \in [Miners -> ClientStates]
      /\ client[n] \in ClientStates
      /\ max_blocks \in Nat
  BY MinerAssumption DEF SystemType
<1>2. /\ client[n].blocks_mined <= max_blocks
      /\ client[n].pc # "stopped" => client[n].blocks_mined < max_blocks
  BY DEF Stops
<1>3. ASSUME client'[n].blocks_mined = client[n].blocks_mined,
             client[n].pc # "stopped" \/ client'[n].pc = client[n].pc
      PROVE  /\ client'[n].blocks_mined <= max_blocks
             /\ client'[n].pc # "stopped"
                    => client'[n].blocks_mined < max_blocks
  BY <1>2, <1>3
<1>4. CASE UNCHANGED client
  BY <1>3, <1>4
<1>5. ASSUME NEW m \in Miners, m # n,
             ClientStep(m) \/ LoseTouch(m) \/ FetchFails(m)
      PROVE  client'[n] = client[n]
  BY <1>1, <1>5 DEF ClientStep, Fetch, Skip, Submit, Exhausted, Solved, Mined,
                    Advanced, Rejected, LoseTouch, FetchFails
<1>6. CASE Mined(n)
  <2>1. /\ client[n].blocks_mined \in Nat
        /\ client[n].pc # "stopped"
        /\ client'[n].blocks_mined = client[n].blocks_mined + 1
        /\ client'[n].pc = IF max_blocks > 0
                                 /\ client[n].blocks_mined + 1 >= max_blocks
                           THEN "stopped" ELSE "fetch"
    BY <1>1, <1>6 DEF Mined, ClientStates
  <2> QED
    BY <1>1, <1>2, <2>1
<1>7. ASSUME Fetch(n) \/ Skip(n)
      PROVE  /\ client'[n].blocks_mined = client[n].blocks_mined
             /\ client[n].pc # "stopped"
  <2>1. /\ Fetched(n).blocks_mined = client[n].blocks_mined
        /\ client[n].pc = "fetch"
    BY <1>1, <1>7 DEF Fetched, ClientStates, Fetch, Skip
  <2> DEFINE c == Fetched(n)
             d == [c EXCEPT !.last_advance_attempt_at = unix_ts]
  <2>2. DOMAIN c = {"pc", "cfg", "current_height", "last_height_change_at",
                   "last_advance_attempt_at", "blocks_mined",
                   "total_reward_base", "sent"}
    BY <1>1 DEF Fetched, ClientStates
  <2>3. \/ client' = [client EXCEPT ![n] = [c EXCEPT !.pc = "solve"]]
        \/ client' = [client EXCEPT ![n] = [d EXCEPT !.pc = "confirm_advance",
                                                    !.sent = @ + 1]]
        \/ client' = [client EXCEPT ![n] = [d EXCEPT !.pc = "fetch"]]
    BY <1>7 DEF Fetch, Skip, Submit
  <2> HIDE DEF c
  <2>4. client'[n].blocks_mined = c.blocks_mined
    BY <1>1, <2>2, <2>3
  <2> QED
    BY <2>1, <2>4 DEF c
<1>8. ASSUME \/ Exhausted(n) \/ Advanced(n) \/ Rejected(n)
             \/ LoseTouch(n) \/ FetchFails(n)
      PROVE  /\ client'[n].blocks_mined = client[n].blocks_mined
             /\ client[n].pc # "stopped"
  BY <1>1, <1>8 DEF Exhausted, Advanced, Rejected, LoseTouch, FetchFails,
                    Confirming, ClientStates
<1>9. ASSUME NEW hash \in SolutionHashes, Solved(n, hash)
      PROVE  /\ client'[n].blocks_mined = client[n].blocks_mined
             /\ client[n].pc # "stopped"
  <2> DEFINE c == client[n]
  <2>1. /\ client[n].pc = "solve"
        /\ \/ client' = [client EXCEPT ![n] = [c EXCEPT !.pc = "confirm_mine",
                                                       !.sent = @ + 1]]
           \/ client' = [client EXCEPT ![n] = [c EXCEPT !.pc = "fetch"]]
    BY <1>9 DEF Solved, Submit
  <2> QED
    BY <1>1, <2>1 DEF ClientStates
<1>10. CASE UNCHANGED all_vars
  BY <1>4, <1>10 DEF all_vars
<1>11. CASE Deliver \/ Serve \/ Surroundings
  BY <1>4, <1>11 DEF Deliver, Land, Bounce, Expire, Serve, Surroundings
<1>12. ASSUME ClientStep(n) \/ LoseTouch(n) \/ FetchFails(n), ~Mined(n)
       PROVE  /\ client'[n].blocks_mined = client[n].blocks_mined
              /\ client[n].pc # "stopped"
  BY <1>7, <1>8, <1>9, <1>12 DEF ClientStep
<1>13. CASE ClientStep(n) \/ LoseTouch(n) \/ FetchFails(n)
  BY <1>3, <1>6, <1>12, <1>13
<1>14. CASE \E m \in Miners : /\ m # n
                              /\ ClientStep(m) \/ LoseTouch(m) \/ FetchFails(m)
  <2>1. PICK m \in Miners :
            m # n /\ (ClientStep(m) \/ LoseTouch(m) \/ FetchFails(m))
    BY <1>14
  <2>2. client'[n] = client[n]
    BY <1>5, <2>1
  <2> QED
    BY <1>3, <2>2
<1> QED
  BY <1>10, <1>11, <1>13, <1>14 DEF SystemNext

\* "Stop after N successful blocks" holds of every client that waited for all its
\* answers: only a block that landed unnoticed takes a client past the limit.
THEOREM StopsUnlessGaveUp ==
    SystemSpec => [](\A m \in Miners \ gave_up :
                         max_blocks > 0 => Cardinality(WonBy(m)) <= max_blocks)
<1>1. SystemInit => Stops
  BY MinerAssumption DEF SystemInit, Stops
<1>2. SystemInvariant /\ Stops /\ [SystemNext]_all_vars => Stops'
  BY StopsNext DEF SystemInvariant
<1>3. SystemInvariant /\ Stops
          => \A m \in Miners \ gave_up :
                 max_blocks > 0 => Cardinality(WonBy(m)) <= max_blocks
  <2> SUFFICES ASSUME SystemInvariant, Stops, NEW m \in Miners, m \notin gave_up,
                      max_blocks > 0
               PROVE  Cardinality(WonBy(m)) <= max_blocks
    OBVIOUS
  <2>1. Cardinality(WonBy(m)) = Blocks(m)
    BY DEF SystemInvariant, Books
  <2>2. client[m].blocks_mined \in Nat /\ max_blocks \in Nat
    BY MinerAssumption DEF SystemInvariant, SystemType, ClientStates
  <2>3. /\ client[m].blocks_mined <= max_blocks
        /\ Uncounted(m) => client[m].blocks_mined < max_blocks
    BY DEF Stops, Uncounted
  <2>4. Blocks(m) <= max_blocks
    BY <2>2, <2>3 DEF Blocks
  <2> QED
    BY <2>1, <2>4
<1> QED
  BY <1>1, <1>2, <1>3, SystemInvariantHolds, PTL DEF SystemSpec
=============================================================================
