------------------------------- MODULE Miner --------------------------------
(***************************************************************************)
(* The command-line miners at work on the program: the main loop of        *)
(* clients/cli-miner/src/main.rs (fetch the config, skip a stalled round   *)
(* or solve, submit, wait for the confirmation), one process per wallet,   *)
(* composed with the on-chain program of Equium.                           *)
(*                                                                         *)
(* Between them is the RPC service and the network, which are not part of  *)
(* the repository: the config a client reads may lag behind the chain, a   *)
(* transaction lands after any delay and in any order or expires, and the  *)
(* client may lose touch with a transaction it sent.  A signed transaction *)
(* lands at most once.  Solving takes any time and may find nothing.       *)
(***************************************************************************)
EXTENDS Equium, FiniteSets, Functions

CONSTANTS
    ROUND_STALL_SECS,       \* age of a round at which a client tries to skip
    ADVANCE_COOLDOWN_SECS,  \* pause between two attempts to skip
    max_blocks,             \* --max-blocks, 0 to run for ever
    MAX_SENDS               \* bound on transactions per client

ASSUME MinerAssumption ==
    /\ IsFiniteSet(Miners)
    /\ ROUND_STALL_SECS \in Nat
    /\ ADVANCE_COOLDOWN_SECS \in Nat
    /\ max_blocks \in Nat
    /\ MAX_SENDS \in Nat
    /\ TimeSteps \subseteq Nat

VARIABLES
    client,    \* the main loop of each miner
    served,    \* the config account the RPC node serves
    pending,   \* transactions sent that have neither landed nor expired
    result,    \* what became of each client's latest transaction
    gave_up,   \* clients that stopped waiting for some mine transaction
    blocks     \* the BlockMined events of the chain

chain == <<initialized, cfg, vault, source, ata, slot, unix_ts, slot_hash,
           opened_slot>>
network == <<served, pending, result>>
all_vars == <<chain, client, network, gave_up, blocks>>

Never == -1   \* no height seen yet, no attempt to skip yet

\* The config right after `initialize` and `fund_vault` in slot 0.
LaunchConfig(target) ==
    [NoConfig EXCEPT
        !.current_target = target,
        !.current_epoch_reward = INITIAL_BLOCK_REWARD_BASE,
        !.next_halving_block = HALVING_INTERVAL_BLOCKS,
        !.next_retarget_block = RETARGET_INTERVAL_BLOCKS,
        !.mining_open = TRUE,
        !.admin = EXPECTED_ADMIN]

\* The miners are started on a program that is open.
SystemInit ==
    /\ initialized = TRUE
    /\ cfg \in {LaunchConfig(t) : t \in AdminTargets}
    /\ vault = MINEABLE_BASE
    /\ source = TOTAL_SUPPLY_BASE - MINEABLE_BASE
    /\ ata = [m \in Miners |-> 0]
    /\ slot = 0 /\ unix_ts = 0 /\ slot_hash \in Entropies /\ opened_slot = 0
    /\ client = [m \in Miners |->
           [pc |-> "fetch", cfg |-> NoConfig, current_height |-> Never,
            last_height_change_at |-> 0, last_advance_attempt_at |-> Never,
            blocks_mined |-> 0, total_reward_base |-> 0, sent |-> 0]]
    /\ served = cfg
    /\ pending = {}
    /\ result = [m \in Miners |-> "none"]
    /\ gave_up = {}
    /\ blocks = {}

-----------------------------------------------------------------------------
(* The client.                                                             *)

\* get_latest_blockhash, then the signed transaction goes out and the client
\* waits for it in pc; or one of the two fails and the loop starts over.
Submit(c, call, pc) ==
    \/ /\ c.sent < MAX_SENDS
       /\ client' = [client EXCEPT ![c.payer] =
                        [c.state EXCEPT !.pc = pc, !.sent = @ + 1]]
       /\ pending' = pending \cup
                        {[payer |-> c.payer, seq |-> c.sent + 1, call |-> call]}
       /\ result' = [result EXCEPT ![c.payer] = "none"]
    \/ /\ client' = [client EXCEPT ![c.payer] = [c.state EXCEPT !.pc = "fetch"]]
       /\ UNCHANGED <<pending, result>>

MineCall(submission) == [kind |-> "mine", submission |-> submission]
AdvanceCall == [kind |-> "advance"]

\* The top of the loop: read the config; on a new height restart the stall
\* timer; then try to skip a round that stalled, or go on and solve.
Fetched(m) ==
    LET c == client[m]
        moved == served.block_height # c.current_height
    IN  [c EXCEPT
            !.cfg = served,
            !.current_height = served.block_height,
            !.last_height_change_at = IF moved THEN unix_ts ELSE @,
            !.last_advance_attempt_at = IF moved THEN Never ELSE @]

Stalled(c) ==
    /\ unix_ts - c.last_height_change_at >= ROUND_STALL_SECS
    /\ \/ c.last_advance_attempt_at = Never
       \/ unix_ts - c.last_advance_attempt_at >= ADVANCE_COOLDOWN_SECS

Fetch(m) ==
    /\ client[m].pc = "fetch"
    /\ ~Stalled(Fetched(m))
    /\ client' = [client EXCEPT ![m] = [Fetched(m) EXCEPT !.pc = "solve"]]
    /\ UNCHANGED <<chain, network, gave_up, blocks>>

\* submit_advance_empty_round, the watchdog's call.
Skip(m) ==
    /\ client[m].pc = "fetch"
    /\ Stalled(Fetched(m))
    /\ LET c == [Fetched(m) EXCEPT !.last_advance_attempt_at = unix_ts]
       IN  Submit([payer |-> m, state |-> c, sent |-> c.sent],
                  AdvanceCall, "confirm_advance")
    /\ UNCHANGED <<chain, served, gave_up, blocks>>

\* The race came back empty-handed.
Exhausted(m) ==
    /\ client[m].pc = "solve"
    /\ client' = [client EXCEPT ![m].pc = "fetch"]
    /\ UNCHANGED <<chain, network, gave_up, blocks>>

\* The race found a solution for the config fetched before it, which is what
\* submit_mine sends.
Solved(m, hash) ==
    LET c == client[m]
        input == build_input(c.cfg.current_challenge, m, c.cfg.block_height)
    IN  /\ c.pc = "solve"
        /\ hash_under_target(hash, c.cfg.current_target)
        /\ Submit([payer |-> m, state |-> c, sent |-> c.sent],
                  MineCall([input |-> input, hash |-> hash]), "confirm_mine")
        /\ UNCHANGED <<chain, served, gave_up, blocks>>

\* Mutation: a mine is counted whatever became of it.
Mined_unchecked(m) ==
    LET c == client[m]
        counted == c.blocks_mined + 1
    IN  /\ c.pc = "confirm_mine"
        /\ result[m] # "none"
        /\ client' = [client EXCEPT ![m] =
               [c EXCEPT
                   !.blocks_mined = counted,
                   !.total_reward_base = @ + c.cfg.current_epoch_reward,
                   !.pc = IF max_blocks > 0 /\ counted >= max_blocks
                          THEN "stopped" ELSE "fetch"]]
        /\ UNCHANGED <<chain, network, gave_up, blocks>>

\* send_and_confirm_transaction returned the signature of a `mine`.
Mined(m) ==
    LET c == client[m]
        counted == c.blocks_mined + 1
    IN  /\ c.pc = "confirm_mine"
        /\ result[m] = "ok"
        /\ client' = [client EXCEPT ![m] =
               [c EXCEPT
                   !.blocks_mined = counted,
                   !.total_reward_base = @ + c.cfg.current_epoch_reward,
                   !.pc = IF max_blocks > 0 /\ counted >= max_blocks
                          THEN "stopped" ELSE "fetch"]]
        /\ UNCHANGED <<chain, network, gave_up, blocks>>

Advanced(m) ==
    /\ client[m].pc = "confirm_advance"
    /\ result[m] = "ok"
    /\ client' = [client EXCEPT ![m].pc = "fetch"]
    /\ UNCHANGED <<chain, network, gave_up, blocks>>

Confirming(m) == client[m].pc \in {"confirm_mine", "confirm_advance"}

\* The transaction failed on the chain or its blockhash expired.
Rejected(m) ==
    /\ Confirming(m)
    /\ result[m] \notin {"none", "ok"}
    /\ client' = [client EXCEPT ![m].pc = "fetch"]
    /\ UNCHANGED <<chain, network, gave_up, blocks>>

\* The RPC call itself fails while the transaction is on its way or has landed.
LoseTouch(m) ==
    /\ Confirming(m)
    /\ gave_up' = IF client[m].pc = "confirm_mine"
                  THEN gave_up \cup {m} ELSE gave_up
    /\ client' = [client EXCEPT ![m].pc = "fetch"]
    /\ UNCHANGED <<chain, network, blocks>>

\* A config that cannot be fetched ends the process.
FetchFails(m) ==
    /\ client[m].pc = "fetch"
    /\ client' = [client EXCEPT ![m].pc = "exited"]
    /\ UNCHANGED <<chain, network, gave_up, blocks>>

ClientStep(m) ==
    \/ Fetch(m)
    \/ Skip(m)
    \/ Exhausted(m)
    \/ \E hash \in SolutionHashes : Solved(m, hash)
    \/ Mined(m)
    \/ Advanced(m)
    \/ Rejected(m)

-----------------------------------------------------------------------------
(* The network.                                                            *)

Report(tx, outcome) ==
    result' = IF tx.seq = client[tx.payer].sent
              THEN [result EXCEPT ![tx.payer] = outcome] ELSE result

Accepted(tx) ==
    IF tx.call.kind = "mine" THEN mine_ok(tx.payer, tx.call.submission)
                             ELSE advance_empty_round_ok

BlockMined(m) == [height |-> cfg.block_height, winner |-> m,
                  reward |-> cfg.current_epoch_reward]

Land(tx) ==
    /\ Accepted(tx)
    /\ \/ /\ tx.call.kind = "mine"
          /\ Mine(tx.payer, tx.call.submission)
          /\ blocks' = blocks \cup {BlockMined(tx.payer)}
       \/ /\ tx.call.kind = "advance"
          /\ AdvanceEmptyRound
          /\ UNCHANGED blocks
    /\ pending' = pending \ {tx}
    /\ Report(tx, "ok")
    /\ UNCHANGED <<client, served, gave_up>>

\* Mutation: the difficulty is looked at before the solution.
classify_submit_err_hash_first(tx) ==
    IF tx.call.kind = "advance" THEN "couldn't advance"
    ELSE IF ~hash_under_target(tx.call.submission.hash, cfg.current_target)
    THEN "above target"
    ELSE IF ~is_valid_solution(tx.payer, tx.call.submission)
    THEN "stale challenge" ELSE "submit error"

\* What the client makes of the first check that fails.
classify_submit_err(tx) ==
    IF tx.call.kind = "advance" THEN "couldn't advance"
    ELSE IF ~is_valid_solution(tx.payer, tx.call.submission)
    THEN "stale challenge"
    ELSE IF ~hash_under_target(tx.call.submission.hash, cfg.current_target)
    THEN "above target" ELSE "submit error"

\* The program rejects it: the round is over or still young.
Bounce(tx) ==
    /\ ~Accepted(tx)
    /\ pending' = pending \ {tx}
    /\ Report(tx, classify_submit_err(tx))
    /\ UNCHANGED <<chain, client, served, gave_up, blocks>>

\* And of an expiry, which the error puts down to the blockhash or to nothing.
classify_expiry(tx) ==
    IF tx.call.kind = "advance" THEN {"couldn't advance"}
    ELSE {"blockhash expired", "submit error"}

\* Mutation: nobody tells the client that its transaction expired.
Expire_silently(tx) ==
    /\ pending' = pending \ {tx}
    /\ UNCHANGED <<chain, client, served, result, gave_up, blocks>>

Expire(tx) ==
    /\ pending' = pending \ {tx}
    /\ \E reason \in classify_expiry(tx) : Report(tx, reason)
    /\ UNCHANGED <<chain, client, served, gave_up, blocks>>

Deliver == \E tx \in pending : Land(tx) \/ Bounce(tx) \/ Expire(tx)

\* The RPC node catches up with the chain.
Serve ==
    /\ served' = cfg
    /\ UNCHANGED <<chain, client, pending, result, gave_up, blocks>>

\* The admin's retargeting and the passing of time.
Surroundings ==
    /\ \/ \E t \in AdminTargets : SetTarget(EXPECTED_ADMIN, t)
       \/ \E slots \in SlotSteps, seconds \in TimeSteps, hash \in Entropies :
              Tick(slots, seconds, hash)
    /\ UNCHANGED <<client, network, gave_up, blocks>>

SystemNext ==
    \/ \E m \in Miners : ClientStep(m) \/ LoseTouch(m) \/ FetchFails(m)
    \/ Deliver
    \/ Serve
    \/ Surroundings

SystemSpec == SystemInit /\ [][SystemNext]_all_vars

\* Processes are scheduled and the network decides on every transaction.
FairSystem ==
    /\ SystemSpec
    /\ \A m \in Miners : WF_all_vars(ClientStep(m))
    /\ WF_all_vars(Deliver)

-----------------------------------------------------------------------------
(* Properties.                                                             *)

WonBy(m) == {b \in blocks : b.winner = m}
EarnedBy(m) == SumFunctionOnSet([b \in blocks |-> b.reward], WonBy(m))

\* Every closed height was either won exactly once or skipped, whatever
\* transactions raced, were repeated after a lost answer or came late, and
\* what a wallet holds is what the blocks it won paid.
EveryHeightClosedOnce ==
    /\ \A b \in blocks : b.height < cfg.block_height
    /\ \A b1, b2 \in blocks : b1.height = b2.height => b1 = b2
    /\ Cardinality(blocks) + cfg.empty_rounds = cfg.block_height
    /\ \A m \in Miners : ata[m] = EarnedBy(m)

\* A client never counts a block or a reward that the chain did not give it,
\* and when it has waited for all its transactions its books are the chain's.
BooksMatchChain ==
    \A m \in Miners :
        /\ client[m].blocks_mined <= Cardinality(WonBy(m))
        /\ client[m].total_reward_base <= ata[m]
        /\ (client[m].pc = "solve" /\ m \notin gave_up) =>
               /\ client[m].blocks_mined = Cardinality(WonBy(m))
               /\ client[m].total_reward_base = ata[m]

\* A client that is told why its block was refused is told the truth: "stale
\* challenge" means that its round is over, "above target" that the round goes
\* on and the admin made it harder: neither is the miner's own fault.
ReasonStep ==
    \A m \in Miners :
        (client[m].pc = "confirm_mine" /\ result'[m] # result[m]) =>
            /\ result'[m] = "stale challenge" =>
                   cfg.block_height > client[m].cfg.block_height
            /\ result'[m] = "above target" =>
                   /\ cfg.block_height = client[m].cfg.block_height
                   /\ cfg.current_target < client[m].cfg.current_target
ReasonIsTrue == [][ReasonStep]_all_vars

\* "Stop after N successful blocks".
StopsAfterMaxBlocks ==
    max_blocks > 0 => \A m \in Miners : Cardinality(WonBy(m)) <= max_blocks

\* No client waits for ever for a transaction: one way or another it comes
\* back to the top of its loop, unless its process has ended.
AlwaysComesBack ==
    \A m \in Miners :
        Confirming(m) ~> client[m].pc \in {"fetch", "stopped", "exited"}
=============================================================================
