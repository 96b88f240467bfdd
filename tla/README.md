# Equium: a TLA+ model of the mining program and its miner

Equium is a proof-of-work token on Solana. An **on-chain program** holds the
mineable supply in a vault and pays a block reward to whoever hands in an
Equihash solution under the current difficulty target; a **command-line miner**
finds such solutions on CPU threads or a GPU and submits them; a **launcher**
script installs, builds and starts the miner. This directory holds TLA+ models
of all three, TLC configurations that check them, and proofs checked by TLAPS.

## 1. Inventory

| Component | Code | State | Operations | Talks to |
|---|---|---|---|---|
| Schedule and retarget | `programs/equium/src/schedule.rs`, `state.rs` | none (pure) | `reward_at_height`, boundaries, `next_target` | called by the round transition |
| Target arithmetic | `crates/equihash-core/src/target.rs` | none (pure) | `scale_target`, `hash_under_target` | called by schedule, verifier, miner |
| Challenges and input blocks | `crates/equihash-core/src/challenge.rs`, `programs/equium/src/pow.rs` | none (pure) | `build_input`, `derive_next_challenge`, `solution_hash`, `read_recent_slot_hash` | called by program and miner |
| On-chain program | `programs/equium/src/lib.rs`, `round.rs`, `instructions/*.rs` | config account, vault | `initialize`, `fund_vault`, `mine`, `advance_empty_round`, `set_target`, `renounce_admin` | token program (CPI), Clock and SlotHashes sysvars |
| CPU race | `clients/cli-miner/src/main.rs` 556-644 | stop flag, nonce counter, bounded channel, threads | `race_for_solution_cpu` | threads share flag, counter, channel |
| GPU race and GPU solver | `main.rs` 646-733, `crates/equihash-gpu` | device context and buffers | `race_for_solution_gpu`, `try_batch`, `run_batch`, the kernel | FFI |
| Wagner solver | `crates/equihash-core/src/solver.rs` | scratch tables | `try_nonce`, `solve` | external `equihash` verifier |
| Miner main loop | `main.rs` 228-436, 525-549, 736-830 | height seen, stall timer, session counts | fetch, skip, solve, submit, stop | RPC calls to the chain |
| Watchdog | `main.rs` 177-187, 228-282 with `advance_empty_round.rs` | stall timer, cooldown | skip a stalled round | RPC nodes that lag, the program's slot count |
| Launcher and build script | `run.sh`, `equihash-gpu/build.rs` | what is installed and built, the shell's variables, temporary key files | install, configure, build, convert the key, `exec` | becomes the miner |
| Examples, terminal output | `equihash-core/examples`, `main.rs` | none worth a model | | |

**What is hard here.** The program itself is sequential: its account locks
serialise transactions. What is hard about it is long histories: thousands of
rounds, mined or skipped in any mix, halvings and retargets at their boundaries,
a launch that can come any time after `initialize`, a clock that may run
backwards. The race is genuinely concurrent (threads, a relaxed flag, a channel
of capacity one, a timeout). The miner works with snapshots: it reads the
config, solves for up to ten minutes, and submits over a network that delays,
reorders, drops, and sometimes answers "failed" about something that succeeded.
Its watchdog measures seconds where the program counts slots, and reads heights
that go back and forth when RPC nodes take turns. The launcher leaves things
behind (packages, a binary, a private key in `/tmp`) that the next launch finds,
and any of its commands may fail.

**What makes each component correct.**

* Schedule: reward and boundaries depend on the height alone; a retarget moves
  the target by at most a factor of two, and in the right direction.
* Arithmetic: the limbs compute the floor of the exact quotient, saturated.
* Program: the supply always covers the next reward; skipping is paced; tokens
  leave the vault only as scheduled rewards for a recorded winner; a solution
  wins once and for one miner; renouncing is final.
* Race: no solution is lost, the count is within a known error, the race
  returns; also when workers panic.
* Miner: every height is closed once, the client's books agree with the chain,
  a refusal is explained truthfully, it does not wait for ever.
* Watchdog: a skip is never too early for the round it is meant for, attempts
  keep their distance, and a round nobody wins is skipped in the end.
* Search: what is found verifies, and nothing that the leaves contain is
  missed except where the kernel runs out of room.
* GPU: no launch works outside its buffers, no failure leaks them or leaves the
  reporter behind, the count never falls short of the nonces searched, and without
  a working device the miner runs on the CPU.
* Launcher: a GPU build finds its compiler, a launch that fails leaves no key
  file, and a miner obeys `MODE` in the launch that builds it.

## 2. Modules

| Module | Models | Extends |
|---|---|---|
| `EquiumSchedule` | the pure schedule and retarget, with u64 saturation | |
| `Equium` | the program: six instructions, the clock, token transfers | `EquiumSchedule` |
| `MCEquium` | constants for TLC | `Equium` |
| `ArithmeticLemmas` | division, least elements, recursion, sums over finite sets | |
| `EquiumProofs` | theorems about the program, and that it implements `Emission` | `Equium`, `ArithmeticLemmas` |
| `Emission` | what the program promises, without how | |
| `TargetArithmetic` | `target.rs` limb by limb | |
| `TargetArithmeticProofs` | theorems about it | `TargetArithmetic`, `ArithmeticLemmas` |
| `Race`, `RaceProofs` | the CPU race, for any number of workers | |
| `Miner` | the main loops of several miners, the network and the chain | `Equium` |
| `MinerProofs` | theorems about any number of miners on the program | `Miner`, `EquiumProofs` |
| `Watchdog`, `WatchdogProofs` | the stall timer against lagging nodes and slow slots | |
| `Wagner` | the search under one nonce: CPU fast path, CPU generic path, GPU kernel | |
| `MCWagner` | leaf hashes for TLC | `Wagner` |
| `WagnerProofs` | theorems about the search for any parameters and hashes | `Wagner`, `ArithmeticLemmas` |
| `GpuBatch` | device context, batches, the GPU race and the fall back to the CPU | |
| `Launcher`, `LauncherProofs` | launch after launch, and the process each becomes | `GpuBatch` |

### Equium

One action is one instruction, because a failed Solana transaction changes
nothing: every `require!`, `checked_add`, account constraint and token-balance
requirement on the handler's path is a guard. `mine_ok` and
`advance_empty_round_ok` are the guards by themselves, so that `Miner` can ask
whether a transaction would be accepted. `advance_round` is the round transition
of `round.rs`: `next_round` (height, challenge, opening slot and time, winner or
empty count), then `retargeted`, then `halved`, each only at its boundary, in the
code's order.

| Variable | In the code |
|---|---|
| `initialized`, `cfg` | the config account (`EquiumConfig`), without keys, bumps and the Equihash parameters that `initialize` fixes |
| `vault`, `source`, `ata` | token balances: the vault, the admin's account, the miners' accounts |
| `slot`, `unix_ts`, `slot_hash` | the Clock sysvar and the head of SlotHashes |
| `opened_slot` | the slot in the `MiningOpened` event, kept to state when mining began |

SHA-256 is a free constructor: challenges are equal exactly when what was hashed
is. A challenge is a record of the round's number, the previous winner and the
entropy; along one history the number stands for the chain of earlier
challenges. A submission is the input block it was solved for and its solution
hash; the external verifier accepts it exactly for that input block. Wrong
mint, vault or token program accounts are not modelled: Anchor's constraints
make such calls fail.

### Emission

The abstract specification has no slots, clocks, vault, difficulty or
submissions: a height, what closing it pays, what was paid to whom.
`Equium!EmissionPromise` maps it to the config and the miners' balances: `Open`
is `fund_vault`, `Win` is `mine`, `Skip` is `advance_empty_round`, everything else
(ticks, donations, the admin's instructions, `initialize`) is a stutter. In `Win`
the reward paid is the one before the height moved on, which is what the order of
statements in `mine.rs` has to guarantee.

### Race

One step is one access to something the threads share. The calling thread begins
with the parameters, which the chain does not validate: `Refused` is the early
return of `BaseState::new(..).ok()?` (line 567), `Spawn` starts the threads. A
worker's `pc` follows its loop: `check` (budget and flag, then count the nonce),
`report`, `solve` (miss, find or panic, chosen freely), `credit`, `send`, `signal`,
`exit`. `Panic` ends one worker and nothing else: the release profile unwinds, its
sender is dropped, and the caller's `let _ = h.join()` takes the panic for an end
like any other (`Ended`). That some nonces of a race panic and others win is more than the
solver does today (`PanicsOnlyOnPartBytes`), and so covers it. The calling
thread receives, sees all senders gone, or times out; then it raises the flag,
joins the progress reporter and joins the workers. The flag is `Relaxed` in the
code but publishes nothing else, so a single cell is faithful; the counter's
final load follows the joins. `nonces_tried` is what the main loop makes of the
result: the race's count if there is a winner, the whole budget if not.

### Miner

`client[m]` is the state of one main loop: the snapshot `cfg`, the stall timer,
the session counts and a `pc` (`fetch`, `solve`, `confirm_mine`,
`confirm_advance`, `stopped`, `exited`). `Fetch` and `Skip` are the top of the
loop (read the config, restart the timer on a new height, then solve or try to
skip a stalled round); `Solved` and `Exhausted` are the outcomes of the race;
`Mined`, `Advanced`, `Rejected` and `LoseTouch` are what
`send_and_confirm_transaction` may say. The chain is `Equium` itself: a
transaction lands by taking the `Mine` or `AdvanceEmptyRound` step. The network
is external and modelled from what the client must expect of it: transactions
land after any delay in any order, bounce, or expire, each at most once (a
signed transaction is not executed twice), and the RPC node that serves the
config may lag. `LoseTouch` is the case the code treats as a plain failure: the
call fails while the transaction is still on its way, or has landed.
`classify_submit_err` gives the reason a refused block is reported with: the
first of the program's checks that failed, in the order of `verify.rs`. An
expiry's text may name the blockhash or not (`classify_expiry`).

### Watchdog

The same top of the loop as in `Miner`, looked at for its timing. All times are
ages: `stall` is `last_height_change_at.elapsed()`, `attempt` that of
`last_advance_attempt_at` (`Never` for `None`), `open_slots` the slots since the
round opened; each is capped where it stops mattering, so that time needs no
bound. `Tick` lets one slot pass, which takes any of `SlotSeconds` on the
client's clock. Every node has its own `view` of the height and any of them
answers the next request, so that the height read may fall as well as rise.
`Fetch`, `SkipSent` and `SkipFails` are one pass through lines 229-282, told
apart by whether the timer and cooldown call for a skip and whether its
transaction gets out; `ComeBack` is the end of a race or of a confirmation, with
whatever result, and `SolveHangs` a race that never ends (disagreement 1 below). `Close` stands for other wallets, who mine or skip at any time.
A skip in flight is kept with the height it was sent for, which the transaction
itself does not carry: `Land` closes the round it finds.

### TargetArithmetic

The base of a limb is the constant `B` (2^64 in the code). The columns, the
carry loop and the long division are separate operators, as in the code, and the
state machine computes one target from another, as consecutive windows do.

### Wagner

A row is its remaining hash and its leaves' indices; `rows` is the current
generation, in the order in which the code holds it. One step is one round
(`wagner_round_96_5`, `round`, `wagner_round` in the kernel) or the final scan.
BLAKE2b is abstracted to an arbitrary table `leaf`, chosen at the start: every
property is about all tables of the instance. The parameters (`n`, `k`, the bits
of a byte, and the hashes to draw leaves from) are a record, `base`, as
`BaseState` is in the code, so that one run covers several `Instances`. The three
implementations are one specification with `path` telling them apart where they
differ: the generic path sorts by the whole hash, trims whole bytes and may panic;
the kernel drops the pairs that its buffers have no room for and returns its
candidate unverified; the fixed-parameter paths check that all leaves are
distinct. `is_valid_solution` is the definition of an Equihash solution and stands
for the external verifier. Bits are kept one by one, with `byte_bits` of them in a
byte, because whether a digit is whole bytes is exactly where the generic path
differs.

### GpuBatch

`pc` is the main thread's place in start-up, main loop and race. `NewAccepted`,
`Malloc`, `CopyInitialState` and `InitFails` are `equium_init` call by call;
`CudaCall` is one call of `equium_run_batch`, and at each of them `GpuError` may
happen instead. The progress reporter is a thread of its own. A batch size crosses
the C interface through `as c_int`, modelled with the largest int as the constant
`INT_MAX`: the host remembers the size it was given (`batch_size`), the device the
one it got (`capacity`). So does the number of nonces in a batch, and nothing bounds
the budget: a batch of more than an int is launched with what is left of its size,
if that is still a size the device accepts, and counted in full (`CountIsSearched`
is exact for `BatchFits` and a lower bound always). `Freed` lists the buffers the
clean-up frees, one by one. What
a batch finds is a free choice between the two outcomes. The module has no run of
its own: `Launcher` runs it in every process it starts.

### Launcher

`step` is the place in the script, from `packages` (the prerequisites, which
`--deps` or a missing binary asks for) over `config` (`.env`), `build`, `mktemp`,
`convert` and `args` to `start` and `miner`. What a launch installs or builds
(`machine`, `built`) and the key files it leaves stay for the next launch; the
shell's variables do not. `built_in` remembers which launch built the binary, 0 for
one that was there before. Every command may fail (`Abort`: the shell runs with
`set -eu`, and the trap removes the key file once it is set), including any that
reads a setting `.env` lacks. `MODE` is kept as the values that are told apart; it
may change when `.env` is read, after the prerequisites were installed for its
former value. `which_nvcc` and `BuildScriptOk` are `build.rs`: it has its own rule
for finding the compiler and panics without it. `ExecMiner` replaces the script,
and its trap, by the miner, whose start-up is `MinerStarts` (mode by the features
of the build, arguments by the mode of the script) and whose life is `GpuBatch`.

## 3. What is checked

| Run | Question | Properties | Distinct states |
|---|---|---|---|
| `supply` | payouts, supply and pace over mixed histories | `SupplyCovered`, `SupplyInvariant`, `ScheduleInStep`, `EmptyRoundsPaced`, `PayoutFollowsSchedule`, `SolutionWinsOnce`, `EmissionPromise` | 541k |
| `retarget` | windows, clamps, admin | `TypeOK`, `WindowAnchored`, `RetargetDamped`, `RenounceIsFinal` | 1.08M |
| `race` | results of a race of three, with panics or refused; does it return, or how not | `TypeOK`, `CountWithinOneReport`, `NoSolutionLost`, `StuckNeedsCrowd`, `ReturnsUnlessStuck` | 300k |
| `race_stuck` | does a race of three always return | `RaceReturns`, **violated** | |
| `target_arithmetic` | every input at base 4 | `ScaledExactly`, `ComparedExactly` | 6k |
| `miner_rivals` | two miners for the same rounds | `EveryHeightClosedOnce`, `BooksMatchChain`, `AlwaysComesBack` | 381k |
| `miner_retry` | lost answers, repeated submissions, an admin who moves the target | `BooksMatchChain`, `ReasonIsTrue` | 495k |
| `miner_overrun` | `--max-blocks` | `StopsAfterMaxBlocks`, **violated** | |
| `wagner` | three paths, every table of hashes, three instances | `TypeOK`, `RowsAreSubtrees`, `FoundIsSolution`, `MissesOnlyWhenCapped` | 131k |
| `wagner_panic` | does a search always end in a result | `NeverPanics`, **violated** | |
| `launch_gpu` | two launches on any machine, failures anywhere | `LaunchTypeOK`, `BuildFindsNvcc`, `KeyFileRemoved`, `ModeObeyed`, `NoDeviceLeak`, `ThreadsInBounds`, `CountIsSearched`, `NoReporterLeft`, `GpuRaceReturns` | 2.09M |
| `watchdog` | nodes that take turns, uneven slots within the margin, rivals | `SkipInvariant`, `SkipIsDue`, `AttemptsSpaced`, `RoundsGoOn` | 117k |

**Bounds, and why they are enough.**

* `supply`: reward 5 with two heights per epoch gives the epochs 5, 2, 1, 0, so
  rounding by the shift, exhaustion of the reward and a supply equal to its
  limit (2 x 2 x 5 = 20 = `MINEABLE_BASE`, as 2 x 378,000 x 25 EQM equals the
  real one exactly) all occur. A retarget window of three heights falls both on
  and off the halving boundaries. `MAX_SLOT = 5` bounds the clock only, rounds are
  bounded by the reward and by the timeout of two slots.
* `retarget`: a window is two heights and four seconds; one tick moves the clock
  by -1, 0, 2 or 7 seconds, so windows are negative, zero, on either limit of
  the clamp, inside and beyond it; targets of 9 and 1 out of 15 reach odd halving,
  saturation, and zero, where the target then stays. One miner is
  enough: wins are told from skips by `last_winner` only.
* `race`, `race_stuck`: three threads are the fewest that can get stuck without a
  timeout; a report every two nonces with a budget of three gives each worker a
  report, a remainder and an exit. The proofs cover any number of workers.
* `target_arithmetic`: all 256 targets with all numerators and denominators; the
  proofs cover every base.
* `miner_*`: a height per reward epoch (2, 1, 0) makes the reward of a late
  answer differ from the current one; `MAX_SENDS` bounds transactions per
  client, `MAX_SLOT` the clock. Rivals need one send each and two slots for every
  order of mine, skip and expiry; a retry needs three sends. In `miner_retry` the
  admin may set a target the solutions' hash meets and one that it misses.
* `watchdog`: a timeout of two slots of one or two seconds each and a stall limit
  of four seconds sit exactly on the margin (2 x 2 <= 4); a cooldown of three is
  shorter than the limit, as 30 seconds are than 75. Two nodes suffice for heights
  that go back and forth, two skips in flight for one that arrives late beside a
  fresh one, heights up to three for a skip that lands two rounds late. The proofs
  cover any numbers within the margin.
* `wagner`: three instances. Digits of one bit in bytes of one bit, with four
  leaves of three bits and all 4,096 tables, on all paths: two rounds are the fewest
  in which two rows can share a leaf, and many tables give the kernel more pairs than
  it has room for. The same in bytes of three bits, where a digit is no whole
  byte (the generic path only; `wagner_panic` has this instance alone). In that
  instance a search panics or ends; one that misses solutions without panicking, as
  with (24, 3), takes three rounds and tables too many to enumerate, and
  `MissesOnlyWhenCapped` claims nothing of it: it is about digits of whole bytes. Digits of
  two bits over eight leaves, hashes drawn from three (zero, one that collides with
  zero in the first digit, one that collides with nothing), so that trees compete
  and buckets hold more than two rows.
* `launch_gpu`: a second launch is what it takes to meet what the first one left.
  `INT_MAX = 3` makes ints -4..3; the batch sizes are zero, the positive ints, and
  values that narrow to negative ones, to zero and to small positive ones. A budget
  of eleven nonces is larger than an int: it gives whole batches, a shorter last one,
  blocks that are only partly used, batches of nine that cross the interface as one,
  and after such a batch a remainder of two that a device made for one refuses; two
  races reuse a device context. The proofs cover any number of
  launches, sizes and ints.
* `CHECK_DEADLOCK FALSE` is set where the bounded clock, height, number of sends or
  of launches brings the model to rest, where senders may wait for ever (`Race`),
  or where a search or a session has ended.

**Fairness.** `FairSpec` of `Race` assumes that the operating system keeps
scheduling every thread (weak fairness per thread) and nothing about the
timeout or luck in finding solutions. `FairSystem` of `Miner` assumes that
processes run and that every transaction sent is eventually landed, refused or
expired: a blockhash is valid for a limited time, and the RPC client polls until
one of the three. It assumes nothing about `Serve`, ticks or lost answers.
`FairSpec` of `Watchdog` assumes that the client runs, that slots pass, and that
each node catches up in the end (weak fairness); and, as strong fairness, that
neither the service nor the network turns away every skip of a client that keeps
trying, without which no client could do anything. It assumes nothing about
other wallets or about which node answers, and not that a race returns: a client may
hang in `solve` for ever (`SolveHangs` carries no fairness, and takes the client out
of the loop whose steps are fair). `RoundsGoOn` makes an exception for a client that
hangs there or whose process ended (`FetchFails`), and `race_stuck` shows that the
first happens. `Miner` models no such client: its `AlwaysComesBack` is about the
waits for confirmations. `FairLaunches` assumes that CUDA
calls return, with or without an error, and that both threads of a race are
scheduled; not that a batch ever finds anything.

**Mutations.** Every property of a passing run has a mutation of a definition
(operators with a `\* Mutation:` comment next to the definition they vary: a
missing reset, a dropped guard, an unclamped branch, ...) under which TLC finds
the property violated.

### Disagreements found

1. **A race of three can hang** (`race_stuck`, `main.rs:599`). The channel has
   capacity one and the caller receives once. A third worker that finds a solution
   before it sees the flag blocks in `tx.send` while the caller joins it; after a
   timeout a second one is enough. `StuckNeedsCrowd` shows that fewer never get
   stuck, `ReturnsUnlessStuck` that there is no other way. With an easy target
   and many threads this is likely. The main loop hangs with the race, and so does
   its watchdog: this client skips no round any more (`SolveHangs`).
2. **`--max-blocks` can be exceeded** (`miner_overrun`, `main.rs:423`). A mine
   that lands although its confirmation failed is a block won but not counted.
   `BooksMatchChain` shows that the count is never too high.
3. **The generic path panics for parameters it accepts** (`wagner_panic`,
   `solver.rs:391`). Rounds match `cbits` bits and trim `cbytes` whole bytes. Where
   `cbits` is no multiple of 8, (24, 5) for one, the hashes run out before the last
   round and the comparison slices past their end. The parameters in use, (96, 5),
   are not affected. With (24, 3) no hash runs out, but later rounds compare the
   wrong bits, so that solutions are missed without any pair dropped;
   `MissesOnlyWhenCapped` is about digits of whole bytes for that reason.
   In the miner the panic ends one worker thread after the other, unnoticed (below).

Also met, without a property of their own.

* Program: the comment at `mine.rs:5` says the mint authority is revoked at
  `initialize`, which `initialize.rs:5` leaves to the deployer; `schedule.rs:12`
  speaks of about 30 halvings where 25 bring the reward to zero; the check
  `acc[0] >= d * 2^64` of `scale_target` can never be the one that saturates, as
  `q[0] != 0` covers it; `SupplyExhausted` is unreachable
  (`SupplyAlwaysCovered`); `StaleChallenge` (`errors.rs:14`) is declared and never
  returned; a target of zero stays zero in every retarget.
* Miner: the nonces of the finder's last incomplete report are counted twice
  (`CountWithinOneReport` states the exact bound); a race whose parameters are
  refused (`main.rs:567`) tried nothing and is counted as its whole budget
  (305-308), and the miner tries again for ever; a panic in `try_nonce` is swallowed
  by `let _ = h.join()` (639), so that a race may end early and empty-handed with
  its budget unspent but counted (`NoSolutionLost`); one failed config fetch ends
  the process where every other failure is retried; once the reward is zero the
  miner goes on solving and every submission fails.
* Solvers: `cuda_impl.rs:70` says an oversized batch is truncated, and it is
  refused; the comment at `solver.rs:183` says that distinctness at each merge
  does not give distinctness of the whole tree, which it does
  (`RowsAreSubtrees`), so the final check never rejects a row; a GPU error counts
  the whole budget as tried and the same device is tried again for ever; a batch of
  more nonces than a C int holds is searched in part and counted in full
  (`cuda_impl.rs:88`).
* Launcher: the private key of a launch that becomes a miner stays in `/tmp`,
  because `exec` (`run.sh:321`) discards the trap of line 263, which is why
  `KeyFileRemoved` has an exception; `src/README.md:35` says the script "Builds the
  miner binary based on `MODE` (cpu/gpu)", line 72 calls `MODE` the "Mining mode: `cpu`
  or `gpu`", and `.env.example:17` says "cpu = CPU only (default)", but only a missing
  binary is built (`run.sh:232`): once a GPU build is there, `MODE=cpu` mines on the
  GPU, and the other way round, with the arguments of the new mode. `ModeObeyed`
  therefore holds `MODE` against the launch that builds and names the rest as its
  exception; `.env.example:26` gives `GPU_BATCH` "in millions of nonces per kernel
  launch" where the script passes it on as nonces;
  the CUDA installation ends the script on an unset `SUDO` (`run.sh:129`) where
  all system packages were there already; the repository's README lists
  `GPU_BATCH` 16 where the script has 64, defaults for settings without which the
  script stops, and a CUDA toolkit to install by hand that the script installs,
  and says of `--deps` that it does not mine, whereas the script goes on; a miner
  that falls back from the GPU uses all cores, as `--threads` is passed in CPU
  mode only; `lstrip("0x")` (`run.sh:273`) strips the leading zeros of a
  hexadecimal key.

## 4. What is proved

All proofs are checked by TLAPS without omitted steps. The assumptions are the
named `ASSUME`s of the modules, which TLC evaluates in the runs:
`ScheduleAssumption` and `ProgramAssumption` (types and ranges of the constants;
twice the window's seconds are below the largest u64, so that the upper clamp is
never reached by saturation), `SupplyAssumption` (two first epochs' rewards fit in
the mineable supply, which is how `state.rs` chooses its constants),
`BaseAssumption`, `RaceAssumption`, `WatchdogAssumption`, `MarginAssumption` (the
longest slots, as many as the timeout, take no longer than the stall limit: 150
slots of half a second in 75 seconds; with slower slots the program refuses a skip that came too early, which costs a
fee and is no step of the chain), `GpuAssumption`, `LauncherAssumption`,
`WordAssumption` (the first reward is a u64: shifted by 64 bits it is zero),
`MinerAssumption` and `WagnerAssumption` (the instances are parameters that
`BaseState::new` accepts).

The library's induction theorems cannot be instantiated by the provers here, as
they take an operator as a parameter. `ArithmeticLemmas` does without: a
non-empty set of naturals has a least element and a non-empty family of finite
sets a smallest member (both from the well-foundedness of an order, which takes
sets), and a claim about all naturals, or all subsets of a finite set, is proved by
looking at the least one where it fails. The same gives recursion: a recursive
function is an arbitrary solution of its equation until one is shown to exist
(`PrimitiveRecursion`), and sums over a finite set, which the community modules
define by such a function, behave as sums when an element is added.

* `EquiumProofs!TypeCorrect`: `Spec => []TypeOK`.
* `EquiumProofs!SupplyInvariantHolds`, `SupplyAlwaysCovered`,
  `SkippingIsPaced`. `SupplyCovered` is not inductive: that the next reward fits
  says nothing about the one after it. The invariant adds what the schedule can
  still pay. With reward r, next halving b, height h and interval H,
  `cumulative + r * (b - h) + r * H <= 2 * H * I` holds in every state: a mined
  round moves r from the second summand to the first; a skipped one drops it; at
  a halving b - h has become 0 and `r * H` pays for the halved r' twice over
  (`2 * r' <= r`): one epoch ahead and the bound for all later ones. With `BoundariesAhead` (b is the next multiple of H above h, so
  b - h >= 1 before a mine) and `VaultHoldsTheRest`, the next reward fits both the
  cap and the vault. `EmptyRoundsPaced` is inductive by itself once the
  launch is known to come before any skip (`NothingBeforeLaunch`).
* `EquiumProofs!RenouncingIsFinal`, `WindowAlwaysAnchored`,
  `RetargetAlwaysDamped`, `SolutionAlwaysWinsOnce`. The first needs that a
  renounced config names the default key, which signs nothing; the second is
  inductive by itself: the boundaries are the multiples of the interval above zero,
  and the launch writes the window's start for the round at zero. A retarget
  is damped because each clamp puts the ratio of the scaling between a half and two
  (`ScaledWithin`, over the division lemmas), saturation only lowers a
  target that is already at most twice the old one, and the cross-multiplied
  tests decide the clamp exactly. A solution wins once because an input block
  contains the challenge and the miner, and a challenge its height.
* `EquiumProofs!ScheduleAlwaysInStep`, `PayoutAlwaysFollowsSchedule`: that the
  reward, halved by one bit at each boundary, is the first reward shifted by all
  the halvings at once (`RewardStep`, by `PrimitiveRecursion` for the shift), also
  beyond 64 halvings, where `reward_at_height` says zero and the shifts get there
  by `WordAssumption`. `BoundariesAhead` supplies the moment of the halving.
* `EquiumProofs!EmissionImplemented`: `Spec => EmissionPromise`, the refinement,
  by one lemma per kind of step: a round closed by `advance_round` is a `Close`
  (its halving boundary is a multiple of the interval, by `BoundariesAhead`), a
  `mine` is a `Win` because the round pays the reward of the state before it
  (`SupplyCovered` gives the cap), a skip is a `Skip`, and all else keeps what
  `Emission` sees.
* `TargetArithmeticProofs!ScaleTargetExact`, `HashComparisonExact`,
  `ScalingIsExact`, `ComparisonIsExact`: for every limb base the carries leave
  the number denoted by the columns alone (`ProductValue`), the long division
  denotes the quotient (`DivideValue`), and a fifth quotient limb is non-zero
  exactly when the quotient exceeds four limbs (`FitsOrExceeds`). This is what
  entitles `EquiumSchedule` to treat targets as numbers.
* `RaceProofs!TypeCorrect`, `NoSolutionEverLost`, `StuckAlwaysNeedsCrowd`,
  `CountAlwaysWithinOneReport`, for any
  number of workers, budget and report size, with any of the workers panicking. The invariant `RaceInv` accounts for
  every solution: the winner's, the one in the channel and that of a worker still
  before its send are of different workers (`Accounted`); while the caller
  waits before an empty channel nobody has sent, raised the flag or stopped
  short of its budget (`Waiting`); and if it went on without a winner before the
  timeout, every worker had spent its budget or panicked (`EmptyHanded`). For the
  count, `CountInv` says that the shared counter is the sum over the workers of
  what each has added (`CountedBy`), of which a step changes one term.
* `MinerProofs`, for any number of miners, any schedule, and a network that delays,
  reorders and loses. `SystemInvariantHolds` has `EquiumProofs`' invariant, which
  holds because every step of a client or the network is a program step or leaves
  it alone (`SystemStepIsProgramStep`), and four parts of its own. `Snapshots`: a
  config that a client or a node holds is not ahead of the chain, and at the
  chain's height it has the chain's challenge and reward, although not its target,
  which the admin moves. `Flight`: the transaction a client waits for is undecided
  and was solved for its snapshot; a client that never gave up has no other `mine`
  on its way. `Ledger` and `Books` count what was closed, with the block that landed
  and is not counted yet. Without `Flight` a late transaction could land on the
  books of another attempt; without `Snapshots` it could pay another reward than the
  client adds. From these follow `MinersKeepProgramSafe` (supply, schedule, pace,
  windows, retargets, solutions and payouts survive any clients, and every step is
  a step of `Emission` or a stutter), `EveryHeightAlwaysClosedOnce`,
  `BooksAlwaysMatchChain`, `ReasonAlwaysTrue`, and `StopsUnlessGaveUp`: the limit of
  `--max-blocks`, which the run `miner_overrun` shows exceeded, binds every client
  that never gave up on an answer.
* `WatchdogProofs!SkipInvariantHolds`, `SkipNeverTooEarly`,
  `AttemptsAlwaysSpaced`, for any nodes, timeouts and slots within the margin.
  `SkipIsDue` alone is not inductive; what carries it is `TimerBehindRound`: while the
  client's last height is the current one and the round is not yet due, the stall
  timer is at most the slowest slot's length times the slots the round has been
  open. A height read for the first time starts the timer at zero whatever the
  node's lag, and nodes never serve heights to come. The spacing follows because
  the timer restarts whenever the memory of the last attempt is cleared, and the
  cooldown is no longer than the stall limit.
* `WagnerProofs`, for all parameters, tables of hashes and paths. The invariant
  `WagnerInvariant` says that the rows are rows of their round (`GoodRows`): of its
  type and, where digits are whole bytes, a correct subtree whose hash is the rest of
  its leaves' XOR (`IsNode`). That the hash is the XOR is what makes the next
  collision a cancelled digit, so neither half of `RowsAreSubtrees` is inductive
  without the other. `MergeGood` is its core: joining two sequences adds up parities
  (`JoinedParity`) and shifts every node of the right one (`JoinIsSubtree`).
  From it `TypeCorrect`, `RowsAlwaysSubtrees`, `FoundAlwaysSolves` (the kernel
  verifies nothing, but a full node whose hash is zero is a solution, by
  `ZeroNodeSolves`) and `PanicsOnlyOnPartBytes`.
  `NothingEverMissed` is the converse. `NothingMissed` says that as long as no pair
  was dropped, the rows hold every node of every solution at the height of the round
  (`InRows`): the leaves hold all (`LeavesHold`); the halves of a node agree on their
  next digit, fall into one bucket, share no leaf, are paired whichever stands first
  and joined in the node's order (`NodeSplits`, `RoundHolds`); and the scan accepts
  the row that is the whole tree (`ScanAccepts`).
  `RowsAlwaysSubtrees`, `PanicsOnlyOnPartBytes` and `NothingEverMissed` are about
  digits of whole bytes, as are the program's (16 bits) and the two fixed paths.
  Where a digit ends within a byte, the generic path trims bytes and compares other
  bits in the later rounds than the verifier's digits, so the argument ends there;
  `FoundAlwaysSolves` and `TypeCorrect` hold regardless.
* `LauncherProofs!LaunchTypeCorrect`, `NvccAlwaysFound`, `KeyFileAlwaysRemoved`,
  `ModeAlwaysObeyed`, `NeverLeaks`, `AlwaysInBounds`, `SearchedAlwaysCounted`,
  `ReporterAlwaysJoined`, for any number of launches, batch sizes, budgets and width
  of an int. The invariant has one part for the script (a key file belongs to a launch that became a miner or is
  between `mktemp` and `exec`; past `cuda` in GPU mode the compiler is on the path)
  and one for the process (buffers are allocated exactly while a context exists or
  is being made; the device's size is the narrowed one; what was searched is at most
  the count, and the count itself where batches fit an int: narrowing to an int
  never makes a number larger).

Every invariant and every action property that the passing runs check is stated
by a theorem. Only model-checked are the temporal ones, `ReturnsUnlessStuck`,
`AlwaysComesBack`, `RoundsGoOn` and `GpuRaceReturns`, as liveness under fairness is
out of the prover's reach.

## 5. What is not modelled

SHA-256, BLAKE2b and the external `equihash` crate beyond their contract;
Anchor's account validation beyond the signer and admin checks; transfer fees of
Token-2022 mints (the vault is assumed to receive what is sent); compute limits;
reorganisations of the chain; the contents of the device buffers; `solve`, the
driver over nonces, which is the loop that `Race` has with one worker and
nobody uses but the examples; the choice of the number of threads, of the GPU's
architecture and of the key's format in `run.sh`; the compiler arguments and
library paths of `build.rs`; the examples and the terminal layout, which hold no
behaviour worth a model. `Miner` starts right after the launch (`LaunchConfig`),
as the miner needs an existing config; how a process starts is in `Launcher`.

## 6. Plan

Done, in this order: `EquiumSchedule`, `Equium` and `EquiumProofs`;
`TargetArithmetic` and its proofs; `Race`; `Miner`, composed with `Equium`;
`Emission` and the refinement; `Wagner`; `GpuBatch`; `Watchdog` and its proofs;
`Launcher`, composed with `GpuBatch`, and its proofs; the steps of the program in
`EquiumProofs`; `RaceProofs`; `MinerProofs`; `WagnerProofs`.

Left, most useful first:

1. The race as an abstract search: `Race` shown to implement a specification of one
   step that returns a solution within the budget or none.
2. An abstract chain for `Watchdog`, of which `Equium` with its clock is shown to be
   a refinement, so that its skips and those of `Miner` are the same by proof.
