--------------------------- MODULE LauncherProofs ---------------------------
(***************************************************************************)
(* Theorems about repeated launches of the miner and the GPU side of its   *)
(* process: key files, the build, the mode, device memory, the bounds of   *)
(* the kernel's threads, the count of nonces and the reporter thread.      *)
(***************************************************************************)
EXTENDS Launcher, ArithmeticLemmas, FiniteSetTheorems

-----------------------------------------------------------------------------
(* Launch geometry.                                                        *)

\* A number that an int can hold crosses the C interface unchanged.
LEMMA SmallIntKept ==
    ASSUME NEW x \in 0..INT_MAX
    PROVE  as_c_int(x) = x
<1> USE GpuAssumption
<1> DEFINE width == 2 * (INT_MAX + 1)
           shifted == x + INT_MAX + 1
<1>1. width \in Nat \ {0} /\ shifted \in 0..(width - 1)
  OBVIOUS
<1>2. shifted = width * 0 + shifted
  BY <1>1
<1> HIDE DEF width, shifted
<1>3. shifted % width = shifted
  BY <1>1, <1>2, DivUnique
<1> QED
  BY <1>3 DEF as_c_int, width, shifted

\* The threads that work are exactly one per nonce: rounding up to whole blocks
\* starts enough of them, and the rest return.
LEMMA OneThreadPerNonce ==
    ASSUME NEW count \in Nat
    PROVE  /\ WorkingThreads(count) = 0..(count - 1)
           /\ Cardinality(WorkingThreads(count)) = count
<1> USE GpuAssumption
<1> DEFINE T == THREADS_PER_BLOCK
           h == count + T - 1
           blocks == h \div T
<1>1. T \in Nat \ {0} /\ h \in Nat
  OBVIOUS
<1>2. blocks \in Nat /\ h % T \in 0..(T - 1) /\ h = T * blocks + (h % T)
  BY <1>1, DivMod
<1>3. count <= T * blocks
  <2> DEFINE r == h % T
  <2>1. r \in 0..(T - 1) /\ count + T - 1 = T * blocks + r
    BY <1>2
  <2>2. T * blocks \in Nat
    BY <1>1, <1>2
  <2> HIDE DEF r, blocks, h
  <2> QED
    BY <2>1, <2>2
<1>4. T * blocks = blocks * T /\ blocks * T \in Nat
  BY <1>1, <1>2
<1>5. WorkingThreads(count) = {tid \in 0..(blocks * T - 1) : tid < count}
  BY DEF WorkingThreads
<1> HIDE DEF blocks, T, h
<1>6. WorkingThreads(count) = 0..(count - 1)
  BY <1>3, <1>4, <1>5
<1>7. Cardinality(0..(count - 1)) = count
  BY FS_Interval
<1> QED
  BY <1>6, <1>7

-----------------------------------------------------------------------------
(* The device: no leak, no thread out of bounds, no reporter left.         *)

\* A context exists only after its allocation, nothing has run before that,
\* and the reporter runs only within a race.
DeviceInv ==
    /\ NoDeviceLeak
    /\ ThreadsInBounds
    /\ NoReporterLeft
    /\ pc \in {"new", "malloc"} => ~handle /\ touched = {}
    /\ pc = "new" => allocated = {}
    /\ allocated \subseteq Buffers
    /\ capacity \in Int
    /\ nonces \in Nat
    /\ batch_size \in Nat

\* Before the first launch there is no context and no buffer.
LEMMA DeviceStart ==
    ASSUME LaunchInit
    PROVE  DeviceInv
BY LauncherAssumption, GpuAssumption
   DEF LaunchInit, Started, DeviceInv, NoDeviceLeak, ThreadsInBounds,
       NoReporterLeft, InRace

\* as_c_int of a nonce count is an integer and never a larger one.
LEMMA IntOfNat ==
    ASSUME NEW x \in Nat
    PROVE  as_c_int(x) \in Int /\ as_c_int(x) <= x
<1> USE GpuAssumption
<1> DEFINE width == 2 * (INT_MAX + 1)
           shifted == x + INT_MAX + 1
           quotient == shifted \div width
           rest == shifted % width
<1>1. width \in Nat \ {0} /\ shifted \in Nat
  OBVIOUS
<1>2. as_c_int(x) = rest - (INT_MAX + 1)
  BY DEF as_c_int
<1> HIDE DEF width, shifted
<1>3. quotient \in Nat /\ rest \in Nat /\ shifted = width * quotient + rest
  BY <1>1, DivMod
<1> HIDE DEF quotient, rest
<1>4. width * quotient \in Nat
  BY <1>1, <1>3
<1>5. rest <= shifted
  BY <1>1, <1>3, <1>4
<1> QED
  BY <1>2, <1>3, <1>5 DEF shifted

\* equium_init allocates the buffers in order, never more than there are.
LEMMA NextBuffer ==
    ASSUME NEW S \in SUBSET Buffers, S # Buffers
    PROVE  BufferOrder[Cardinality(S) + 1] \in Buffers
<1> DEFINE B == [i \in 1..6 |-> BufferOrder[i]]
<1>1. Buffers = {BufferOrder[i] : i \in 1..6}
  BY DEF Buffers, BufferOrder
<1>2. IsFiniteSet(1..6) /\ Cardinality(1..6) = 6
  <2>1. 1 \in Int /\ 6 \in Int
    OBVIOUS
  <2>2. IsFiniteSet(1..6)
        /\ Cardinality(1..6) = IF 1 > 6 THEN 0 ELSE 6 - 1 + 1
    BY <2>1, FS_Interval, Zenon
  <2> QED
    BY <2>2
<1>3. B \in Surjection(1..6, Buffers)
  BY <1>1 DEF Surjection
<1> HIDE DEF B
<1>4. IsFiniteSet(Buffers) /\ Cardinality(Buffers) <= 6
  BY <1>2, <1>3, FS_Surjection
<1>5. Cardinality(S) \in Nat /\ Cardinality(Buffers) \in Nat
  BY <1>4, FS_Subset, FS_CardinalityType
<1>6. Cardinality(S) <= Cardinality(Buffers)
      /\ Cardinality(S) # Cardinality(Buffers)
  BY <1>4, FS_Subset
<1>7. Cardinality(S) + 1 \in 1..6
  BY <1>4, <1>5, <1>6
<1> QED
  BY <1>1, <1>7

\* The clean-up frees every buffer there is.
LEMMA ReleaseFreesAll ==
    ASSUME allocated \subseteq Buffers, Release
    PROVE  allocated' = {}
<1>1. Buffers \subseteq Freed
  BY DEF Buffers, BufferOrder, Freed
<1> QED
  BY <1>1 DEF Release

\* Start-up: whatever fails, the buffers are the context's or nobody's.
LEMMA StartUpKeepsDevice ==
    ASSUME DeviceInv, StartUp
    PROVE  DeviceInv'
<1> USE DEF DeviceInv, NoDeviceLeak, ThreadsInBounds, NoReporterLeft, InRace
<1>1. CASE NewRefused
  BY <1>1 DEF NewRefused, device, race
<1>2. CASE NewAccepted
  <2>1. as_c_int(batch_size) \in Int
    BY IntOfNat
  <2> QED
    BY <1>2, <2>1 DEF NewAccepted, race
<1>3. CASE Malloc
  <2>1. allocated' \subseteq Buffers
    BY <1>3, NextBuffer DEF Malloc
  <2> QED
    BY <1>3, <2>1 DEF Malloc, race
<1>4. CASE CopyInitialState
  BY <1>4 DEF CopyInitialState, race
<1>5. CASE InitFails
  <2>1. allocated' = {}
    BY <1>5, ReleaseFreesAll DEF InitFails
  <2> QED
    BY <1>5, <2>1 DEF InitFails, Release, race
<1>6. CASE FallBack
  BY <1>6 DEF FallBack, device, race
<1> QED
  BY <1>1, <1>2, <1>3, <1>4, <1>5, <1>6 DEF StartUp

\* A race and an exit: no step of either touches a buffer without its context, and
\* each way out of a race passes through the join.
LEMMA RaceKeepsDevice ==
    ASSUME DeviceInv, total_tried \in Nat,
           RaceStep \/ StartRace \/ ReporterEnds \/ Exit
    PROVE  DeviceInv'
<1> USE DEF DeviceInv, NoDeviceLeak, ThreadsInBounds, NoReporterLeft, InRace
<1>1. CASE GenerateBatch
  <2>1. this_batch \in Nat
    BY <1>1, GpuAssumption DEF GenerateBatch, this_batch
  <2> QED
    BY <1>1, <2>1 DEF GenerateBatch, device
<1>2. CASE BudgetSpent
  BY <1>2 DEF BudgetSpent, StopReporter, device
<1>3. CASE CudaCall
  <2> DEFINE count == as_c_int(nonces)
  <2>1. count \in Nat /\ count <= capacity
    BY <1>3, IntOfNat DEF CudaCall, BatchAccepted, AcceptedByDevice
  <2>2. WorkingThreads(count) = 0..(count - 1)
    BY <2>1, OneThreadPerNonce
  <2> HIDE DEF count
  <2>3. 0..(count - 1) \subseteq 0..(capacity - 1)
    BY <2>1
  <2>4. handle' => touched' \subseteq 0..(capacity' - 1)
    BY <1>3, <2>2, <2>3 DEF CudaCall, device, count
  <2> QED
    BY <1>3, <2>4 DEF CudaCall, device
<1>4. CASE GpuError
  BY <1>4 DEF GpuError, StopReporter, device
<1>5. CASE BatchWithoutWinner
  BY <1>5 DEF BatchWithoutWinner, device
<1>6. CASE BatchWithWinner
  BY <1>6 DEF BatchWithWinner, StopReporter, device
<1>7. CASE Join
  BY <1>7 DEF Join, device, race
<1>8. CASE StartRace
  BY <1>8 DEF StartRace, device
<1>9. CASE ReporterEnds
  BY <1>9 DEF ReporterEnds, device
<1>10. CASE Exit
  <2>1. \/ handle /\ handle' = FALSE /\ allocated' = {} /\ capacity' = 0
        \/ ~handle /\ UNCHANGED device
    BY <1>10, ReleaseFreesAll DEF Exit, Release
  <2> QED
    BY <1>10, <2>1 DEF Exit, device, race
<1> QED
  BY <1>1, <1>2, <1>3, <1>4, <1>5, <1>6, <1>7, <1>8, <1>9, <1>10
     DEF RaceStep

-----------------------------------------------------------------------------
(* The count of a race.                                                    *)

LaunchCall == 4   \* the place of the launch among the calls of a batch

\* What was searched is at most so much, and just so much if batches fit an int.
SearchedFor(count) == searched <= count /\ (BatchFits => searched = count)

\* What was searched was counted or, once it is launched, is the batch at hand,
\* which still fits the budget; a race that ends with less than its budget
\* counted has a winner or met an error.
CountInv ==
    /\ total_tried \in Nat /\ searched \in Nat
    /\ calls \in 0..7
    /\ searched <= MAX_NONCES
    /\ InRace /\ found => pc = "join"
    /\ (pc = "batch"
        \/ (pc = "join" /\ (found \/ total_tried = MAX_NONCES)))
           => SearchedFor(total_tried)
    /\ pc = "run_batch" =>
           /\ total_tried < MAX_NONCES
           /\ total_tried + nonces <= MAX_NONCES
           /\ nonces <= batch_size
           /\ SearchedFor(total_tried +
                          (IF calls >= LaunchCall THEN nonces ELSE 0))

\* Nothing is counted before the first race.
LEMMA CountStart ==
    ASSUME LaunchInit
    PROVE  CountInv
BY GpuAssumption DEF LaunchInit, Started, CountInv, InRace

\* The launch is the one call of a batch that searches, and it searches no more
\* than the batch, and all of it if batches fit an int.
LEMMA CallKeepsCount ==
    ASSUME CountInv, DeviceInv, CudaCall
    PROVE  CountInv'
<1> USE GpuAssumption
<1>1. calls < 7 /\ calls' = calls + 1 /\ pc = "run_batch"
  BY DEF CudaCall, BatchCalls
<1>2. BatchCalls[calls'] = "launch" <=> calls' = LaunchCall
  <2>1. calls' \in 1..7
    BY <1>1 DEF CountInv
  <2> QED
    BY <2>1 DEF BatchCalls, LaunchCall
<1>3. UNCHANGED <<pc, batch_size, nonces, total_tried, found>>
  BY DEF CudaCall
<1>4. /\ nonces \in 0..MAX_NONCES /\ total_tried \in Nat /\ searched \in Nat
      /\ batch_size \in Nat /\ nonces <= batch_size
      /\ BatchFits' = BatchFits
  BY <1>1, <1>3 DEF CountInv, DeviceInv, BatchFits
<1>5. CASE calls' = LaunchCall
  <2> DEFINE count == as_c_int(nonces)
  <2>1. count \in Nat /\ count <= nonces
    BY <1>4, IntOfNat DEF CudaCall, BatchAccepted, AcceptedByDevice
  <2>2. BatchFits => count = nonces
    <3>1. BatchFits => nonces \in 0..INT_MAX
      BY <1>4 DEF BatchFits
    <3> QED
      BY <3>1, SmallIntKept
  <2>3. touched' = WorkingThreads(count)
    BY <1>2, <1>5 DEF CudaCall
  <2> HIDE DEF count
  <2>4. Cardinality(touched') = count
    BY <2>1, <2>3, OneThreadPerNonce
  <2>5. searched' = searched + count
    BY <1>2, <1>5, <2>4 DEF CudaCall
  <2>6. SearchedFor(total_tried)
    BY <1>1, <1>5 DEF CountInv, LaunchCall
  <2>7. SearchedFor(total_tried + nonces)'
    BY <1>3, <1>4, <2>1, <2>2, <2>5, <2>6 DEF SearchedFor
  <2>8. searched' <= MAX_NONCES
    <3>1. searched' <= total_tried + nonces
      BY <1>3, <2>7 DEF SearchedFor
    <3>2. total_tried + nonces <= MAX_NONCES
      BY <1>1 DEF CountInv
    <3>3. searched' \in Nat
      BY <1>4, <2>1, <2>5
    <3> QED
      BY <1>4, <3>1, <3>2, <3>3
  <2> QED
    BY <1>1, <1>3, <1>4, <1>5, <2>1, <2>5, <2>7, <2>8
       DEF CountInv, InRace, LaunchCall
<1>6. CASE calls' # LaunchCall
  <2>1. searched' = searched
    BY <1>2, <1>6 DEF CudaCall
  <2> QED
    BY <1>1, <1>3, <1>4, <1>6, <2>1
       DEF CountInv, SearchedFor, InRace, LaunchCall
<1> QED
  BY <1>5, <1>6

\* A batch that ends counts what its launch searched; errors count nothing.
LEMMA RaceKeepsCount ==
    ASSUME CountInv, DeviceInv,
           RaceStep \/ StartRace \/ ReporterEnds \/ Exit \/ StartUp
    PROVE  CountInv'
<1> USE GpuAssumption DEF InRace, LaunchCall, SearchedFor, BatchFits
<1>1. CASE GenerateBatch
  <2>1. /\ this_batch \in Nat /\ total_tried + this_batch <= MAX_NONCES
        /\ this_batch <= batch_size
    BY <1>1 DEF GenerateBatch, this_batch, DeviceInv, CountInv
  <2> QED
    BY <1>1, <2>1 DEF GenerateBatch, CountInv
<1>2. CASE BudgetSpent
  BY <1>2 DEF BudgetSpent, StopReporter, CountInv
<1>3. CASE GpuError
  BY <1>3 DEF GpuError, StopReporter, CountInv
<1>4. CASE BatchWithoutWinner
  BY <1>4 DEF BatchWithoutWinner, CountInv, BatchCalls, DeviceInv
<1>5. CASE BatchWithWinner
  BY <1>5 DEF BatchWithWinner, StopReporter, CountInv, BatchCalls, DeviceInv
<1>6. CASE Join
  BY <1>6 DEF Join, race, CountInv
<1>7. CASE StartRace
  BY <1>7 DEF StartRace, CountInv
<1>8. CASE ReporterEnds
  BY <1>8 DEF ReporterEnds, CountInv
<1>9. CASE Exit
  BY <1>9 DEF Exit, race, CountInv
<1>10. CASE StartUp
  BY <1>10 DEF StartUp, NewRefused, NewAccepted, Malloc, CopyInitialState,
               InitFails, FallBack, race, CountInv
<1> QED
  BY <1>1, <1>2, <1>3, <1>4, <1>5, <1>6, <1>7, <1>8, <1>9, <1>10,
     CallKeepsCount DEF RaceStep

-----------------------------------------------------------------------------
(* The script.                                                             *)

\* nvcc is found before the script gets past install_cuda, under the MODE that
\* the build sees; the binary of this launch is the one that MODE asks for.
ScriptInv ==
    /\ KeyFileRemoved
    /\ BuildFindsNvcc
    /\ step = "python" => BuildScriptOk
    /\ built_in <= launches /\ built_in \in Nat /\ launches \in Nat
    /\ (built_in = launches /\ step # "idle") =>
           /\ step \in {"mktemp", "convert", "args", "start", "miner"}
           /\ binary = Features
    /\ binary \in {"missing", "cpu", "gpu"}
    /\ step \in {"mktemp", "convert", "args", "start", "miner"} =>
           binary # "missing"

\* What is there before the first launch.
LEMMA ScriptStart ==
    ASSUME LaunchInit
    PROVE  ScriptInv
BY DEF LaunchInit, ScriptInv, KeyFileRemoved, BuildFindsNvcc

\* Everything the script does, up to the start of the miner.
ScriptStep ==
    \/ Launch
    \/ InstallPackages \/ InstallRust \/ FindCuda \/ InstallCuda
    \/ InstallPython
    \/ LoadEnv \/ Build \/ MakeKeyFile \/ ConvertKey \/ ExecMiner
    \/ Abort \/ StartFails \/ MinerEnds

\* Each step of the script keeps its key file and its toolkit accounted for.
LEMMA ScriptKeepsInv ==
    ASSUME ScriptInv, ScriptStep
    PROVE  ScriptInv'
<1> USE DEF ScriptInv, KeyFileRemoved, BuildFindsNvcc, BuildScriptOk,
            which_nvcc, Features
<1>1. CASE Launch
  BY <1>1 DEF Launch, built, keys
<1>2. CASE InstallPackages
  BY <1>2 DEF InstallPackages, built, keys
<1>3. CASE InstallRust
  BY <1>3 DEF InstallRust, shell, built, keys
<1>4. CASE FindCuda
  BY <1>4 DEF FindCuda, ExportCuda, shell, built, keys
<1>5. CASE InstallCuda
  BY <1>5 DEF InstallCuda, ExportCuda, built, keys
<1>6. CASE InstallPython
  BY <1>6 DEF InstallPython, built, keys
<1>7. CASE LoadEnv
  BY <1>7 DEF LoadEnv, built, keys
<1>8. CASE Build
  BY <1>8 DEF Build, shell, keys
<1>9. CASE MakeKeyFile
  BY <1>9 DEF MakeKeyFile, shell, built
<1>10. CASE ConvertKey
  BY <1>10 DEF ConvertKey, shell, built, keys
<1>11. CASE ExecMiner
  BY <1>11 DEF ExecMiner, shell, built
<1>12. CASE Abort
  BY <1>12 DEF Abort, shell, built
<1>13. CASE StartFails
  BY <1>13 DEF StartFails, shell, built, keys
<1>14. CASE MinerEnds
  BY <1>14 DEF MinerEnds, shell, built, keys
<1> QED
  BY <1>1, <1>2, <1>3, <1>4, <1>5, <1>6, <1>7, <1>8, <1>9, <1>10, <1>11,
     <1>12, <1>13, <1>14 DEF ScriptStep

\* None of it touches the process.
LEMMA ScriptLeavesProcess ==
    ASSUME ScriptStep
    PROVE  UNCHANGED vars
BY DEF ScriptStep, Launch, InstallPackages, InstallRust, FindCuda, InstallCuda,
       InstallPython, LoadEnv, Build, MakeKeyFile, ConvertKey, ExecMiner,
       Abort, StartFails, MinerEnds

-----------------------------------------------------------------------------
(* The solver mode of a running miner.                                     *)

\* GPU mode needs a build made for it and, once past start-up, a solver; only
\* there does a process without one leave the mode of its build.
ModeInv ==
    step = "miner" =>
        /\ mode = "gpu" => binary = "gpu"
        /\ (pc \in {"new", "malloc"} \/ handle) => mode = "gpu"
        /\ (pc = "loop" \/ InRace) => (mode = "gpu" => handle)

\* The process changes its mode only where it falls back.
LEMMA ProcessKeepsMode ==
    ASSUME ModeInv, MinerRuns
    PROVE  ModeInv'
<1> USE DEF ModeInv, InRace, MinerRuns, script, built
<1>1. CASE StartUp
  BY <1>1 DEF StartUp, NewRefused, NewAccepted, Malloc, CopyInitialState,
              InitFails, Release, FallBack, device
<1>2. CASE RaceStep
  BY <1>2 DEF RaceStep, GenerateBatch, BudgetSpent, CudaCall, GpuError,
              BatchWithoutWinner, BatchWithWinner, Join, StopReporter, device
<1>3. CASE StartRace \/ ReporterEnds \/ Exit
  BY <1>3 DEF StartRace, ReporterEnds, Exit, Release, device
<1> QED
  BY <1>1, <1>2, <1>3 DEF Next

-----------------------------------------------------------------------------
(* All of it.                                                              *)

\* The inductive invariant.
LaunchInv == DeviceInv /\ CountInv /\ ScriptInv /\ ModeInv

\* A process starts without a context, in the mode of its build.
LEMMA MinerStartsRight ==
    ASSUME LaunchInv, MinerStarts
    PROVE  LaunchInv'
<1> USE LauncherAssumption, GpuAssumption DEF LaunchInv, InRace
<1>1. batch_size' \in Nat /\ nonces' \in Nat
  BY DEF MinerStarts, GpuBatchArgs
<1>2. DeviceInv'
  BY <1>1 DEF MinerStarts, DeviceInv, NoDeviceLeak, ThreadsInBounds,
              NoReporterLeft
<1>3. CountInv'
  BY DEF MinerStarts, CountInv
<1>4. ScriptInv'
  BY DEF MinerStarts, ScriptInv, KeyFileRemoved, BuildFindsNvcc, Features,
         keys, built, shell
<1>5. ModeInv'
  BY DEF MinerStarts, ModeInv, ScriptInv, built
<1> QED
  BY <1>2, <1>3, <1>4, <1>5

\* A step of the process leaves the script's part alone.
LEMMA ProcessKeepsInv ==
    ASSUME LaunchInv, MinerRuns
    PROVE  LaunchInv'
<1> USE DEF LaunchInv
<1>1. Next /\ UNCHANGED script
  BY DEF MinerRuns
<1>2. DeviceInv'
  BY <1>1, StartUpKeepsDevice, RaceKeepsDevice DEF Next, CountInv
<1>3. CountInv'
  BY <1>1, RaceKeepsCount DEF Next
<1>4. ScriptInv'
  BY <1>1 DEF ScriptInv, KeyFileRemoved, BuildFindsNvcc, BuildScriptOk,
              which_nvcc, Features, script, shell, built, keys
<1>5. ModeInv'
  BY ProcessKeepsMode
<1> QED
  BY <1>2, <1>3, <1>4, <1>5

\* A process that is left alone keeps its part.
LEMMA QuietProcess ==
    ASSUME DeviceInv, CountInv, UNCHANGED vars
    PROVE  DeviceInv' /\ CountInv'
BY DEF vars, DeviceInv, CountInv, SearchedFor, BatchFits, NoDeviceLeak, ThreadsInBounds,
       NoReporterLeft, InRace

\* A step of the script leaves the process's part alone.
LEMMA ScriptKeepsAll ==
    ASSUME LaunchInv, ScriptStep
    PROVE  LaunchInv'
<1> USE DEF LaunchInv
<1>1. DeviceInv' /\ CountInv'
  BY ScriptLeavesProcess, QuietProcess
<1>2. ScriptInv'
  BY ScriptKeepsInv
<1>3. step' # "miner"
  BY DEF ScriptStep, Launch, InstallPackages, InstallRust, FindCuda,
         InstallCuda, InstallPython, LoadEnv, Build, MakeKeyFile, ConvertKey,
         ExecMiner, Abort, StartFails, MinerEnds
<1> QED
  BY <1>1, <1>2, <1>3 DEF ModeInv

\* The invariant is preserved, the script and the process taking turns.
LEMMA LaunchInvInductive ==
    LaunchSpec => []LaunchInv
<1>1. LaunchInit => LaunchInv
  BY DeviceStart, CountStart, ScriptStart
     DEF LaunchInv, ModeInv, LaunchInit
<1>2. LaunchInv /\ [LaunchNext]_launch_vars => LaunchInv'
  <2> SUFFICES ASSUME LaunchInv, [LaunchNext]_launch_vars
               PROVE  LaunchInv'
    OBVIOUS
  <2>1. CASE ScriptStep
    BY <2>1, ScriptKeepsAll
  <2>2. CASE MinerStarts
    BY <2>2, MinerStartsRight
  <2>3. CASE MinerRuns
    BY <2>3, ProcessKeepsInv
  <2>4. CASE UNCHANGED launch_vars
    <3>1. UNCHANGED vars /\ UNCHANGED script
      BY <2>4 DEF launch_vars
    <3>2. DeviceInv' /\ CountInv'
      BY <3>1, QuietProcess DEF LaunchInv
    <3>3. ScriptInv'
      BY <3>1 DEF LaunchInv, ScriptInv, KeyFileRemoved, BuildFindsNvcc,
                  BuildScriptOk, which_nvcc, Features, script, shell, built,
                  keys
    <3>4. ModeInv'
      BY <3>1 DEF LaunchInv, ModeInv, InRace, vars, device, script, built
    <3> QED
      BY <3>2, <3>3, <3>4 DEF LaunchInv
  <2> QED
    BY <2>1, <2>2, <2>3, <2>4 DEF LaunchNext, ScriptStep
<1> QED
  BY <1>1, <1>2, PTL DEF LaunchSpec

\* No failure of a CUDA call, at start-up or in a race, and no exit leaks the
\* buffers of the device, in any number of launches.
THEOREM NeverLeaks == LaunchSpec => []NoDeviceLeak
<1>1. LaunchInv => NoDeviceLeak
  BY DEF LaunchInv, DeviceInv
<1> QED
  BY <1>1, LaunchInvInductive, PTL

\* No launch of the kernel works outside its buffers, for any batch size, any
\* width of a C int and any launch geometry.
THEOREM AlwaysInBounds == LaunchSpec => []ThreadsInBounds
<1>1. LaunchInv => ThreadsInBounds
  BY DEF LaunchInv, DeviceInv
<1> QED
  BY <1>1, LaunchInvInductive, PTL

\* Every way out of a GPU race joins the progress reporter.
THEOREM ReporterAlwaysJoined == LaunchSpec => []NoReporterLeft
<1>1. LaunchInv => NoReporterLeft
  BY DEF LaunchInv, DeviceInv
<1> QED
  BY <1>1, LaunchInvInductive, PTL

\* A GPU race keeps to its budget, is credited with what it searched or more,
\* and with just that when batches fit an int and no call failed, for any
\* budget, batch size, width of an int and geometry.
THEOREM SearchedAlwaysCounted == LaunchSpec => []CountIsSearched
<1>1. LaunchInv => CountIsSearched
  BY GpuAssumption
     DEF LaunchInv, CountInv, SearchedFor, CountIsSearched, nonces_tried, InRace
<1> QED
  BY <1>1, LaunchInvInductive, PTL

\* A launch that ends before it becomes a miner has removed its key file.
THEOREM KeyFileAlwaysRemoved == LaunchSpec => []KeyFileRemoved
<1>1. LaunchInv => KeyFileRemoved
  BY DEF LaunchInv, ScriptInv
<1> QED
  BY <1>1, LaunchInvInductive, PTL

\* The build script always finds nvcc in a build the launcher starts.
THEOREM NvccAlwaysFound == LaunchSpec => []BuildFindsNvcc
<1>1. LaunchInv => BuildFindsNvcc
  BY DEF LaunchInv, ScriptInv
<1> QED
  BY <1>1, LaunchInvInductive, PTL

\* A running miner is in GPU mode exactly with a solver, and in the launch that
\* built it exactly when MODE says so too, through any number of launches.
THEOREM ModeAlwaysObeyed == LaunchSpec => []ModeObeyed
<1>1. LaunchInv => ModeObeyed
  BY DEF LaunchInv, ScriptInv, ModeInv, ModeObeyed, Features
<1> QED
  BY <1>1, LaunchInvInductive, PTL

-----------------------------------------------------------------------------
(* Types.                                                                  *)

\* The size of a device context fits the C int it was narrowed to.
LEMMA IntFits ==
    ASSUME NEW x \in Nat
    PROVE  as_c_int(x) \in Int /\ as_c_int(x) <= INT_MAX
<1> USE GpuAssumption
<1> DEFINE width == 2 * (INT_MAX + 1)
           shifted == x + INT_MAX + 1
<1>1. width \in Nat \ {0} /\ shifted \in Nat
  OBVIOUS
<1>2. as_c_int(x) = (shifted % width) - (INT_MAX + 1)
  BY DEF as_c_int
<1>3. shifted % width \in 0..(width - 1)
  <2> HIDE DEF width, shifted
  <2> QED
    BY <1>1, DivMod
<1> DEFINE r == shifted % width
<1>4. r \in Int /\ r <= 2 * (INT_MAX + 1) - 1 /\ as_c_int(x) = r - (INT_MAX + 1)
  BY <1>2, <1>3
<1> HIDE DEF r, shifted, width
<1> QED
  BY <1>4

\* The types, and a script that runs is that of some launch.
LaunchTypeInv == LaunchTypeOK /\ (step # "idle" => launches > 0)

\* The steps of the process keep its types.
LEMMA ProcessKeepsType ==
    ASSUME TypeOK, DeviceInv, CountInv, Next
    PROVE  TypeOK'
<1> USE GpuAssumption DEF TypeOK
<1>0. 0 \in 0..INT_MAX /\ {} \subseteq Buffers
  OBVIOUS
<1>1. CASE StartUp
  <2>1. CASE NewAccepted
    <3>1. as_c_int(batch_size) \in 0..INT_MAX
      BY <2>1, IntFits DEF NewAccepted
    <3> QED
      BY <2>1, <3>1 DEF NewAccepted, race
  <2>2. CASE Malloc
    <3>1. allocated' \subseteq Buffers
      BY <2>2, NextBuffer DEF Malloc
    <3> QED
      BY <2>2, <3>1 DEF Malloc, race
  <2>3. CASE NewRefused
    BY <2>3 DEF NewRefused, device, race
  <2>4. CASE CopyInitialState
    BY <2>4 DEF CopyInitialState, race
  <2>5. CASE InitFails
    BY <1>0, <2>5 DEF InitFails, Release, race
  <2>6. CASE FallBack
    BY <2>6 DEF FallBack, device, race
  <2> QED
    BY <1>1, <2>1, <2>2, <2>3, <2>4, <2>5, <2>6 DEF StartUp
<1>2. CASE GenerateBatch
  <2>1. this_batch \in 0..MAX_NONCES
    BY <1>2 DEF GenerateBatch, this_batch
  <2> QED
    BY <1>2, <2>1 DEF GenerateBatch, device, BatchCalls
<1>3. CASE CudaCall
  <2> DEFINE count == as_c_int(nonces)
  <2>1. count \in Nat /\ count <= INT_MAX
    BY <1>3, IntOfNat DEF CudaCall, BatchAccepted, AcceptedByDevice
  <2>2. /\ WorkingThreads(count) = 0..(count - 1)
        /\ Cardinality(WorkingThreads(count)) = count
    BY <2>1, OneThreadPerNonce
  <2>3. touched' \subseteq 0..INT_MAX /\ searched' \in Nat
    <3>1. \/ touched' = touched /\ searched' = searched
          \/ /\ touched' = WorkingThreads(count)
             /\ searched' = searched + Cardinality(touched')
      BY <1>3 DEF CudaCall
    <3> HIDE DEF count
    <3>2. 0..(count - 1) \subseteq 0..INT_MAX
      BY <2>1
    <3>3. searched + count \in Nat
      BY <2>1
    <3> QED
      BY <2>2, <3>1, <3>2, <3>3
  <2>4. calls' \in 0..Len(BatchCalls)
    BY <1>3 DEF CudaCall, BatchCalls
  <2> QED
    BY <1>3, <2>3, <2>4 DEF CudaCall, device
<1>4. CASE BatchWithoutWinner \/ BatchWithWinner
  <2>1. total_tried + nonces \in Nat
    OBVIOUS
  <2> QED
    BY <1>4, <2>1 DEF BatchWithoutWinner, BatchWithWinner, StopReporter, device
<1>5. CASE BudgetSpent \/ GpuError \/ Join
  BY <1>5 DEF BudgetSpent, GpuError, Join, StopReporter, device, race
<1>6. CASE StartRace
  <2>1. races' \in 0..MAX_RACES
    BY <1>6 DEF StartRace
  <2> QED
    BY <1>6, <2>1 DEF StartRace, device
<1>7. CASE ReporterEnds
  BY <1>7 DEF ReporterEnds, device
<1>8. CASE Exit
  <2>1. UNCHANGED device \/ (handle' = FALSE /\ capacity' = 0 /\ allocated' = {})
    BY <1>8, ReleaseFreesAll DEF Exit, Release
  <2> QED
    BY <1>0, <1>8, <2>1 DEF Exit, device, race
<1> QED
  BY <1>1, <1>2, <1>3, <1>4, <1>5, <1>6, <1>7, <1>8 DEF Next, RaceStep

\* The steps of the script keep its types.
LEMMA ScriptKeepsType ==
    ASSUME LaunchTypeInv, ScriptStep
    PROVE  LaunchTypeInv'
<1> USE DEF LaunchTypeInv, LaunchTypeOK, Features
<1>0. TypeOK'
  <2>1. TypeOK /\ UNCHANGED vars
    BY ScriptLeavesProcess
  <2> QED
    BY <2>1 DEF TypeOK, vars
<1>1. CASE Launch
  <2>1. launches' \in 0..MAX_LAUNCHES /\ launches' > 0
        /\ 1..launches \subseteq 1..launches'
    BY <1>1, LauncherAssumption DEF Launch
  <2>2. key_files' \cup miners' \subseteq 1..launches'
    BY <1>1, <2>1 DEF Launch, keys
  <2>3. MODE' \in {"unset", "cpu", "gpu", "other"}
        /\ CUDA_PATH' \in {"unset", "stale", "good"}
        /\ step' \in {"packages", "config"}
    BY <1>1 DEF Launch
  <2>4. {deps', SUDO', nvcc_on_path', packages', rust', driver', py_modules'}
            \subseteq BOOLEAN
    BY <1>1 DEF Launch, machine
  <2> QED
    BY <1>0, <1>1, <2>1, <2>2, <2>3, <2>4 DEF Launch, machine, built
<1>2. CASE InstallPackages \/ InstallRust
  BY <1>0, <1>2 DEF InstallPackages, InstallRust, shell, built, keys
<1>3. CASE FindCuda \/ InstallCuda
  BY <1>0, <1>3 DEF FindCuda, InstallCuda, ExportCuda, shell, machine, built,
                    keys
<1>4. CASE InstallPython
  BY <1>0, <1>4 DEF InstallPython, built, keys
<1>5. CASE LoadEnv
  BY <1>0, <1>5 DEF LoadEnv, machine, built, keys
<1>6. CASE Build
  BY <1>0, <1>6 DEF Build, shell, machine, keys
<1>7. CASE MakeKeyFile
  BY <1>0, <1>7 DEF MakeKeyFile, shell, machine, built
<1>8. CASE ConvertKey
  BY <1>0, <1>8 DEF ConvertKey, shell, machine, built, keys
<1>9. CASE ExecMiner
  BY <1>0, <1>9 DEF ExecMiner, shell, machine, built
<1>10. CASE Abort
  BY <1>0, <1>10 DEF Abort, shell, machine, built
<1>11. CASE StartFails \/ MinerEnds
  BY <1>0, <1>11 DEF StartFails, MinerEnds, shell, machine, built, keys
<1> QED
  BY <1>1, <1>2, <1>3, <1>4, <1>5, <1>6, <1>7, <1>8, <1>9, <1>10, <1>11
     DEF ScriptStep

\* Types hold in every state, through any number of launches: the size of a
\* device context is a C int, however large a batch was asked for, and the
\* nonces of a batch stay within their budget.
THEOREM LaunchTypeCorrect == LaunchSpec => []LaunchTypeOK
<1>1. LaunchInit => LaunchTypeInv
  <2> SUFFICES ASSUME LaunchInit PROVE LaunchTypeInv
    OBVIOUS
  <2>1. TypeOK
    <3>1. DEFAULT_BATCH \in BatchSizes /\ 0 \in 0..INT_MAX
          /\ 0 \in 0..MAX_NONCES /\ 0 \in 0..MAX_RACES
          /\ 0 \in 0..Len(BatchCalls)
      BY LauncherAssumption, GpuAssumption DEF BatchCalls
    <3> QED
      BY <3>1 DEF LaunchInit, Started, TypeOK
  <2>2. launches \in 0..MAX_LAUNCHES /\ key_files \cup miners \subseteq 1..launches
    BY LauncherAssumption DEF LaunchInit
  <2>3. {deps, SUDO, nvcc_on_path, packages, rust, driver, py_modules}
            \subseteq BOOLEAN
    BY DEF LaunchInit
  <2> QED
    BY <2>1, <2>2, <2>3 DEF LaunchInit, LaunchTypeInv, LaunchTypeOK
<1>2. LaunchInv /\ LaunchTypeInv /\ [LaunchNext]_launch_vars => LaunchTypeInv'
  <2> SUFFICES ASSUME LaunchInv, LaunchTypeInv, [LaunchNext]_launch_vars
               PROVE  LaunchTypeInv'
    OBVIOUS
  <2>1. CASE ScriptStep
    BY <2>1, ScriptKeepsType
  <2>2. CASE MinerStarts
    <3>1. binary # "missing"
      BY <2>2 DEF MinerStarts, LaunchInv, ScriptInv
    <3>2. TypeOK'
      <4>1. batch_size' \in BatchSizes
        BY <2>2, LauncherAssumption DEF MinerStarts, GpuBatchArgs
      <4>2. 0 \in 0..INT_MAX /\ 0 \in 0..MAX_NONCES /\ 0 \in 0..MAX_RACES
            /\ 0 \in 0..Len(BatchCalls)
        BY GpuAssumption DEF BatchCalls
      <4>3. binary \in {"cpu", "gpu"}
        BY <3>1 DEF LaunchTypeInv, LaunchTypeOK
      <4> QED
        BY <2>2, <4>1, <4>2, <4>3 DEF MinerStarts, TypeOK
    <3> QED
      BY <2>2, <3>2 DEF MinerStarts, LaunchTypeInv, LaunchTypeOK, shell,
                        machine, built, keys
  <2>3. CASE MinerRuns
    <3>1. TypeOK'
      BY <2>3, ProcessKeepsType
         DEF MinerRuns, LaunchInv, LaunchTypeInv, LaunchTypeOK
    <3> QED
      BY <2>3, <3>1 DEF MinerRuns, script, shell, machine, built, keys,
                        LaunchTypeInv, LaunchTypeOK
  <2>4. CASE UNCHANGED launch_vars
    <3>1. TypeOK'
      BY <2>4 DEF launch_vars, vars, LaunchTypeInv, LaunchTypeOK, TypeOK
    <3> QED
      BY <2>4, <3>1 DEF launch_vars, script, shell, machine, built, keys,
                        LaunchTypeInv, LaunchTypeOK
  <2> QED
    BY <2>1, <2>2, <2>3, <2>4 DEF LaunchNext, ScriptStep
<1>3. LaunchTypeInv => LaunchTypeOK
  BY DEF LaunchTypeInv
<1> QED
  BY <1>1, <1>2, <1>3, LaunchInvInductive, PTL DEF LaunchSpec
=============================================================================
