------------------------------ MODULE GpuBatch ------------------------------
(***************************************************************************)
(* The GPU side of the miner: start-up of the device context and the fall  *)
(* back to the CPU (clients/cli-miner/src/main.rs), the GPU race with its  *)
(* progress reporter, the host wrapper (crates/equihash-gpu/src/lib.rs,    *)
(* cuda_impl.rs) and the C interface of kernel.cu below it.                *)
(*                                                                         *)
(* Every CUDA call may fail.  What a nonce's search finds is abstracted to *)
(* whether a batch holds a candidate under the target; Wagner models the   *)
(* search.  Batch sizes cross the C interface as a signed int, of a width  *)
(* that is a parameter.                                                    *)
(***************************************************************************)
EXTENDS Integers, FiniteSets, Sequences

CONSTANTS
    BatchSizes,         \* values of --gpu-batch
    MAX_NONCES,         \* --max-nonces-per-round, the budget of one race
    INT_MAX,            \* largest C int
    THREADS_PER_BLOCK,  \* launch geometry
    MAX_RACES           \* bound on the races of one session

ASSUME GpuAssumption ==
    /\ BatchSizes \subseteq Nat
    /\ MAX_NONCES \in Nat
    /\ INT_MAX \in Nat
    /\ THREADS_PER_BLOCK \in Nat \ {0}
    /\ MAX_RACES \in Nat

VARIABLES
    pc,             \* where the main thread is
    mode,           \* solver_mode: "gpu" or "cpu"
    batch_size,     \* --gpu-batch
    handle,         \* a Context with a device context behind it exists
    capacity,       \* the device context's batch_size, 0 without one
    allocated,      \* device buffers allocated and not freed
    calls,          \* CUDA calls made so far by this batch
    nonces,         \* number of nonces in this batch
    touched,        \* nonce slots the last launch worked on
    searched,       \* nonces searched in this race
    total_tried,    \* the race's own count of them
    found,          \* the race has a winner
    progress_stop,  \* the reporter's stop flag
    reporter,       \* the reporter thread: "running" or "ended"
    races           \* races started

vars == <<pc, mode, batch_size, handle, capacity, allocated, calls, nonces,
          touched, searched, total_tried, found, progress_stop, reporter,
          races>>
device == <<handle, capacity, allocated>>
race == <<calls, nonces, touched, searched, total_tried, found,
          progress_stop, reporter, races>>

\* The device buffers, in the order in which equium_init allocates them.
BufferOrder == <<"h_init", "prefix", "nonces", "workspaces", "out_valid",
                 "out_indices">>
Buffers == {BufferOrder[i] : i \in DOMAIN BufferOrder}

\* The CUDA calls of one batch, in order.
BatchCalls == <<"copy_prefix", "copy_nonces", "clear_valid", "launch",
                "synchronize", "read_valid", "read_indices">>

\* Mutation: the batch size is not narrowed.
as_c_int_wide(x) == x

\* `as c_int`: the low bits of a usize, as a signed number.
as_c_int(x) ==
    ((x + INT_MAX + 1) % (2 * (INT_MAX + 1))) - (INT_MAX + 1)

-----------------------------------------------------------------------------
(* Start-up: GpuSolver::new, Context::new, equium_init.                    *)

\* Mutation: the largest buffer is forgotten.
Freed_but_workspaces ==
    {"h_init", "prefix", "nonces", "out_valid", "out_indices"}

\* What the clean-up frees if it is there, line by line.
Freed ==
    {"h_init", "prefix", "nonces", "workspaces", "out_valid", "out_indices"}

\* The clean-up of a failed equium_init, and equium_destroy.
Release ==
    /\ handle' = FALSE
    /\ capacity' = 0
    /\ allocated' = allocated \ Freed

\* Refused before anything is allocated: zero, or not positive as an int, or
\* no host memory for the context.
NewRefused ==
    /\ pc = "new"
    /\ pc' = "initialized"
    /\ UNCHANGED <<mode, batch_size, device, race>>

NewAccepted ==
    /\ pc = "new"
    /\ batch_size # 0
    /\ as_c_int(batch_size) > 0
    /\ capacity' = as_c_int(batch_size)
    /\ pc' = "malloc"
    /\ UNCHANGED <<mode, batch_size, handle, allocated, race>>

Malloc ==
    /\ pc = "malloc"
    /\ allocated # Buffers
    /\ allocated' =
           allocated \cup {BufferOrder[Cardinality(allocated) + 1]}
    /\ UNCHANGED <<pc, mode, batch_size, handle, capacity, race>>

\* The copy of the initial hash state, and the context is handed out.
CopyInitialState ==
    /\ pc = "malloc"
    /\ allocated = Buffers
    /\ handle' = TRUE
    /\ pc' = "initialized"
    /\ UNCHANGED <<mode, batch_size, capacity, allocated, race>>

\* An allocation or that copy fails.
InitFails ==
    /\ pc = "malloc"
    /\ Release
    /\ pc' = "initialized"
    /\ UNCHANGED <<mode, batch_size, race>>

FallBack ==
    /\ pc = "initialized"
    /\ mode' = IF handle THEN mode ELSE "cpu"
    /\ pc' = "loop"
    /\ UNCHANGED <<batch_size, device, race>>

-----------------------------------------------------------------------------
(* race_for_solution_gpu.                                                  *)

StartRace ==
    /\ pc = "loop"
    /\ mode = "gpu"
    /\ races < MAX_RACES
    /\ races' = races + 1
    /\ total_tried' = 0
    /\ searched' = 0
    /\ found' = FALSE
    /\ progress_stop' = FALSE
    /\ reporter' = "running"
    /\ pc' = "batch"
    /\ UNCHANGED <<mode, batch_size, device, calls, nonces, touched>>

\* Mutation: the last batch is as large as the others.
this_batch_full == batch_size

this_batch ==
    LET remaining == MAX_NONCES - total_tried
    IN  IF batch_size < remaining THEN batch_size ELSE remaining

GenerateBatch ==
    /\ pc = "batch"
    /\ total_tried < MAX_NONCES
    /\ nonces' = this_batch
    /\ calls' = 0
    /\ pc' = "run_batch"
    /\ UNCHANGED <<mode, batch_size, device, touched, searched, total_tried,
                   found, progress_stop, reporter, races>>

\* Mutation: the reporter is joined without being told to stop.
StopReporter_silent ==
    /\ pc' = "join"
    /\ UNCHANGED progress_stop

StopReporter ==
    /\ progress_stop' = TRUE
    /\ pc' = "join"

BudgetSpent ==
    /\ pc = "batch"
    /\ total_tried >= MAX_NONCES
    /\ StopReporter
    /\ UNCHANGED <<mode, batch_size, device, calls, nonces, touched, searched,
                   total_tried, found, reporter, races>>

\* Mutation: the device trusts the size it is given.
AcceptedByDevice_unchecked(count) == count > 0

\* equium_run_batch accepts the batch.
AcceptedByDevice(count) == handle /\ count > 0 /\ count <= capacity

\* The threads of the launch that work: whole blocks are started, and the ones
\* past the batch return at once.
WorkingThreads(count) ==
    LET blocks == (count + THREADS_PER_BLOCK - 1) \div THREADS_PER_BLOCK
    IN  {tid \in 0..(blocks * THREADS_PER_BLOCK - 1) : tid < count}

\* The host's and the device's check come before the first call.  A batch is
\* never empty: Context::new has refused a batch size of zero.
BatchAccepted ==
    /\ nonces > 0
    /\ nonces <= batch_size
    /\ AcceptedByDevice(as_c_int(nonces))

CudaCall ==
    /\ pc = "run_batch"
    /\ BatchAccepted
    /\ calls < Len(BatchCalls)
    /\ calls' = calls + 1
    /\ IF BatchCalls[calls'] = "launch"
       THEN /\ touched' = WorkingThreads(as_c_int(nonces))
            /\ searched' = searched + Cardinality(touched')
       ELSE UNCHANGED <<touched, searched>>
    /\ UNCHANGED <<pc, mode, batch_size, device, nonces, total_tried, found,
                   progress_stop, reporter, races>>

\* A batch refused, or a call that fails, ends the race without a winner.
GpuError ==
    /\ pc = "run_batch"
    /\ calls < Len(BatchCalls)
    /\ StopReporter
    /\ UNCHANGED <<mode, batch_size, device, calls, nonces, touched, searched,
                   total_tried, found, reporter, races>>

\* No candidate, or none below the target.
BatchWithoutWinner ==
    /\ pc = "run_batch"
    /\ calls = Len(BatchCalls)
    /\ total_tried' = total_tried + nonces
    /\ pc' = "batch"
    /\ UNCHANGED <<mode, batch_size, device, calls, nonces, touched, searched,
                   found, progress_stop, reporter, races>>

\* Mutation: the early return leaves the reporter behind.
BatchWithWinner_unjoined ==
    /\ pc = "run_batch"
    /\ calls = Len(BatchCalls)
    /\ total_tried' = total_tried + nonces
    /\ found' = TRUE
    /\ pc' = "loop"
    /\ UNCHANGED <<mode, batch_size, device, calls, nonces, touched, searched,
                   progress_stop, reporter, races>>

\* The early return from inside the loop over the candidates.
BatchWithWinner ==
    /\ pc = "run_batch"
    /\ calls = Len(BatchCalls)
    /\ total_tried' = total_tried + nonces
    /\ found' = TRUE
    /\ StopReporter
    /\ UNCHANGED <<mode, batch_size, device, calls, nonces, touched, searched,
                   reporter, races>>

\* The reporter looks at its flag when it wakes up.
ReporterEnds ==
    /\ reporter = "running"
    /\ progress_stop
    /\ reporter' = "ended"
    /\ UNCHANGED <<pc, mode, batch_size, device, calls, nonces, touched,
                   searched, total_tried, found, progress_stop, races>>

Join ==
    /\ pc = "join"
    /\ reporter = "ended"
    /\ pc' = "loop"
    /\ UNCHANGED <<mode, batch_size, device, race>>

-----------------------------------------------------------------------------

\* The main loop returns, and the context is dropped with its device context.
Exit ==
    /\ pc = "loop"
    /\ pc' = "exited"
    /\ IF handle THEN Release ELSE UNCHANGED device
    /\ UNCHANGED <<mode, batch_size, race>>

\* A process that has read its arguments.
Started(start, solver_mode, size) ==
    /\ pc = start
    /\ mode = solver_mode
    /\ batch_size = size
    /\ handle = FALSE /\ capacity = 0 /\ allocated = {}
    /\ calls = 0 /\ nonces = 0 /\ touched = {}
    /\ searched = 0 /\ total_tried = 0 /\ found = FALSE
    /\ progress_stop = FALSE /\ reporter = "ended"
    /\ races = 0

Init == \E size \in BatchSizes : Started("new", "gpu", size)

StartUp ==
    \/ NewRefused
    \/ NewAccepted
    \/ Malloc
    \/ CopyInitialState
    \/ InitFails
    \/ FallBack

RaceStep ==
    \/ GenerateBatch
    \/ BudgetSpent
    \/ CudaCall
    \/ GpuError
    \/ BatchWithoutWinner
    \/ BatchWithWinner
    \/ Join

Next == StartUp \/ StartRace \/ RaceStep \/ ReporterEnds \/ Exit

Spec == Init /\ [][Next]_vars

-----------------------------------------------------------------------------
(* Properties.                                                             *)

InRace == pc \in {"batch", "run_batch", "join"}

\* Every variable has its type; a device context's size is a positive int.
TypeOK ==
    /\ pc \in {"new", "malloc", "initialized", "loop", "batch", "run_batch",
               "join", "exited"}
    /\ mode \in {"gpu", "cpu"}
    /\ batch_size \in BatchSizes
    /\ handle \in BOOLEAN
    /\ capacity \in 0..INT_MAX
    /\ allocated \subseteq Buffers
    /\ calls \in 0..Len(BatchCalls)
    /\ nonces \in 0..MAX_NONCES
    /\ touched \subseteq 0..INT_MAX
    /\ searched \in Nat /\ total_tried \in Nat
    /\ found \in BOOLEAN /\ progress_stop \in BOOLEAN
    /\ reporter \in {"running", "ended"}
    /\ races \in 0..MAX_RACES

\* Outside equium_init the device buffers belong to a context the program
\* holds, all of them or none: no failure and no exit leaks device memory.
NoDeviceLeak ==
    pc # "malloc" => allocated = (IF handle THEN Buffers ELSE {})

\* No kernel thread works on a slot beyond the buffers, although the size the
\* host remembers and the one the buffers were made for may differ.
ThreadsInBounds == handle => touched \subseteq 0..(capacity - 1)

\* What the main loop adds to the session's count of nonces: the count that
\* comes with a winner, or the budget of the race.
nonces_tried == IF found THEN total_tried ELSE MAX_NONCES

\* Every batch crosses the C interface unchanged.
BatchFits == batch_size <= INT_MAX \/ MAX_NONCES <= INT_MAX

\* A race never searches more nonces than its budget, nor more than it is then
\* credited with; with batches that fit an int the credit is exact, except that
\* a race ended by an error is credited with all of its budget.  A batch beyond
\* an int that the device accepts is searched in part and credited in full.
CountIsSearched ==
    /\ searched <= MAX_NONCES
    /\ pc = "join" =>
           /\ searched <= nonces_tried
           /\ (BatchFits /\ (found \/ total_tried = MAX_NONCES))
                  => nonces_tried = searched

\* No reporter outlives its race, whichever way the race is left.
NoReporterLeft == ~InRace => reporter = "ended"

\* Every GPU race returns to the main loop.
GpuRaceReturns == InRace ~> ~InRace
=============================================================================
