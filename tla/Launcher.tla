------------------------------ MODULE Launcher ------------------------------
(***************************************************************************)
(* Launching the miner, again and again on one machine: run.sh, the build  *)
(* script of the CUDA kernel it may trigger (crates/equihash-gpu/build.rs),*)
(* and the miner's own start-up, composed with the GPU side of the process *)
(* it becomes (GpuBatch).                                                  *)
(*                                                                         *)
(* What a launch installs or builds stays for the next one, the            *)
(* environment it exports does not, and .env may be edited in between.     *)
(* Every command may fail, which ends the script (`set -e`), and so does   *)
(* reading a variable that is not set (`set -u`).  MODE is kept as the     *)
(* values that are told apart; whether .env is there, holds a good key and *)
(* has all its settings is decided where the script looks.                 *)
(***************************************************************************)
EXTENDS GpuBatch

CONSTANTS
    DEFAULT_BATCH,  \* --gpu-batch when nobody gives one
    MAX_LAUNCHES    \* bound on launches

ASSUME LauncherAssumption ==
    /\ DEFAULT_BATCH \in BatchSizes
    /\ MAX_LAUNCHES \in Nat

VARIABLES
    step,          \* where the script is; "miner" once it became the miner
    deps,          \* the prerequisites are being installed for --deps
    MODE,          \* the shell variable: "unset", "cpu", "gpu" or "other"
    SUDO,          \* the local variable of install_prerequisites is set
    nvcc_on_path,  \* PATH leads to nvcc
    CUDA_PATH,     \* "unset", "stale" (no nvcc there) or "good"
    packages,      \* the system packages are installed
    rust,          \* the Rust toolchain is installed
    nvcc,          \* nvcc is "missing", in a usual "directory", or on "path"
    driver,        \* the CUDA version of a driver can be detected
    py_modules,    \* pynacl and base58 are installed
    binary,        \* the miner is "missing", or built for "cpu" or "gpu"
    built_in,      \* the launch that built it, 0 if it was there before
    launches,      \* number of this launch
    key_files,     \* launches whose temporary key file is on disk
    miners         \* launches that became a miner

shell == <<deps, MODE, SUDO, nvcc_on_path, CUDA_PATH>>
machine == <<packages, rust, nvcc, driver, py_modules>>
built == <<binary, built_in>>
keys == <<key_files, miners>>
script == <<step, shell, machine, built, launches, keys>>
launch_vars == <<vars, script>>

\* Mutation: only "cpu" is taken for the CPU, not an unset MODE.
Features_no_default == IF MODE = "cpu" THEN "cpu" ELSE "gpu"

\* "${MODE:-cpu}" compared with "gpu", which decides everything else.
Features == IF MODE = "gpu" THEN "gpu" ELSE "cpu"

\* Nothing is built, or somebody built it by hand.
LaunchInit ==
    /\ Started("exited", "cpu", DEFAULT_BATCH)
    /\ step = "idle" /\ deps = FALSE
    /\ MODE = "unset" /\ SUDO = FALSE
    /\ nvcc_on_path = FALSE /\ CUDA_PATH = "unset"
    /\ packages \in BOOLEAN /\ rust \in BOOLEAN /\ py_modules \in BOOLEAN
    /\ nvcc \in {"missing", "directory", "path"}
    /\ driver \in BOOLEAN
    /\ binary \in {"missing", "cpu", "gpu"}
    /\ built_in = 0
    /\ launches = 0
    /\ key_files = {} /\ miners = {}

\* run.sh [--deps], in a shell that may have MODE or CUDA_PATH set.
Launch ==
    /\ step = "idle"
    /\ launches < MAX_LAUNCHES
    /\ launches' = launches + 1
    /\ deps' \in BOOLEAN
    /\ step' = IF deps' THEN "packages" ELSE "config"
    /\ MODE' \in {"unset", "gpu"}
    /\ SUDO' = FALSE
    /\ nvcc_on_path' = (nvcc = "path")
    /\ CUDA_PATH' \in {"unset", "stale"}
    /\ UNCHANGED <<vars, machine, built, keys>>

-----------------------------------------------------------------------------
(* install_prerequisites.                                                  *)

\* SUDO is declared only where system packages are to be installed.
InstallPackages ==
    /\ step = "packages"
    /\ packages' = TRUE
    /\ SUDO' = ~packages
    /\ step' = "rust"
    /\ UNCHANGED <<vars, deps, MODE, nvcc_on_path, CUDA_PATH, rust, nvcc,
                   driver, py_modules, built, launches, keys>>

InstallRust ==
    /\ step = "rust"
    /\ rust' = TRUE
    /\ step' = IF Features = "gpu" THEN "cuda" ELSE "python"
    /\ UNCHANGED <<vars, shell, packages, nvcc, driver, py_modules, built,
                   launches, keys>>

ExportCuda ==
    /\ nvcc_on_path' = TRUE
    /\ CUDA_PATH' = "good"
    /\ UNCHANGED <<deps, MODE, SUDO>>

FindCuda ==
    /\ step = "cuda"
    /\ \/ nvcc_on_path /\ UNCHANGED shell
       \/ ~nvcc_on_path /\ nvcc = "directory" /\ ExportCuda
    /\ step' = "python"
    /\ UNCHANGED <<vars, machine, built, launches, keys>>

\* Mutation: what was installed is not looked for.
InstallCuda_unchecked ==
    /\ step = "cuda"
    /\ nvcc = "missing"
    /\ driver
    /\ SUDO
    /\ step' = "python"
    /\ UNCHANGED <<vars, shell, machine, built, launches, keys>>

\* The toolkit for the driver, found where its package puts it.  Without the
\* local variable SUDO the command line cannot be expanded.
InstallCuda ==
    /\ step = "cuda"
    /\ nvcc = "missing"
    /\ driver
    /\ SUDO
    /\ nvcc' = "directory"
    /\ ExportCuda
    /\ step' = "python"
    /\ UNCHANGED <<vars, packages, rust, driver, py_modules, built, launches,
                   keys>>

InstallPython ==
    /\ step = "python"
    /\ py_modules' = TRUE
    /\ deps' = FALSE
    /\ step' = IF deps THEN "config" ELSE "build"
    /\ UNCHANGED <<vars, MODE, SUDO, nvcc_on_path, CUDA_PATH, packages, rust,
                   nvcc, driver, built, launches, keys>>

-----------------------------------------------------------------------------
(* The rest of the script.                                                 *)

\* .env is there and has a PRIVATE_KEY; it may set MODE.
LoadEnv ==
    /\ step = "config"
    /\ MODE' \in {MODE, "cpu", "gpu", "other"}
    /\ step' = IF binary = "missing" THEN "packages" ELSE "mktemp"
    /\ UNCHANGED <<vars, deps, SUDO, nvcc_on_path, CUDA_PATH, machine, built,
                   launches, keys>>

\* build.rs: $CUDA_PATH/bin/nvcc if it exists, or the one on PATH.
which_nvcc == CUDA_PATH = "good" \/ nvcc_on_path

\* build.rs runs only with the feature, and panics without nvcc.
BuildScriptOk == Features = "gpu" => which_nvcc

Build ==
    /\ step = "build"
    /\ BuildScriptOk
    /\ binary' = Features
    /\ built_in' = launches
    /\ step' = "mktemp"
    /\ UNCHANGED <<vars, shell, machine, launches, keys>>

\* mktemp, and the trap that removes the file when the script exits.
MakeKeyFile ==
    /\ step = "mktemp"
    /\ key_files' = key_files \cup {launches}
    /\ step' = "convert"
    /\ UNCHANGED <<vars, shell, machine, built, launches, miners>>

\* The key is well-formed.
ConvertKey ==
    /\ step = "convert"
    /\ py_modules
    /\ step' = "args"
    /\ UNCHANGED <<vars, shell, machine, built, launches, keys>>

\* All settings are there.  exec replaces the script, and its trap with it.
ExecMiner ==
    /\ step = "args"
    /\ miners' = miners \cup {launches}
    /\ step' = "start"
    /\ UNCHANGED <<vars, shell, machine, built, launches, key_files>>

\* Mutation: the trap is set once the key is converted.
Abort_untrapped ==
    /\ step \notin {"idle", "start", "miner"}
    /\ key_files' = IF step = "args" THEN key_files \ {launches} ELSE key_files
    /\ step' = "idle"
    /\ UNCHANGED <<vars, shell, machine, built, launches, miners>>

\* A command fails, or a variable is not set; the trap runs if it is set.
Abort ==
    /\ step \notin {"idle", "start", "miner"}
    /\ key_files' = IF step \in {"convert", "args"}
                    THEN key_files \ {launches} ELSE key_files
    /\ step' = "idle"
    /\ UNCHANGED <<vars, shell, machine, built, launches, miners>>

-----------------------------------------------------------------------------
(* The miner.                                                              *)

\* --gpu-batch is passed in GPU mode only, --threads in the others only.
GpuBatchArgs == IF MODE = "gpu" THEN BatchSizes ELSE {DEFAULT_BATCH}

\* A new process.  A build with the gpu feature starts in GPU mode and makes
\* its solver, any other goes straight to the main loop.
MinerStarts ==
    /\ step = "start"
    /\ pc' = IF binary = "gpu" THEN "new" ELSE "loop"
    /\ mode' = binary
    /\ batch_size' \in GpuBatchArgs
    /\ handle' = FALSE /\ capacity' = 0 /\ allocated' = {}
    /\ calls' = 0 /\ nonces' = 0 /\ touched' = {}
    /\ searched' = 0 /\ total_tried' = 0 /\ found' = FALSE
    /\ progress_stop' = FALSE /\ reporter' = "ended"
    /\ races' = 0
    /\ step' = "miner"
    /\ UNCHANGED <<shell, machine, built, launches, keys>>

\* The arguments, the keypair file or the config account cannot be read.
StartFails ==
    /\ step = "start"
    /\ step' = "idle"
    /\ UNCHANGED <<vars, shell, machine, built, launches, keys>>

MinerRuns ==
    /\ step = "miner"
    /\ Next
    /\ UNCHANGED script

MinerEnds ==
    /\ step = "miner"
    /\ pc = "exited"
    /\ step' = "idle"
    /\ UNCHANGED <<vars, shell, machine, built, launches, keys>>

LaunchNext ==
    \/ Launch
    \/ InstallPackages \/ InstallRust \/ FindCuda \/ InstallCuda
    \/ InstallPython
    \/ LoadEnv \/ Build \/ MakeKeyFile \/ ConvertKey \/ ExecMiner
    \/ Abort
    \/ MinerStarts \/ StartFails \/ MinerRuns \/ MinerEnds

LaunchSpec == LaunchInit /\ [][LaunchNext]_launch_vars

\* CUDA calls return, and both threads of a race are scheduled.
FairLaunches ==
    /\ LaunchSpec
    /\ WF_launch_vars(RaceStep /\ UNCHANGED script)
    /\ WF_launch_vars(ReporterEnds /\ UNCHANGED script)

-----------------------------------------------------------------------------
(* Properties.                                                             *)

\* Types, with those of the GPU side: a device context's size is a positive int.
LaunchTypeOK ==
    /\ TypeOK
    /\ step \in {"idle", "packages", "rust", "cuda", "python", "config",
                 "build", "mktemp", "convert", "args", "start", "miner"}
    /\ MODE \in {"unset", "cpu", "gpu", "other"}
    /\ CUDA_PATH \in {"unset", "stale", "good"}
    /\ nvcc \in {"missing", "directory", "path"}
    /\ binary \in {"missing", "cpu", "gpu"} /\ built_in \in 0..launches
    /\ {deps, SUDO, nvcc_on_path, packages, rust, driver, py_modules}
           \subseteq BOOLEAN
    /\ launches \in 0..MAX_LAUNCHES
    /\ key_files \cup miners \subseteq 1..launches

\* The build script never misses nvcc in a build the launcher starts: what
\* install_prerequisites looks for under the MODE of one moment is what
\* which_nvcc needs under the MODE of the build, with --deps, with an .env that
\* changes MODE and with a CUDA_PATH that leads nowhere.
BuildFindsNvcc == step = "build" => BuildScriptOk

\* A launch leaves its temporary key behind only by becoming a miner: however
\* the script fails before that, the wallet's key is off the disk when it ends.
KeyFileRemoved ==
    \A l \in key_files :
        l \in miners \/ (l = launches /\ step \in {"convert", "args"})

\* MODE chooses CPU or GPU mining: past its start-up a miner of the launch that
\* built it is in GPU mode exactly when MODE says "gpu" and its solver came up.
\* A binary that an earlier launch left, or somebody made by hand, is never
\* rebuilt, and is in the mode it was built for whatever MODE says; then, too,
\* GPU mode takes a solver.
ModeObeyed ==
    (step = "miner" /\ (pc = "loop" \/ InRace)) =>
        /\ mode = "gpu" <=> handle
        /\ built_in = launches => (mode = "gpu" <=> MODE = "gpu" /\ handle)
=============================================================================
