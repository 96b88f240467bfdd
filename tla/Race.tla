-------------------------------- MODULE Race --------------------------------
(***************************************************************************)
(* The CPU solver race of the miner (clients/cli-miner/src/main.rs,        *)
(* race_for_solution_cpu): worker threads grind nonces until one of them   *)
(* finds a solution under the target and offers it on a bounded channel;   *)
(* the calling thread waits for the first one, raises the `stop` flag and  *)
(* joins a progress reporter and the workers.                              *)
(*                                                                         *)
(* One step is one access to something threads share: the flag, the        *)
(* counter or the channel.  Whether a nonce wins is a nondeterministic     *)
(* choice, and so is whether its search panics, which ends the worker and  *)
(* nothing else (the release profile unwinds).  All accesses are atomic;   *)
(* the relaxed flag is modelled as a single cell, since nothing else is    *)
(* published through it, and the final load of the counter follows the     *)
(* joins.                                                                  *)
(***************************************************************************)
EXTENDS Integers, FiniteSets, Functions

CONSTANTS
    Workers,          \* solver threads
    None,             \* no winner; an empty channel
    max_per_thread,   \* nonces a worker tries before it gives up
    ReportEvery,      \* nonces a worker tries between two reports (64)
    CanTimeOut        \* whether recv_timeout may expire during the race

ASSUME RaceAssumption ==
    /\ IsFiniteSet(Workers)
    /\ None \notin Workers
    /\ max_per_thread \in Nat
    /\ ReportEvery \in Nat \ {0}
    /\ CanTimeOut \in BOOLEAN

VARIABLES
    worker_pc,      \* next shared access of each worker
    tried,          \* nonces each worker tried
    since_report,   \* those not yet added to the counter by a report
    found,          \* workers that found a winning solution
    channel,        \* the message in the channel of capacity one, or None
    stop,           \* the AtomicBool
    total_nonces,   \* the AtomicU64
    main_pc,        \* the calling thread
    winner,         \* what recv_timeout returned
    timed_out,      \* whether it returned because its time was over
    progress_pc     \* the progress reporter

locals == <<tried, since_report, found>>
main == <<main_pc, winner, timed_out>>
vars == <<worker_pc, locals, channel, stop, total_nonces, main, progress_pc>>

Init ==
    /\ worker_pc = [w \in Workers |-> "unborn"]
    /\ tried = [w \in Workers |-> 0]
    /\ since_report = [w \in Workers |-> 0]
    /\ found = {}
    /\ channel = None
    /\ stop = FALSE
    /\ total_nonces = 0
    /\ main_pc = "start"
    /\ winner = None
    /\ timed_out = FALSE
    /\ progress_pc = "unborn"

-----------------------------------------------------------------------------
(* Workers.                                                                *)

Goto(w, pc) == worker_pc' = [worker_pc EXCEPT ![w] = pc]

Add(w) == total_nonces' = total_nonces + since_report[w]

\* The loop condition, then the next nonce is drawn and counted.
Check(w) ==
    /\ worker_pc[w] = "check"
    /\ IF tried[w] < max_per_thread /\ ~stop
       THEN /\ tried' = [tried EXCEPT ![w] = @ + 1]
            /\ since_report' = [since_report EXCEPT ![w] = @ + 1]
            /\ Goto(w, IF since_report[w] + 1 >= ReportEvery
                       THEN "report" ELSE "solve")
       ELSE /\ Goto(w, "exit")
            /\ UNCHANGED <<tried, since_report>>
    /\ UNCHANGED <<found, channel, stop, total_nonces, main, progress_pc>>

\* Mutation: the unreported nonces are not reset.
Report_not_reset(w) ==
    /\ worker_pc[w] = "report"
    /\ Add(w)
    /\ Goto(w, "solve")
    /\ UNCHANGED <<locals, channel, stop, main, progress_pc>>

Report(w) ==
    /\ worker_pc[w] = "report"
    /\ Add(w)
    /\ since_report' = [since_report EXCEPT ![w] = 0]
    /\ Goto(w, "solve")
    /\ UNCHANGED <<tried, found, channel, stop, main, progress_pc>>

\* try_nonce and the comparison with the target.
Miss(w) ==
    /\ worker_pc[w] = "solve"
    /\ Goto(w, "check")
    /\ UNCHANGED <<locals, channel, stop, total_nonces, main, progress_pc>>

Find(w) ==
    /\ worker_pc[w] = "solve"
    /\ found' = found \cup {w}
    /\ Goto(w, "credit")
    /\ UNCHANGED <<tried, since_report, channel, stop, total_nonces, main,
                   progress_pc>>

\* The search of this nonce panics: the thread unwinds, which drops its sender,
\* and what it had not reported yet is lost.
Panic(w) ==
    /\ worker_pc[w] = "solve"
    /\ Goto(w, "panicked")
    /\ UNCHANGED <<locals, channel, stop, total_nonces, main, progress_pc>>

\* The finder adds its unreported nonces here and once more on its way out.
Credit(w) ==
    /\ worker_pc[w] = "credit"
    /\ Add(w)
    /\ Goto(w, "send")
    /\ UNCHANGED <<locals, channel, stop, main, progress_pc>>

\* `tx.send` blocks while the channel is full; the receiver outlives the
\* workers, so it never fails.
Send(w) ==
    /\ worker_pc[w] = "send"
    /\ channel = None
    /\ channel' = w
    /\ Goto(w, "signal")
    /\ UNCHANGED <<locals, stop, total_nonces, main, progress_pc>>

Signal(w) ==
    /\ worker_pc[w] = "signal"
    /\ stop' = TRUE
    /\ Goto(w, "exit")
    /\ UNCHANGED <<locals, channel, total_nonces, main, progress_pc>>

\* Mutation: a worker leaves without the last addition.
Exit_unreported(w) ==
    /\ worker_pc[w] = "exit"
    /\ Goto(w, "done")
    /\ UNCHANGED <<locals, channel, stop, total_nonces, main, progress_pc>>

\* The last addition; then the closure ends and drops its sender.
Exit(w) ==
    /\ worker_pc[w] = "exit"
    /\ Add(w)
    /\ Goto(w, "done")
    /\ UNCHANGED <<locals, channel, stop, main, progress_pc>>

Worker(w) ==
    \/ Check(w)
    \/ Report(w)
    \/ Miss(w)
    \/ Find(w)
    \/ Panic(w)
    \/ Credit(w)
    \/ Send(w)
    \/ Signal(w)
    \/ Exit(w)

-----------------------------------------------------------------------------
(* The calling thread and the progress reporter.                           *)

\* A thread is over, and its sender dropped, whether it returned or panicked.
Ended(w) == worker_pc[w] \in {"done", "panicked"}

AllEnded == \A w \in Workers : Ended(w)

\* `BaseState::new(n, k, input).ok()?`: the race is over before it began.  The
\* chain's n and k were never validated.
Refused ==
    /\ main_pc = "start"
    /\ main_pc' = "returned"
    /\ UNCHANGED <<worker_pc, locals, channel, stop, total_nonces, winner,
                   timed_out, progress_pc>>

\* The workers and the reporter are spawned, and the caller drops its sender.
Spawn ==
    /\ main_pc = "start"
    /\ worker_pc' = [w \in Workers |-> "check"]
    /\ progress_pc' = "sleep"
    /\ main_pc' = "recv"
    /\ UNCHANGED <<locals, channel, stop, total_nonces, winner, timed_out>>

\* Mutation: the message is read but not taken out of the channel.
Receive_peek ==
    /\ main_pc = "recv"
    /\ channel # None
    /\ winner' = channel
    /\ main_pc' = "stop"
    /\ UNCHANGED <<worker_pc, locals, channel, stop, total_nonces, timed_out,
                   progress_pc>>

Receive ==
    /\ main_pc = "recv"
    /\ channel # None
    /\ winner' = channel
    /\ channel' = None
    /\ main_pc' = "stop"
    /\ UNCHANGED <<worker_pc, locals, stop, total_nonces, timed_out,
                   progress_pc>>

\* Mutation: the channel counts as closed with a message still in it.
Disconnected_early ==
    /\ main_pc = "recv"
    /\ AllEnded
    /\ main_pc' = "stop"
    /\ UNCHANGED <<worker_pc, locals, channel, stop, total_nonces, winner,
                   timed_out, progress_pc>>

\* Every sender is dropped and nothing is left in the channel.
Disconnected ==
    /\ main_pc = "recv"
    /\ channel = None
    /\ AllEnded
    /\ main_pc' = "stop"
    /\ UNCHANGED <<worker_pc, locals, channel, stop, total_nonces, winner,
                   timed_out, progress_pc>>

TimeOut ==
    /\ CanTimeOut
    /\ main_pc = "recv"
    /\ channel = None
    /\ timed_out' = TRUE
    /\ main_pc' = "stop"
    /\ UNCHANGED <<worker_pc, locals, channel, stop, total_nonces, winner,
                   progress_pc>>

\* Mutation: the flag is left to the workers.
StopAll_no_flag ==
    /\ main_pc = "stop"
    /\ main_pc' = "join_progress"
    /\ UNCHANGED <<worker_pc, locals, channel, stop, total_nonces, winner,
                   timed_out, progress_pc>>

StopAll ==
    /\ main_pc = "stop"
    /\ stop' = TRUE
    /\ main_pc' = "join_progress"
    /\ UNCHANGED <<worker_pc, locals, channel, total_nonces, winner, timed_out,
                   progress_pc>>

JoinProgress ==
    /\ main_pc = "join_progress"
    /\ progress_pc = "done"
    /\ main_pc' = "join_workers"
    /\ UNCHANGED <<worker_pc, locals, channel, stop, total_nonces, winner,
                   timed_out, progress_pc>>

\* Joins every worker, `let _ =` whatever the join says of a panic, then reads
\* the counter and returns it with the winner.
JoinWorkers ==
    /\ main_pc = "join_workers"
    /\ AllEnded
    /\ main_pc' = "returned"
    /\ UNCHANGED <<worker_pc, locals, channel, stop, total_nonces, winner,
                   timed_out, progress_pc>>

Main ==
    \/ Refused
    \/ Spawn
    \/ Receive
    \/ Disconnected
    \/ StopAll
    \/ JoinProgress
    \/ JoinWorkers

\* Wakes up every five seconds and leaves once it sees the flag.
Progress ==
    /\ progress_pc = "sleep"
    /\ stop
    /\ progress_pc' = "done"
    /\ UNCHANGED <<worker_pc, locals, channel, stop, total_nonces, main>>

Terminated == main_pc = "returned" /\ UNCHANGED vars

Next ==
    \/ \E w \in Workers : Worker(w)
    \/ Main
    \/ TimeOut
    \/ Progress
    \/ Terminated

Spec == Init /\ [][Next]_vars

\* Every thread keeps being scheduled.  Nothing is assumed of the timeout, nor
\* of luck: a worker may miss all its nonces or find a solution with each.
FairSpec ==
    /\ Spec
    /\ \A w \in Workers : WF_vars(Worker(w))
    /\ WF_vars(Main)
    /\ WF_vars(Progress)

-----------------------------------------------------------------------------
(* Properties.                                                             *)

WorkerPCs ==
    {"unborn", "check", "report", "solve", "credit", "send", "signal", "exit",
     "done", "panicked"}

\* Types, with the bounds the loop keeps: no worker tries more nonces than its
\* budget or carries a whole report's worth unreported past the report.
TypeOK ==
    /\ worker_pc \in [Workers -> WorkerPCs]
    /\ tried \in [Workers -> 0..max_per_thread]
    /\ since_report \in [Workers -> 0..ReportEvery]
    /\ found \subseteq Workers
    /\ channel \in Workers \cup {None}
    /\ stop \in BOOLEAN
    /\ total_nonces \in Nat
    /\ main_pc \in {"start", "recv", "stop", "join_progress", "join_workers",
                    "returned"}
    /\ winner \in Workers \cup {None}
    /\ timed_out \in BOOLEAN
    /\ progress_pc \in {"unborn", "sleep", "done"}

Tried == SumFunctionOnSet(tried, Workers)

\* What the main loop adds to the session's count of nonces: the counter that
\* comes with a winner, or the budget of all threads.
nonces_tried ==
    IF winner # None THEN total_nonces
    ELSE max_per_thread * Cardinality(Workers)

Panicked == {w \in Workers : worker_pc[w] = "panicked"}

\* The session's count is off by less than one report per worker with a winner:
\* too high by the last nonces of those that found a solution, which are added
\* twice, too low by those of a worker that panicked, which never are.  Without
\* one it never falls short, and is exact if the caller waited until every
\* worker had returned; a race that was refused counts a budget it never spent.
CountWithinOneReport ==
    main_pc = "returned" =>
        /\ Tried <= nonces_tried + Cardinality(Panicked) * (ReportEvery - 1)
        /\ winner # None =>
               nonces_tried <= Tried + Cardinality(found) * (ReportEvery - 1)
        /\ winner = None =>
               /\ Tried <= nonces_tried
               /\ (~timed_out /\ \A w \in Workers : worker_pc[w] = "done")
                      => nonces_tried = Tried

\* A race that comes back empty-handed before its time was over found nothing,
\* and each of its workers has spent its whole budget or panicked, unless the
\* parameters were refused and nothing ran at all; what a race does come back
\* with was found in it.
NoSolutionLost ==
    main_pc = "returned" =>
        /\ winner # None => winner \in found
        /\ (winner = None /\ ~timed_out) =>
               /\ found = {}
               /\ \/ \A w \in Workers :
                         tried[w] = max_per_thread \/ w \in Panicked
                  \/ \A w \in Workers : worker_pc[w] = "unborn"

\* Workers beyond the one in the channel wait in `tx.send` for a receiver that
\* has stopped receiving.
SendersStuck ==
    /\ main_pc = "join_workers"
    /\ channel # None
    /\ \E w \in Workers : worker_pc[w] = "send"

\* The race returns: "Wait for either a winner or all threads to exhaust their
\* budget", then every thread ends and is joined.
RaceReturns == <>(main_pc = "returned")

\* A full channel behind a departed receiver is the only way not to return.
ReturnsUnlessStuck == <>(main_pc = "returned" \/ SendersStuck)

\* It takes three solutions in one race to get stuck, or two after a timeout:
\* the caller takes one and the channel holds another.
StuckNeedsCrowd ==
    SendersStuck => Cardinality(found) >= (IF winner = None THEN 2 ELSE 3)
=============================================================================
