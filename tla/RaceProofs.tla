----------------------------- MODULE RaceProofs -----------------------------
(***************************************************************************)
(* The CPU race for any number of workers, any budget and any report size: *)
(* its types, that it loses no solution, how many solutions it takes for a *)
(* sender to be left behind, and how close its count of nonces comes.      *)
(*                                                                         *)
(* The calling thread receives once, so that the channel and the winner    *)
(* hold different solutions, each of a worker that is past its send; a     *)
(* worker that stops early, or has sent, is evidence that a solution is in *)
(* the channel for as long as the calling thread waits, and one that       *)
(* panicked is evidence of nothing.                                        *)
(***************************************************************************)
EXTENDS Race, ArithmeticLemmas

\* The race starts with every worker at its loop condition.
LEMMA TypeInit == Init => TypeOK
<1> SUFFICES ASSUME Init PROVE TypeOK
  OBVIOUS
<1>1. worker_pc \in [Workers -> WorkerPCs]
  BY DEF Init, WorkerPCs
<1>2. tried \in [Workers -> 0..max_per_thread]
  BY RaceAssumption DEF Init
<1>3. since_report \in [Workers -> 0..ReportEvery]
  BY RaceAssumption DEF Init
<1> QED
  BY <1>1, <1>2, <1>3 DEF Init, TypeOK

\* Each access keeps the types; the report is what keeps since_report small.
LEMMA WorkerKeepsType ==
    ASSUME TypeOK, NEW w \in Workers, Worker(w),
           worker_pc[w] = "check" => since_report[w] < ReportEvery
    PROVE  TypeOK'
<1>1. CASE Check(w)
  BY <1>1, RaceAssumption DEF Check, Goto, TypeOK, WorkerPCs, main
<1>2. CASE Report(w)
  BY <1>2, RaceAssumption DEF Report, Add, Goto, TypeOK, WorkerPCs, main
<1>3. CASE Miss(w) \/ Panic(w)
  BY <1>3 DEF Miss, Panic, Goto, TypeOK, WorkerPCs, main, locals
<1>4. CASE Find(w)
  BY <1>4 DEF Find, Goto, TypeOK, WorkerPCs, main
<1>5. CASE Credit(w)
  BY <1>5, RaceAssumption DEF Credit, Add, Goto, TypeOK, WorkerPCs, main, locals
<1>6. CASE Send(w)
  BY <1>6 DEF Send, Goto, TypeOK, WorkerPCs, main, locals
<1>7. CASE Signal(w)
  BY <1>7 DEF Signal, Goto, TypeOK, WorkerPCs, main, locals
<1>8. CASE Exit(w)
  BY <1>8, RaceAssumption DEF Exit, Add, Goto, TypeOK, WorkerPCs, main, locals
<1> QED
  BY <1>1, <1>2, <1>3, <1>4, <1>5, <1>6, <1>7, <1>8 DEF Worker

\* Before the workers are spawned nothing has happened; a worker is unborn then
\* or for ever.
Fresh ==
    (main_pc = "start" \/ \E w \in Workers : worker_pc[w] = "unborn") =>
        /\ main_pc \in {"start", "returned"}
        /\ \A w \in Workers : worker_pc[w] = "unborn" /\ since_report[w] = 0
        /\ found = {} /\ channel = None /\ winner = None
        /\ ~stop /\ ~timed_out

\* A worker that takes a step was spawned, and so were all.
LEMMA WorkerKeepsFresh ==
    ASSUME TypeOK, Fresh, NEW w \in Workers, Worker(w)
    PROVE  Fresh'
<1>1. /\ worker_pc[w] # "unborn" /\ main_pc' = main_pc
      /\ \E pc \in WorkerPCs \ {"unborn"} : Goto(w, pc)
  BY DEF Worker, Check, Report, Miss, Find, Panic, Credit, Send, Signal, Exit,
         WorkerPCs, Goto, main
<1>2. main_pc # "start" /\ \A v \in Workers : worker_pc[v] # "unborn"
  BY <1>1 DEF Fresh
<1>3. \A v \in Workers : worker_pc'[v] # "unborn"
  BY <1>1, <1>2 DEF Goto, TypeOK
<1> QED
  BY <1>1, <1>2, <1>3 DEF Fresh

\* A worker in the loop or the search has less than a report's worth to report.
ReportsInTime ==
    \A w \in Workers :
        worker_pc[w] \in {"check", "solve"} => since_report[w] < ReportEvery

\* A full report is given before the worker goes back to its loop condition.
LEMMA WorkerReportsInTime ==
    ASSUME TypeOK, ReportsInTime, NEW w \in Workers, Worker(w)
    PROVE  ReportsInTime'
<1>1. CASE Check(w)
  BY <1>1, RaceAssumption DEF Check, Goto, TypeOK, WorkerPCs, ReportsInTime
<1>2. CASE Report(w)
  BY <1>2, RaceAssumption DEF Report, Goto, TypeOK, ReportsInTime
<1>3. CASE Miss(w) \/ Panic(w)
  BY <1>3 DEF Miss, Panic, Goto, TypeOK, ReportsInTime, locals
<1>4. CASE Find(w) \/ Credit(w) \/ Send(w) \/ Signal(w) \/ Exit(w)
  BY <1>4 DEF Find, Credit, Send, Signal, Exit, Goto, TypeOK, ReportsInTime,
              locals
<1> QED
  BY <1>1, <1>2, <1>3, <1>4 DEF Worker

\* The steps that no worker takes.
Others == Main \/ TimeOut \/ Progress \/ Terminated

\* They touch the variables of no worker that was spawned, and keep the types
\* of their own.
LEMMA OthersKeepType ==
    ASSUME TypeOK, Fresh, ReportsInTime, Others
    PROVE  TypeOK' /\ Fresh' /\ ReportsInTime'
<1>1. CASE Refused
  BY <1>1 DEF Refused, TypeOK, Fresh, ReportsInTime, locals
<1>2. CASE Spawn
  <2>1. worker_pc' \in [Workers -> WorkerPCs]
    BY <1>2 DEF Spawn, WorkerPCs
  <2>2. TypeOK'
    BY <1>2, <2>1 DEF Spawn, TypeOK, locals
  <2>3. Fresh' /\ ReportsInTime'
    BY <1>2, RaceAssumption DEF Spawn, Fresh, ReportsInTime, locals
  <2> QED
    BY <2>2, <2>3
<1>3. CASE Receive
  BY <1>3 DEF Receive, TypeOK, Fresh, ReportsInTime, locals
<1>4. CASE Disconnected \/ TimeOut \/ JoinProgress \/ JoinWorkers
  BY <1>4 DEF Disconnected, TimeOut, JoinProgress, JoinWorkers, TypeOK, Fresh,
              ReportsInTime, locals
<1>5. CASE StopAll \/ Progress
  BY <1>5 DEF StopAll, Progress, TypeOK, Fresh, ReportsInTime, locals, main
<1>6. CASE Terminated
  BY <1>6 DEF Terminated, TypeOK, Fresh, ReportsInTime, vars, locals, main
<1> QED
  BY <1>1, <1>2, <1>3, <1>4, <1>5, <1>6 DEF Others, Main

\* The types of the race, for every interleaving of its threads.
THEOREM TypeCorrect == Spec => [](TypeOK /\ Fresh /\ ReportsInTime)
<1>1. Init => TypeOK /\ Fresh /\ ReportsInTime
  BY TypeInit, RaceAssumption DEF Init, Fresh, ReportsInTime
<1>2. TypeOK /\ Fresh /\ ReportsInTime /\ [Next]_vars
      => (TypeOK /\ Fresh /\ ReportsInTime)'
  <2> SUFFICES ASSUME TypeOK, Fresh, ReportsInTime, [Next]_vars
               PROVE  TypeOK' /\ Fresh' /\ ReportsInTime'
    OBVIOUS
  <2>1. ASSUME NEW w \in Workers, Worker(w)
        PROVE  TypeOK' /\ Fresh' /\ ReportsInTime'
    <3>1. worker_pc[w] = "check" => since_report[w] < ReportEvery
      BY DEF ReportsInTime
    <3> QED
      BY <2>1, <3>1, WorkerKeepsType, WorkerKeepsFresh, WorkerReportsInTime
  <2>2. CASE Others
    BY <2>2, OthersKeepType
  <2>3. CASE UNCHANGED vars
    BY <2>3 DEF TypeOK, Fresh, ReportsInTime, vars, locals, main
  <2> QED
    BY <2>1, <2>2, <2>3 DEF Next, Others
<1> QED
  BY <1>1, <1>2, PTL DEF Spec

-----------------------------------------------------------------------------
(* Where the solutions of a race are.                                      *)

\* A worker that offered its solution.
Sent == {"signal", "exit", "done"}

\* Who found a solution is on its way to the channel or past it; the channel and
\* the winner are two workers past it.
Accounted ==
    /\ \A w \in Workers :
           /\ worker_pc[w] \in {"credit", "send", "signal"} => w \in found
           /\ w \in found => worker_pc[w] \in {"credit", "send"} \cup Sent
    /\ winner # None => winner \in found /\ worker_pc[winner] \in Sent
    /\ channel # None => /\ channel \in found /\ worker_pc[channel] \in Sent
                         /\ channel # winner

\* A step of a worker moves it along and leaves the winner alone.
LEMMA WorkerKeepsAccounted ==
    ASSUME TypeOK, Accounted, NEW w \in Workers, Worker(w)
    PROVE  Accounted'
<1>0. None \notin Workers
  BY RaceAssumption
<1>1. CASE Check(w) \/ Report(w) \/ Miss(w) \/ Panic(w)
  BY <1>0, <1>1
     DEF Check, Report, Miss, Panic, Goto, TypeOK, Accounted, Sent, main, locals
<1>2. CASE Find(w)
  BY <1>0, <1>2 DEF Find, Goto, TypeOK, Accounted, Sent, main
<1>3. CASE Credit(w)
  BY <1>0, <1>3 DEF Credit, Goto, TypeOK, Accounted, Sent, main, locals
<1>4. CASE Send(w)
  BY <1>0, <1>4 DEF Send, Goto, TypeOK, Accounted, Sent, main, locals
<1>5. CASE Signal(w)
  BY <1>0, <1>5 DEF Signal, Goto, TypeOK, Accounted, Sent, main, locals
<1>6. CASE Exit(w)
  BY <1>0, <1>6 DEF Exit, Goto, TypeOK, Accounted, Sent, main, locals
<1> QED
  BY <1>1, <1>2, <1>3, <1>4, <1>5, <1>6 DEF Worker

\* The calling thread takes what the channel holds.
LEMMA OthersKeepAccounted ==
    ASSUME TypeOK, Fresh, Accounted, Others
    PROVE  Accounted'
<1>0. CASE Spawn
  BY <1>0 DEF Spawn, Fresh, Accounted, locals
<1>1. CASE Receive
  BY <1>1 DEF Receive, Accounted, locals
<1>2. CASE Refused \/ Disconnected \/ TimeOut \/ JoinProgress \/ JoinWorkers
  BY <1>2 DEF Refused, Disconnected, TimeOut, JoinProgress, JoinWorkers,
              Accounted, locals
<1>3. CASE StopAll \/ Progress
  BY <1>3 DEF StopAll, Progress, Accounted, locals, main
<1>4. CASE Terminated
  BY <1>4 DEF Terminated, Accounted, vars, locals, main
<1> QED
  BY <1>0, <1>1, <1>2, <1>3, <1>4 DEF Others, Main

-----------------------------------------------------------------------------
(* What the calling thread may conclude from silence.                      *)

\* While it waits before an empty channel, nobody has stopped early or sent.
Waiting ==
    main_pc = "recv" =>
        /\ winner = None /\ ~timed_out
        /\ channel = None =>
               /\ ~stop
               /\ \A w \in Workers :
                      /\ worker_pc[w] # "signal"
                      /\ worker_pc[w] \in {"exit", "done"} =>
                             w \notin found /\ tried[w] = max_per_thread

\* Going on without a winner before the timeout, it leaves nobody behind but
\* workers that panicked or spent their budget, unless none was ever spawned.
EmptyHanded ==
    (main_pc \notin {"start", "recv"} /\ winner = None /\ ~timed_out) =>
        \/ \A w \in Workers : worker_pc[w] = "unborn"
        \/ \A w \in Workers :
               /\ Ended(w)
               /\ w \notin found
               /\ worker_pc[w] = "done" => tried[w] = max_per_thread

\* A worker that stops before the flag is up spent its budget; a worker that
\* sends fills the channel before it raises the flag.
LEMMA WorkerKeepsWaiting ==
    ASSUME TypeOK, Accounted, Waiting, NEW w \in Workers, Worker(w)
    PROVE  Waiting'
<1>0. None \notin Workers /\ max_per_thread \in Nat
  BY RaceAssumption
<1>1. CASE Check(w)
  <2>1. w \notin found
    BY <1>1 DEF Check, Accounted, Sent
  <2> QED
    BY <1>0, <1>1, <2>1 DEF Check, Goto, TypeOK, Waiting, main
<1>2. CASE Report(w) \/ Miss(w) \/ Panic(w)
  BY <1>2 DEF Report, Miss, Panic, Goto, TypeOK, Waiting, main, locals
<1>3. CASE Find(w)
  BY <1>3 DEF Find, Goto, TypeOK, Waiting, main
<1>4. CASE Credit(w)
  BY <1>4 DEF Credit, Goto, TypeOK, Waiting, main, locals
<1>5. CASE Send(w)
  BY <1>0, <1>5 DEF Send, Goto, TypeOK, Waiting, main, locals
<1>6. CASE Signal(w) \/ Exit(w)
  BY <1>6 DEF Signal, Exit, Goto, TypeOK, Waiting, main, locals
<1> QED
  BY <1>1, <1>2, <1>3, <1>4, <1>5, <1>6 DEF Worker

\* Nobody is left to move once the race ends without a winner.
LEMMA WorkerKeepsEmptyHanded ==
    ASSUME EmptyHanded, NEW w \in Workers, Worker(w)
    PROVE  EmptyHanded'
<1>1. main_pc' = main_pc /\ winner' = winner /\ timed_out' = timed_out
  BY DEF Worker, Check, Report, Miss, Find, Panic, Credit, Send, Signal, Exit,
         main
<1>2. worker_pc[w] \notin {"unborn", "done", "panicked"}
  BY DEF Worker, Check, Report, Miss, Find, Panic, Credit, Send, Signal, Exit
<1> QED
  BY <1>1, <1>2 DEF EmptyHanded, Ended

\* The calling thread leaves the receive once, and by Disconnected only when
\* every worker has ended before an empty channel.
LEMMA OthersKeepWaiting ==
    ASSUME TypeOK, Fresh, Accounted, Waiting, EmptyHanded, Others
    PROVE  Waiting' /\ EmptyHanded'
<1>0. None \notin Workers
  BY RaceAssumption
<1>7. CASE Refused
  BY <1>7 DEF Refused, Fresh, Waiting, EmptyHanded
<1>8. CASE Spawn
  BY <1>8 DEF Spawn, Fresh, Waiting, EmptyHanded
<1>1. CASE Receive
  BY <1>1 DEF Receive, Waiting, EmptyHanded
<1>2. CASE Disconnected
  <2>1. \A w \in Workers : w \notin found
    BY <1>2 DEF Disconnected, AllEnded, Ended, Waiting, Accounted, Sent
  <2> QED
    BY <1>2, <2>1
       DEF Disconnected, AllEnded, Ended, Waiting, EmptyHanded, locals
<1>3. CASE TimeOut
  BY <1>3 DEF TimeOut, Waiting, EmptyHanded
<1>4. CASE StopAll \/ JoinProgress \/ JoinWorkers
  BY <1>4 DEF StopAll, JoinProgress, JoinWorkers, Waiting, EmptyHanded, Ended,
              locals
<1>5. CASE Progress
  BY <1>5 DEF Progress, Waiting, EmptyHanded, Ended, locals, main
<1>6. CASE Terminated
  BY <1>6 DEF Terminated, Waiting, EmptyHanded, Ended, vars, locals, main
<1> QED
  BY <1>1, <1>2, <1>3, <1>4, <1>5, <1>6, <1>7, <1>8 DEF Others, Main

-----------------------------------------------------------------------------

\* The inductive invariant of the race.
RaceInv == TypeOK /\ Fresh /\ Accounted /\ Waiting /\ EmptyHanded

\* It holds throughout.
LEMMA RaceInvHolds == Spec => []RaceInv
<1>1. Init => Accounted /\ Waiting /\ EmptyHanded
  BY DEF Init, Accounted, Waiting, EmptyHanded
<1>2. /\ TypeOK /\ Fresh /\ Accounted /\ Waiting /\ EmptyHanded /\ [Next]_vars
      => (Accounted /\ Waiting /\ EmptyHanded)'
  <2> SUFFICES ASSUME TypeOK, Fresh, Accounted, Waiting, EmptyHanded,
                      [Next]_vars
               PROVE  Accounted' /\ Waiting' /\ EmptyHanded'
    OBVIOUS
  <2>1. ASSUME NEW w \in Workers, Worker(w)
        PROVE  Accounted' /\ Waiting' /\ EmptyHanded'
    BY <2>1, WorkerKeepsAccounted, WorkerKeepsWaiting, WorkerKeepsEmptyHanded
  <2>2. CASE Others
    BY <2>2, OthersKeepAccounted, OthersKeepWaiting
  <2>3. CASE UNCHANGED vars
    BY <2>3 DEF Accounted, Waiting, EmptyHanded, Ended, vars, locals, main
  <2> QED
    BY <2>1, <2>2, <2>3 DEF Next, Others
<1> QED
  BY <1>1, <1>2, TypeCorrect, PTL DEF Spec, RaceInv

\* A race that comes back empty-handed before its timeout has lost nothing: every
\* worker spent its budget or panicked, whatever order the threads ran in, or the
\* race was refused.
THEOREM NoSolutionEverLost == Spec => []NoSolutionLost
<1>1. RaceInv => NoSolutionLost
  <2> SUFFICES ASSUME RaceInv, main_pc = "returned"
               PROVE  /\ winner # None => winner \in found
                      /\ (winner = None /\ ~timed_out) =>
                             /\ found = {}
                             /\ \/ \A w \in Workers :
                                       \/ tried[w] = max_per_thread
                                       \/ w \in Panicked
                                \/ \A w \in Workers : worker_pc[w] = "unborn"
    BY DEF NoSolutionLost
  <2>1. winner # None => winner \in found
    BY DEF RaceInv, Accounted
  <2>2. ASSUME winner = None, ~timed_out
        PROVE  /\ found = {}
               /\ \/ \A w \in Workers :
                         tried[w] = max_per_thread \/ w \in Panicked
                  \/ \A w \in Workers : worker_pc[w] = "unborn"
    <3>1. CASE \A w \in Workers : worker_pc[w] = "unborn"
      BY <3>1 DEF RaceInv, TypeOK, Accounted, Sent
    <3>2. CASE \A w \in Workers :
                   /\ Ended(w)
                   /\ w \notin found
                   /\ worker_pc[w] = "done" => tried[w] = max_per_thread
      BY <3>2 DEF RaceInv, TypeOK, Ended, Panicked
    <3> QED
      BY <2>2, <3>1, <3>2 DEF RaceInv, EmptyHanded
  <2> QED
    BY <2>1, <2>2
<1> QED
  BY <1>1, RaceInvHolds, PTL

\* A sender is left behind only by three solutions in one race, or two after a
\* timeout, for any number of workers.
THEOREM StuckAlwaysNeedsCrowd == Spec => []StuckNeedsCrowd
<1>1. RaceInv => StuckNeedsCrowd
  <2> SUFFICES ASSUME RaceInv, SendersStuck
               PROVE  Cardinality(found) >= (IF winner = None THEN 2 ELSE 3)
    BY DEF StuckNeedsCrowd
  <2>1. PICK w \in Workers : worker_pc[w] = "send"
    BY DEF SendersStuck
  <2>2. /\ w \in found /\ channel \in found /\ w # channel /\ winner # channel
        /\ winner # None => winner \in found /\ w # winner
    BY <2>1 DEF SendersStuck, RaceInv, Accounted, Sent
  <2>3. IsFiniteSet(found)
    BY RaceAssumption, FS_Subset DEF RaceInv, TypeOK
  <2>4. IsFiniteSet({w, channel}) /\ Cardinality({w, channel}) = 2
    <3>1. IsFiniteSet({w}) /\ Cardinality({w}) = 1
      BY FS_Singleton
    <3>2. {w, channel} = {w} \cup {channel} /\ channel \notin {w}
      BY <2>2
    <3> QED
      BY <3>1, <3>2, FS_AddElement
  <2>5. CASE winner = None
    <3>1. {w, channel} \subseteq found
      BY <2>2
    <3>2. Cardinality({w, channel}) <= Cardinality(found)
      BY <3>1, <2>3, FS_Subset
    <3> QED
      BY <3>2, <2>4, <2>5
  <2>6. CASE winner # None
    <3> DEFINE two == {w, channel}
               three == two \cup {winner}
    <3>1. winner \notin two /\ three \subseteq found
      BY <2>2, <2>6
    <3>2. IsFiniteSet(two) /\ Cardinality(two) = 2
      BY <2>4
    <3> HIDE DEF two
    <3>3. Cardinality(three) = Cardinality(two) + 1
      BY <3>1, <3>2, FS_AddElement
    <3>4. Cardinality(three) = 3
      BY <3>2, <3>3
    <3> HIDE DEF three
    <3>5. Cardinality(three) <= Cardinality(found)
      BY <3>1, <2>3, FS_Subset
    <3> QED
      BY <3>4, <3>5, <2>6
  <2> QED
    BY <2>5, <2>6
<1> QED
  BY <1>1, RaceInvHolds, PTL

-----------------------------------------------------------------------------
(* What the counter holds.                                                 *)

\* The part of a worker's nonces that is in the counter: what it reported, what
\* it added on its way out, and once more what it added as a finder.
Counted(w) ==
    (tried[w] - since_report[w])
    + (IF worker_pc[w] = "done" THEN since_report[w] ELSE 0)
    + (IF w \in found /\ worker_pc[w] # "credit" THEN since_report[w] ELSE 0)

CountedBy == [w \in Workers |-> Counted(w)]

\* No worker has more to report than it tried, nor a whole report except on
\* its way to give it; the counter is the sum of what the workers added; and
\* the race returns with a winner only when every worker has ended.
CountInv ==
    /\ \A w \in Workers :
           /\ since_report[w] <= tried[w]
           /\ worker_pc[w] # "report" => since_report[w] <= ReportEvery - 1
    /\ total_nonces = SumFunctionOnSet(CountedBy, Workers)
    /\ (main_pc = "returned" /\ winner # None) => AllEnded

\* What is counted of a worker is a natural number.
LEMMA CountedType ==
    ASSUME TypeOK, CountInv
    PROVE  \A w \in Workers : CountedBy[w] \in Nat
BY RaceAssumption DEF TypeOK, CountInv, CountedBy, Counted

\* The counter starts where the workers do.
LEMMA CountInit == Init => CountInv
<1> SUFFICES ASSUME Init PROVE CountInv
  OBVIOUS
<1>1. \A w \in Workers : CountedBy[w] = 0
  BY DEF Init, CountedBy, Counted
<1>2. SumFunctionOnSet(CountedBy, Workers) = 0 * Cardinality(Workers)
  BY <1>1, SumConstant, RaceAssumption
<1>3. Cardinality(Workers) \in Nat
  BY RaceAssumption, FS_CardinalityType
<1>4. SumFunctionOnSet(CountedBy, Workers) = 0
  BY <1>2, <1>3
<1> QED
  BY <1>4, RaceAssumption DEF Init, CountInv

\* A step that changes what is counted of one worker moves the counter by that.
LEMMA CountStep ==
    ASSUME TypeOK, CountInv, NEW w \in Workers,
           \A v \in Workers \ {w} : CountedBy'[v] = CountedBy[v],
           NEW n \in Nat, CountedBy'[w] = CountedBy[w] + n,
           total_nonces' = total_nonces + n
    PROVE  total_nonces' = SumFunctionOnSet(CountedBy', Workers)
<1>1. \A v \in Workers : CountedBy[v] \in Nat
  BY CountedType
<1>2. CountedBy'[w] \in Nat /\ CountedBy[w] \in Nat
  BY <1>1
<1> DEFINE new == CountedBy'
           old == CountedBy
<1>3. /\ \A v \in Workers : old[v] \in Nat
      /\ \A v \in Workers \ {w} : new[v] = old[v]
      /\ new[w] \in Nat /\ new[w] = old[w] + n
  BY <1>1, <1>2
<1>4. total_nonces = SumFunctionOnSet(old, Workers)
  BY DEF CountInv
<1> HIDE DEF new, old
<1>5. SumFunctionOnSet(new, Workers)
          = SumFunctionOnSet(old, Workers) - old[w] + new[w]
  BY <1>3, SumChange, RaceAssumption
<1>6. SumFunctionOnSet(old, Workers) \in Nat
  BY <1>3, SumType, RaceAssumption
<1>7. old[w] \in Nat
  BY <1>3
<1>8. SumFunctionOnSet(new, Workers) = SumFunctionOnSet(old, Workers) + n
  BY <1>3, <1>5, <1>6, <1>7
<1> QED
  BY <1>4, <1>8 DEF new

\* Every access of a worker keeps the count: the nonce it draws is not in the
\* counter before it is reported.
LEMMA WorkerKeepsCount ==
    ASSUME TypeOK, Accounted, CountInv, NEW w \in Workers, Worker(w)
    PROVE  CountInv'
<1> DEFINE Bounds(v) == /\ since_report[v] <= tried[v]
                        /\ worker_pc[v] # "report" =>
                               since_report[v] <= ReportEvery - 1
           Moves(n) == /\ \A v \in Workers \ {w} : CountedBy'[v] = CountedBy[v]
                       /\ n \in Nat /\ CountedBy'[w] = CountedBy[w] + n
                       /\ total_nonces' = total_nonces + n
<1>0. /\ ReportEvery \in Nat \ {0} /\ max_per_thread \in Nat
      /\ tried[w] \in Nat /\ since_report[w] \in Nat /\ total_nonces \in Nat
      /\ Bounds(w)
  BY RaceAssumption DEF TypeOK, CountInv
<1>1. /\ main_pc' = main_pc /\ winner' = winner
      /\ worker_pc[w] \notin {"done", "panicked"}
  BY DEF Worker, Check, Report, Miss, Find, Panic, Credit, Send, Signal, Exit,
         main
<1>2. (main_pc' = "returned" /\ winner' # None) => AllEnded'
  BY <1>1 DEF CountInv, AllEnded, Ended
<1>3. /\ \A v \in Workers : Bounds(v)'
      /\ \E n \in Nat : Moves(n)
  <2>1. CASE Check(w)
    <3>1. w \notin found
      BY <2>1 DEF Check, Accounted, Sent
    <3>2. \A v \in Workers : Bounds(v)'
      BY <1>0, <2>1 DEF Check, Goto, TypeOK, CountInv
    <3>3. Moves(0)
      BY <1>0, <2>1, <3>1, CountedType DEF Check, Goto, TypeOK, CountedBy, Counted
    <3> QED
      BY <3>2, <3>3
  <2>2. CASE Report(w)
    <3>1. w \notin found
      BY <2>2 DEF Report, Accounted, Sent
    <3>2. \A v \in Workers : Bounds(v)'
      BY <1>0, <2>2 DEF Report, Goto, TypeOK, CountInv
    <3>3. Moves(since_report[w])
      BY <1>0, <2>2, <3>1
         DEF Report, Goto, Add, TypeOK, CountedBy, Counted
    <3> QED
      BY <1>0, <3>2, <3>3
  <2>3. CASE Miss(w) \/ Panic(w)
    <3>1. w \notin found
      BY <2>3 DEF Miss, Panic, Accounted, Sent
    <3>2. \A v \in Workers : Bounds(v)'
      BY <1>0, <2>3 DEF Miss, Panic, Goto, TypeOK, CountInv, locals
    <3>3. Moves(0)
      BY <1>0, <2>3, <3>1, CountedType
         DEF Miss, Panic, Goto, TypeOK, CountedBy, Counted, locals
    <3> QED
      BY <3>2, <3>3
  <2>4. CASE Find(w)
    <3>1. w \notin found
      BY <2>4 DEF Find, Accounted, Sent
    <3>2. \A v \in Workers : Bounds(v)'
      BY <1>0, <2>4 DEF Find, Goto, TypeOK, CountInv
    <3>3. Moves(0)
      BY <1>0, <2>4, <3>1, CountedType
         DEF Find, Goto, TypeOK, CountedBy, Counted
    <3> QED
      BY <3>2, <3>3
  <2>5. CASE Credit(w)
    <3>1. w \in found
      BY <2>5 DEF Credit, Accounted
    <3>2. \A v \in Workers : Bounds(v)'
      BY <1>0, <2>5 DEF Credit, Goto, TypeOK, CountInv, locals
    <3>3. Moves(since_report[w])
      BY <1>0, <2>5, <3>1
         DEF Credit, Goto, Add, TypeOK, CountedBy, Counted, locals
    <3> QED
      BY <1>0, <3>2, <3>3
  <2>6. CASE Send(w) \/ Signal(w)
    <3>1. \A v \in Workers : Bounds(v)'
      BY <1>0, <2>6 DEF Send, Signal, Goto, TypeOK, CountInv, locals
    <3>2. Moves(0)
      BY <1>0, <2>6, CountedType
         DEF Send, Signal, Goto, TypeOK, CountedBy, Counted, locals
    <3> QED
      BY <3>1, <3>2
  <2>7. CASE Exit(w)
    <3>1. \A v \in Workers : Bounds(v)'
      BY <1>0, <2>7 DEF Exit, Goto, TypeOK, CountInv, locals
    <3>2. Moves(since_report[w])
      BY <1>0, <2>7
         DEF Exit, Goto, Add, TypeOK, CountedBy, Counted, locals
    <3> QED
      BY <1>0, <3>1, <3>2
  <2> QED
    BY <2>1, <2>2, <2>3, <2>4, <2>5, <2>6, <2>7 DEF Worker
<1>4. total_nonces' = SumFunctionOnSet(CountedBy', Workers)
  BY <1>3, CountStep
<1> QED
  BY <1>2, <1>3, <1>4 DEF CountInv

\* Nothing is counted of a worker that is spawned.
LEMMA SpawnKeepsCount ==
    ASSUME TypeOK, Fresh, CountInv, Spawn
    PROVE  CountInv'
<1>1. /\ UNCHANGED <<tried, since_report, found, total_nonces>>
      /\ main_pc' # "returned"
  BY DEF Spawn, locals
<1>2. \A w \in Workers : /\ worker_pc[w] = "unborn" /\ worker_pc'[w] = "check"
                         /\ since_report[w] = 0 /\ w \notin found
  BY DEF Spawn, Fresh
<1>3. CountedBy' = CountedBy
  BY <1>1, <1>2 DEF CountedBy, Counted
<1>4. \A w \in Workers : since_report'[w] <= tried'[w]
                         /\ since_report'[w] <= ReportEvery - 1
  BY <1>1, <1>2, RaceAssumption DEF CountInv
<1> QED
  BY <1>1, <1>3, <1>4 DEF CountInv

\* The other threads add nothing, and join the workers before they return with
\* a winner.
LEMMA OthersKeepCount ==
    ASSUME TypeOK, Fresh, CountInv, Others \/ UNCHANGED vars
    PROVE  CountInv'
<1>0. CASE Spawn
  BY <1>0, SpawnKeepsCount
<1>1. ASSUME ~Spawn PROVE CountInv'
  <2>1. /\ UNCHANGED <<worker_pc, tried, since_report, found, total_nonces>>
        /\ (main_pc' = "returned" /\ winner' # None) => AllEnded
    <3>1. CASE Refused
      BY <3>1 DEF Refused, Fresh, locals
    <3>2. CASE Others /\ ~Refused
      BY <1>1, <3>2
         DEF Others, Main, Receive, Disconnected, StopAll, JoinProgress,
             JoinWorkers, TimeOut, Progress, Terminated, vars, locals, main,
             CountInv
    <3>3. CASE UNCHANGED vars
      BY <3>3 DEF vars, locals, main, CountInv
    <3> QED
      BY <3>1, <3>2, <3>3
  <2>2. CountedBy' = CountedBy /\ AllEnded' = AllEnded
    BY <2>1 DEF CountedBy, Counted, AllEnded, Ended
  <2> QED
    BY <2>1, <2>2 DEF CountInv
<1> QED
  BY <1>0, <1>1

\* The counter is the sum of what the workers added, throughout the race.
LEMMA CountInvHolds == Spec => []CountInv
<1>1. RaceInv /\ CountInv /\ [Next]_vars => CountInv'
  <2> SUFFICES ASSUME RaceInv, CountInv, [Next]_vars PROVE CountInv'
    OBVIOUS
  <2>1. ASSUME NEW w \in Workers, Worker(w) PROVE CountInv'
    BY <2>1, WorkerKeepsCount DEF RaceInv
  <2>2. CASE Others \/ UNCHANGED vars
    BY <2>2, OthersKeepCount DEF RaceInv
  <2> QED
    BY <2>1, <2>2 DEF Next, Others
<1> QED
  BY <1>1, CountInit, RaceInvHolds, PTL DEF Spec

\* Once every worker has ended, the counter has each nonce once, except the last
\* unreported ones: twice those of a finder, never those of a panic.
LEMMA CountWhenEnded ==
    ASSUME RaceInv, CountInv, AllEnded
    PROVE  /\ Tried <= total_nonces + Cardinality(Panicked) * (ReportEvery - 1)
           /\ total_nonces <= Tried + Cardinality(found) * (ReportEvery - 1)
<1>0. /\ IsFiniteSet(Workers) /\ ReportEvery - 1 \in Nat
      /\ found \subseteq Workers /\ Panicked \subseteq Workers
  BY RaceAssumption DEF RaceInv, TypeOK, Panicked
<1>1. \A w \in Workers : /\ tried[w] \in Nat /\ since_report[w] \in Nat
                         /\ since_report[w] <= ReportEvery - 1
                         /\ since_report[w] <= tried[w]
  BY DEF RaceInv, TypeOK, CountInv, AllEnded, Ended
<1>2. ASSUME NEW w \in Workers
      PROVE  /\ CountedBy[w] \in Nat
             /\ tried[w] <= CountedBy[w]
                            + (IF w \in Panicked THEN ReportEvery - 1 ELSE 0)
             /\ CountedBy[w] <= tried[w]
                                + (IF w \in found THEN ReportEvery - 1 ELSE 0)
  <2>1. CASE worker_pc[w] = "done"
    <3>1. w \notin Panicked
      BY <2>1 DEF Panicked
    <3>2. CountedBy[w] = (tried[w] - since_report[w]) + since_report[w]
                         + (IF w \in found THEN since_report[w] ELSE 0)
      BY <2>1 DEF CountedBy, Counted
    <3> QED
      BY <1>0, <1>1, <3>1, <3>2
  <2>2. CASE worker_pc[w] = "panicked"
    <3>1. w \in Panicked /\ w \notin found
      BY <2>2 DEF Panicked, RaceInv, Accounted, Sent
    <3>2. CountedBy[w] = (tried[w] - since_report[w]) + 0 + 0
      BY <2>2, <3>1 DEF CountedBy, Counted
    <3> QED
      BY <1>0, <1>1, <3>1, <3>2
  <2> QED
    BY <2>1, <2>2 DEF AllEnded, Ended
<1>4. SumFunctionOnSet(tried, Workers)
          <= SumFunctionOnSet(CountedBy, Workers)
             + Cardinality(Workers \cap Panicked) * (ReportEvery - 1)
  BY <1>0, <1>1, <1>2, SumExceeds
<1>5. SumFunctionOnSet(CountedBy, Workers)
          <= SumFunctionOnSet(tried, Workers)
             + Cardinality(Workers \cap found) * (ReportEvery - 1)
  BY <1>0, <1>1, <1>2, SumExceeds
<1>6. Workers \cap found = found /\ Workers \cap Panicked = Panicked
  BY <1>0
<1> QED
  BY <1>4, <1>5, <1>6 DEF Tried, CountInv

\* What the workers tried fits in the budget of all of them.
LEMMA TriedWithinBudget ==
    ASSUME TypeOK
    PROVE  /\ Tried \in Nat /\ max_per_thread * Cardinality(Workers) \in Nat
           /\ Tried <= max_per_thread * Cardinality(Workers)
           /\ (\A w \in Workers : tried[w] = max_per_thread)
                  => Tried = max_per_thread * Cardinality(Workers)
<1> DEFINE budget == [w \in Workers |-> max_per_thread]
<1>0. IsFiniteSet(Workers) /\ max_per_thread \in Nat
  BY RaceAssumption
<1>1. \A w \in Workers : /\ budget[w] \in Nat /\ budget[w] = max_per_thread
                         /\ tried[w] \in Nat /\ tried[w] <= budget[w]
  BY <1>0 DEF TypeOK
<1> HIDE DEF budget
<1>2. SumFunctionOnSet(tried, Workers) <= SumFunctionOnSet(budget, Workers)
  BY <1>0, <1>1, SumMonotone
<1>3. SumFunctionOnSet(budget, Workers) = max_per_thread * Cardinality(Workers)
  BY <1>0, <1>1, SumConstant
<1>4. ASSUME \A w \in Workers : tried[w] = max_per_thread
      PROVE  SumFunctionOnSet(tried, Workers)
                 = max_per_thread * Cardinality(Workers)
  BY <1>0, <1>4, SumConstant
<1>5. SumFunctionOnSet(tried, Workers) \in Nat
  BY <1>0, <1>1, SumType
<1>6. Cardinality(Workers) \in Nat
  BY <1>0, FS_CardinalityType
<1>7. max_per_thread * Cardinality(Workers) \in Nat
  BY <1>0, <1>6
<1> QED
  BY <1>2, <1>3, <1>4, <1>5, <1>7 DEF Tried

\* The session's count is off by less than a report per finder one way and per
\* panic the other, never falls short without a winner, and is exact when every
\* worker returned by itself, for any number of workers, any budget and any
\* report size.
THEOREM CountAlwaysWithinOneReport == Spec => []CountWithinOneReport
<1>1. RaceInv /\ CountInv => CountWithinOneReport
  <2> SUFFICES ASSUME RaceInv, CountInv, main_pc = "returned"
               PROVE  CountWithinOneReport
    BY DEF CountWithinOneReport
  <2>0. /\ Cardinality(Panicked) \in Nat /\ ReportEvery - 1 \in Nat
        /\ Cardinality(Panicked) * (ReportEvery - 1) \in Nat
    <3>1. IsFiniteSet(Panicked)
      BY RaceAssumption, FS_Subset DEF Panicked
    <3>2. Cardinality(Panicked) \in Nat
      BY <3>1, FS_CardinalityType
    <3>3. ReportEvery - 1 \in Nat
      BY RaceAssumption
    <3> QED
      BY <3>2, <3>3
  <2>1. CASE winner # None
    <3>1. AllEnded /\ nonces_tried = total_nonces
      BY <2>1 DEF CountInv, nonces_tried
    <3> QED
      BY <2>1, <3>1, CountWhenEnded DEF CountWithinOneReport
  <2>2. CASE winner = None
    <3> DEFINE lost == Cardinality(Panicked) * (ReportEvery - 1)
    <3>1. nonces_tried = max_per_thread * Cardinality(Workers)
      BY <2>2 DEF nonces_tried
    <3>2. nonces_tried \in Nat /\ Tried \in Nat /\ Tried <= nonces_tried
      BY <3>1, TriedWithinBudget DEF RaceInv
    <3>3. Tried <= nonces_tried + lost
      BY <3>2, <2>0
    <3>4. ASSUME ~timed_out, \A w \in Workers : worker_pc[w] = "done"
          PROVE  nonces_tried = Tried
      <4>1. \A w \in Workers : tried[w] = max_per_thread
        BY <2>2, <3>4 DEF RaceInv, EmptyHanded
      <4> QED
        BY <3>1, <4>1, TriedWithinBudget DEF RaceInv
    <3> QED
      BY <2>2, <3>2, <3>3, <3>4 DEF CountWithinOneReport
  <2> QED
    BY <2>1, <2>2
<1> QED
  BY <1>1, RaceInvHolds, CountInvHolds, PTL
=============================================================================
