------------------------------ MODULE Watchdog ------------------------------
(***************************************************************************)
(* The empty-round watchdog of the miner (the stall timer and cooldown in  *)
(* the main loop of clients/cli-miner/src/main.rs) and the rule of the     *)
(* program it has to agree with (advance_empty_round).                     *)
(*                                                                         *)
(* The client measures seconds since it saw the height change, the program *)
(* counts slots since the round opened.  The RPC service answers from any  *)
(* of several nodes, each of which may lag behind the chain, so that the   *)
(* heights a client reads may go back and forth.  Other wallets close      *)
(* rounds at any time.  All times are ages, capped where they stop         *)
(* mattering; Miner has the same loop with its submissions and books.      *)
(***************************************************************************)
EXTENDS Integers, FiniteSets, FiniteSetsExt

CONSTANTS
    Nodes,                  \* RPC nodes that may answer a request
    ROUND_TIMEOUT_SLOTS,    \* age in slots at which the program skips a round
    ROUND_STALL_SECS,       \* age in seconds at which the client tries to
    ADVANCE_COOLDOWN_SECS,  \* pause between two attempts
    SlotSeconds,            \* how long a slot may take
    SlowestSlot,            \* a bound on them
    MAX_HEIGHT,             \* bound: no round is closed from here on
    MAX_IN_FLIGHT           \* bound on skips sent and not yet decided

ASSUME WatchdogAssumption ==
    /\ Nodes # {}
    /\ ROUND_TIMEOUT_SLOTS \in Nat
    /\ ROUND_STALL_SECS \in Nat \ {0}
    /\ ADVANCE_COOLDOWN_SECS \in 0..ROUND_STALL_SECS
    /\ SlowestSlot \in Nat \ {0}
    /\ SlotSeconds \subseteq 1..SlowestSlot
    /\ MAX_HEIGHT \in Nat
    /\ MAX_IN_FLIGHT \in Nat

\* "The on-chain instruction requires ROUND_TIMEOUT_SLOTS (about 60s) of
\* slot-elapsed time; we wait a bit longer for safety": 75 seconds are enough
\* for 150 slots of up to half a second.
ASSUME MarginAssumption == SlowestSlot * ROUND_TIMEOUT_SLOTS <= ROUND_STALL_SECS

VARIABLES
    height,          \* block_height on the chain
    open_slots,      \* slots since the round opened, up to the timeout
    view,            \* the height each node serves
    pc,              \* the client: "fetch", "solve", "confirm", "hung", "exited"
    current_height,  \* the height it read last
    stall,           \* age of last_height_change_at, up to the stall limit
    attempt,         \* age of last_advance_attempt_at, up to the cooldown
    last_try,        \* age of the last attempt of all, up to the cooldown
    in_flight        \* skips sent and undecided, by the height they are for

client == <<pc, current_height, stall, attempt, last_try>>
chain == <<height, open_slots>>
vars == <<chain, view, client, in_flight>>

Heights == 0..MAX_HEIGHT
Never == -1    \* no attempt since the height changed (None)
Unseen == -1   \* no height read yet (u64::MAX)

UpTo(limit, age) == IF age < limit THEN age ELSE limit
InFlight == SumFunctionOnSet(in_flight, Heights)

Init ==
    /\ height = 0
    /\ open_slots = 0
    /\ view = [n \in Nodes |-> 0]
    /\ pc = "fetch"
    /\ current_height = Unseen
    /\ stall = 0
    /\ attempt = Never
    /\ last_try = ADVANCE_COOLDOWN_SECS
    /\ in_flight = [h \in Heights |-> 0]

-----------------------------------------------------------------------------
(* The client.                                                             *)

\* Mutation: a new height leaves the timer running.
stall_for_kept(seen) == stall

\* Mutation: every fetch restarts the timer.
stall_for_any_fetch(seen) == 0

\* last_height_change_at.elapsed(), once the height just read is accounted for.
stall_for(seen) == IF seen = current_height THEN stall ELSE 0

\* A new height also forgets the last attempt.
attempt_age(seen) == IF seen = current_height THEN attempt ELSE Never

cooled_down(seen) ==
    attempt_age(seen) = Never \/ attempt_age(seen) >= ADVANCE_COOLDOWN_SECS

Stalled(seen) == stall_for(seen) >= ROUND_STALL_SECS /\ cooled_down(seen)

See(seen) ==
    /\ current_height' = seen
    /\ stall' = stall_for(seen)

\* fetch_config, answered by some node; the round goes on and is solved for.
Fetch(n) ==
    /\ pc = "fetch"
    /\ ~Stalled(view[n])
    /\ See(view[n])
    /\ attempt' = attempt_age(view[n])
    /\ pc' = "solve"
    /\ UNCHANGED <<chain, view, last_try, in_flight>>

Attempt(n) ==
    /\ pc = "fetch"
    /\ Stalled(view[n])
    /\ See(view[n])
    /\ attempt' = 0
    /\ last_try' = 0

\* submit_advance_empty_round gets its transaction out and waits for it.
SkipSent(n) ==
    /\ Attempt(n)
    /\ InFlight < MAX_IN_FLIGHT
    /\ in_flight' = [in_flight EXCEPT ![view[n]] = @ + 1]
    /\ pc' = "confirm"
    /\ UNCHANGED <<chain, view>>

\* Mutation: an attempt that fails is not remembered.
SkipFails_unrecorded(n) ==
    /\ pc = "fetch"
    /\ Stalled(view[n])
    /\ See(view[n])
    /\ attempt' = attempt_age(view[n])
    /\ last_try' = 0
    /\ UNCHANGED <<chain, view, pc, in_flight>>

\* No blockhash, or the node refuses the transaction.
SkipFails(n) ==
    /\ Attempt(n)
    /\ UNCHANGED <<chain, view, pc, in_flight>>

\* The race is over, and the solution it may have found is submitted; or the
\* call for the skip returns, whatever it says of it.
ComeBack ==
    /\ pc \in {"solve", "confirm"}
    /\ pc' = "fetch"
    /\ UNCHANGED <<chain, view, current_height, stall, attempt, last_try,
                   in_flight>>

\* The race never returns: a worker waits to send a solution that nobody will
\* receive, and the client for the worker (SendersStuck in Race).
SolveHangs ==
    /\ pc = "solve"
    /\ pc' = "hung"
    /\ UNCHANGED <<chain, view, current_height, stall, attempt, last_try,
                   in_flight>>

\* A config that cannot be fetched ends the process.
FetchFails ==
    /\ pc = "fetch"
    /\ pc' = "exited"
    /\ UNCHANGED <<chain, view, current_height, stall, attempt, last_try,
                   in_flight>>

ClientStep ==
    \/ \E n \in Nodes : Fetch(n) \/ SkipSent(n) \/ SkipFails(n)
    \/ ComeBack

-----------------------------------------------------------------------------
(* The chain, the network and time.                                        *)

advance_empty_round_ok == open_slots >= ROUND_TIMEOUT_SLOTS

\* A new round opens.
Opened ==
    /\ height < MAX_HEIGHT
    /\ height' = height + 1
    /\ open_slots' = 0

\* Somebody wins the round or skips it.
Close ==
    /\ Opened
    /\ UNCHANGED <<view, client, in_flight>>

Decided(h) == in_flight' = [in_flight EXCEPT ![h] = @ - 1]

\* A skip names no round: it closes the one it finds, if that is old enough.
Land(h) ==
    /\ in_flight[h] > 0
    /\ advance_empty_round_ok
    /\ Opened
    /\ Decided(h)
    /\ UNCHANGED <<view, client>>

\* RoundStillActive, or the transaction expires.
Fail(h) ==
    /\ in_flight[h] > 0
    /\ Decided(h)
    /\ UNCHANGED <<chain, view, client>>

CatchUp(n) ==
    /\ \E h \in (view[n] + 1)..height : view' = [view EXCEPT ![n] = h]
    /\ UNCHANGED <<chain, client, in_flight>>

\* A slot passes.
Tick(seconds) ==
    /\ open_slots' = UpTo(ROUND_TIMEOUT_SLOTS, open_slots + 1)
    /\ stall' = UpTo(ROUND_STALL_SECS, stall + seconds)
    /\ attempt' = IF attempt = Never THEN Never
                  ELSE UpTo(ADVANCE_COOLDOWN_SECS, attempt + seconds)
    /\ last_try' = UpTo(ADVANCE_COOLDOWN_SECS, last_try + seconds)
    /\ UNCHANGED <<height, view, pc, current_height, in_flight>>

Network == \E h \in Heights : Land(h) \/ Fail(h)

Next ==
    \/ ClientStep
    \/ SolveHangs
    \/ FetchFails
    \/ Close
    \/ Network
    \/ \E n \in Nodes : CatchUp(n)
    \/ \E seconds \in SlotSeconds : Tick(seconds)

Spec == Init /\ [][Next]_vars

\* Time passes, the client is scheduled, and every node catches up in the end;
\* neither the service nor the network turns every single skip away.  A solve
\* that does not come back may hang for ever.
FairSpec ==
    /\ Spec
    /\ WF_vars(ClientStep)
    /\ WF_vars(\E seconds \in SlotSeconds : Tick(seconds))
    /\ \A n \in Nodes : WF_vars(CatchUp(n))
    /\ SF_vars(\E n \in Nodes : SkipSent(n))
    /\ SF_vars(\E h \in Heights : Land(h))

-----------------------------------------------------------------------------
(* Properties.                                                             *)

\* Ages within their caps, and nothing served or seen of heights to come.
TypeOK ==
    /\ height \in Heights
    /\ open_slots \in 0..ROUND_TIMEOUT_SLOTS
    /\ view \in [Nodes -> 0..height]
    /\ pc \in {"fetch", "solve", "confirm", "hung", "exited"}
    /\ current_height \in Unseen..height
    /\ stall \in 0..ROUND_STALL_SECS
    /\ attempt \in Never..ADVANCE_COOLDOWN_SECS
    /\ last_try \in 0..ADVANCE_COOLDOWN_SECS
    /\ in_flight \in [Heights -> Nat]

\* A skip that reaches the round it was sent for finds it due: the program can
\* turn it down with RoundStillActive only when "another miner beat us to it",
\* however uneven the slots are within the margin the client counts on and
\* whatever heights the nodes served before.
SkipIsDue ==
    \A h \in Heights :
        (in_flight[h] > 0 /\ h = height) => advance_empty_round_ok

\* The stall timer never runs ahead of the round it is for.
TimerBehindRound ==
    (current_height = height /\ ~advance_empty_round_ok) =>
        stall <= SlowestSlot * open_slots

\* A skip is sent for a round that has opened.
SentForOpened == \A h \in Heights : in_flight[h] > 0 => h <= height

\* What every step preserves and SkipIsDue follows from.
SkipInvariant == TypeOK /\ TimerBehindRound /\ SentForOpened /\ SkipIsDue

\* The cooldown, although a new height clears the memory of the last attempt:
\* two attempts are never closer than that, in one round or two, so that a
\* client that reads changing heights does not spam fees.
AttemptsSpaced ==
    [][\A n \in Nodes :
           Attempt(n) => last_try >= ADVANCE_COOLDOWN_SECS]_vars

\* No round stays open for ever while a client goes round its loop: whoever the
\* other wallets are and however the nodes took turns, a round nobody wins is
\* skipped, unless the client exits or hangs in a race.
RoundsGoOn ==
    \A h \in 0..(MAX_HEIGHT - 1) :
        height = h ~> (height > h \/ pc \in {"exited", "hung"})
=============================================================================
