--------------------------- MODULE WatchdogProofs ---------------------------
(***************************************************************************)
(* Theorems about Watchdog, for all timeouts, cooldowns and slot lengths   *)
(* with the margin the client counts on.                                   *)
(***************************************************************************)
EXTENDS Watchdog, TLAPS

\* What the capped counters need of arithmetic: one more slot is one more of
\* the longest slots, and fewer slots than the timeout are fewer seconds.
LEMMA SlotProducts ==
    ASSUME NEW a \in Nat, NEW s \in Nat
    PROVE  s * (a + 1) = s * a + s /\ s * a \in Nat
  OBVIOUS

\* Seconds of the slowest slots order ages as slots do.
LEMMA StallNeedsSlots ==
    ASSUME NEW a \in Nat, NEW t \in Nat, NEW s \in Nat \ {0}, s * t <= s * a
    PROVE  t <= a
<1>1. SUFFICES ASSUME a + 1 <= t PROVE FALSE
  OBVIOUS
<1>2. PICK d \in Nat : t = (a + 1) + d
  <2>1. t - (a + 1) \in Nat /\ t = (a + 1) + (t - (a + 1))
    BY <1>1
  <2> QED
    BY <2>1
<1>3. s * t = s * (a + 1) + s * d
  BY <1>2
<1>4. s * (a + 1) = s * a + s /\ s * d \in Nat /\ s * a \in Nat
  BY SlotProducts
<1> QED
  BY <1>3, <1>4

\* A capped age is a natural number within its cap.
LEMMA UpToBounds ==
    ASSUME NEW limit \in Nat, NEW age \in Nat
    PROVE  /\ UpTo(limit, age) \in 0..limit
           /\ UpTo(limit, age) <= age
           /\ UpTo(limit, age) < limit => UpTo(limit, age) = age
  BY DEF UpTo

\* The client starts before the first round is due and has sent nothing.
LEMMA InitEstablishes == Init => SkipInvariant
<1> SUFFICES ASSUME Init PROVE SkipInvariant
  OBVIOUS
<1> USE WatchdogAssumption
<1>1. TypeOK
  BY DEF Init, TypeOK, Heights, Unseen, Never
<1>2. TimerBehindRound /\ SentForOpened /\ SkipIsDue
  BY DEF Init, TimerBehindRound, SentForOpened, SkipIsDue, Unseen
<1> QED
  BY <1>1, <1>2 DEF SkipInvariant

\* A step of the client that reads the height a node serves: the timer it goes
\* on with is its own for a height it knew and zero for one it did not.
LEMMA SeeKeepsTimer ==
    ASSUME TypeOK, TimerBehindRound, NEW n \in Nodes, See(view[n]),
           UNCHANGED chain
    PROVE  /\ current_height' \in Unseen..height'
           /\ stall' \in 0..ROUND_STALL_SECS
           /\ TimerBehindRound'
<1> USE WatchdogAssumption
<1>1. view[n] \in 0..height
  BY DEF TypeOK
<1>2. SlowestSlot * open_slots \in Nat
  BY SlotProducts DEF TypeOK
<1>3. /\ current_height' = view[n] /\ height' = height
      /\ open_slots' = open_slots
  BY DEF See, chain
<1>4. stall' = IF view[n] = current_height THEN stall ELSE 0
  BY DEF See, stall_for
<1>5. current_height' \in Unseen..height' /\ stall' \in 0..ROUND_STALL_SECS
  BY <1>1, <1>3, <1>4 DEF TypeOK, Unseen, Heights
<1>6. TimerBehindRound'
  BY <1>2, <1>3, <1>4 DEF TimerBehindRound, advance_empty_round_ok, TypeOK
<1> QED
  BY <1>5, <1>6

\* A round that stalled by the client's clock is old enough for the program.
LEMMA StalledIsDue ==
    ASSUME TypeOK, TimerBehindRound, NEW n \in Nodes, Stalled(view[n]),
           view[n] = height
    PROVE  advance_empty_round_ok
<1> USE WatchdogAssumption
<1>1. current_height = height /\ stall >= ROUND_STALL_SECS
  BY DEF Stalled, stall_for
<1>2. SUFFICES ASSUME ~advance_empty_round_ok PROVE FALSE
  OBVIOUS
<1>3. stall <= SlowestSlot * open_slots
  BY <1>1, <1>2 DEF TimerBehindRound
<1>4. SlowestSlot * ROUND_TIMEOUT_SLOTS <= SlowestSlot * open_slots
  <2>1. /\ SlowestSlot * ROUND_TIMEOUT_SLOTS \in Nat
        /\ SlowestSlot * open_slots \in Nat
    BY SlotProducts DEF TypeOK
  <2> QED
    BY <1>1, <1>3, <2>1, MarginAssumption DEF TypeOK
<1>5. ROUND_TIMEOUT_SLOTS <= open_slots
  BY <1>4, StallNeedsSlots DEF TypeOK
<1> QED
  BY <1>2, <1>5 DEF advance_empty_round_ok

\* Skips leave the network one by one; none is added.
LEMMA DecidedKeepsDue ==
    ASSUME TypeOK, NEW h \in Heights, in_flight[h] > 0, Decided(h)
    PROVE  /\ in_flight' \in [Heights -> Nat]
           /\ \A g \in Heights : in_flight'[g] > 0 => in_flight[g] > 0
  BY DEF TypeOK, Decided

\* When a round opens, nothing sent before is for it and no timer runs for it.
LEMMA OpenedIsFresh ==
    ASSUME TypeOK, Opened, UNCHANGED <<view, client>>,
           in_flight' \in [Heights -> Nat]
    PROVE  TypeOK' /\ TimerBehindRound'
<1> USE WatchdogAssumption
<1>1. height' = height + 1 /\ open_slots' = 0 /\ height' \in Heights
  BY DEF Opened, TypeOK, Heights
<1>2. UNCHANGED <<view, pc, current_height, stall, attempt, last_try>>
  BY DEF client
<1>3. view' \in [Nodes -> 0..height']
  BY <1>1, <1>2 DEF TypeOK, Heights
<1>4. current_height' \in Unseen..height' /\ current_height' # height'
  BY <1>1, <1>2 DEF TypeOK, Heights, Unseen
<1>5. TypeOK'
  BY <1>1, <1>2, <1>3, <1>4 DEF TypeOK
<1> QED
  BY <1>4, <1>5 DEF TimerBehindRound

-----------------------------------------------------------------------------
(* Preservation.                                                           *)

\* Fetching, or failing to skip, sends nothing.
LEMMA ReadPreserves ==
    ASSUME SkipInvariant, NEW n \in Nodes, See(view[n]),
           UNCHANGED <<chain, view, in_flight>>,
           pc' \in {"fetch", "solve"},
           attempt' \in Never..ADVANCE_COOLDOWN_SECS,
           last_try' \in 0..ADVANCE_COOLDOWN_SECS
    PROVE  SkipInvariant'
<1>1. /\ current_height' \in Unseen..height' /\ stall' \in 0..ROUND_STALL_SECS
      /\ TimerBehindRound'
  BY SeeKeepsTimer DEF SkipInvariant
<1>2. TypeOK'
  BY <1>1 DEF SkipInvariant, TypeOK, chain
<1>3. SentForOpened' /\ SkipIsDue'
  BY DEF SkipInvariant, SentForOpened, SkipIsDue, advance_empty_round_ok, chain
<1> QED
  BY <1>1, <1>2, <1>3 DEF SkipInvariant

\* A skip that is sent is for the height just read, and due if that is current.
LEMMA SkipSentPreserves ==
    ASSUME SkipInvariant, NEW n \in Nodes, SkipSent(n)
    PROVE  SkipInvariant'
<1> USE WatchdogAssumption
<1>1. /\ See(view[n]) /\ UNCHANGED <<height, open_slots, view>>
      /\ attempt' = 0 /\ last_try' = 0 /\ pc' = "confirm"
      /\ in_flight' = [in_flight EXCEPT ![view[n]] = @ + 1]
  BY DEF SkipSent, Attempt, chain
<1>2. view[n] \in 0..height /\ height \in Heights /\ view[n] \in Heights
  BY DEF SkipInvariant, TypeOK, Heights
<1>3. /\ current_height' \in Unseen..height' /\ stall' \in 0..ROUND_STALL_SECS
      /\ TimerBehindRound'
  BY <1>1, SeeKeepsTimer DEF SkipInvariant, chain
<1>4. in_flight' \in [Heights -> Nat]
  BY <1>1, <1>2 DEF SkipInvariant, TypeOK
<1>5. TypeOK'
  BY <1>1, <1>3, <1>4 DEF SkipInvariant, TypeOK, Never
<1>6. ASSUME NEW h \in Heights, in_flight'[h] > 0
      PROVE  in_flight[h] > 0 \/ h = view[n]
  BY <1>1, <1>2, <1>6 DEF SkipInvariant, TypeOK
<1>7. SentForOpened'
  BY <1>1, <1>2, <1>6 DEF SkipInvariant, SentForOpened
<1>8. SkipIsDue'
  <2>1. view[n] = height => advance_empty_round_ok
    BY StalledIsDue DEF SkipSent, Attempt, SkipInvariant
  <2> QED
    BY <1>1, <1>6, <2>1 DEF SkipInvariant, SkipIsDue, advance_empty_round_ok
<1> QED
  BY <1>3, <1>5, <1>7, <1>8 DEF SkipInvariant

\* Any step that opens a round: the skips before it are for earlier ones.
LEMMA OpenedPreserves ==
    ASSUME SkipInvariant, Opened, UNCHANGED <<view, client>>,
           in_flight' \in [Heights -> Nat],
           \A h \in Heights : in_flight'[h] > 0 => in_flight[h] > 0
    PROVE  SkipInvariant'
<1>1. TypeOK' /\ TimerBehindRound'
  BY OpenedIsFresh DEF SkipInvariant
<1>2. \A h \in Heights : in_flight'[h] > 0 => h < height'
  BY DEF SkipInvariant, SentForOpened, Opened, TypeOK, Heights
<1>3. SentForOpened' /\ SkipIsDue'
  BY <1>1, <1>2 DEF SentForOpened, SkipIsDue, TypeOK, Heights
<1> QED
  BY <1>1, <1>3 DEF SkipInvariant

\* A slot adds one to the round's age and at most the slowest slot to the timer.
LEMMA TickPreserves ==
    ASSUME SkipInvariant, NEW seconds \in SlotSeconds, Tick(seconds)
    PROVE  SkipInvariant'
<1> USE WatchdogAssumption
<1>1. /\ open_slots' = UpTo(ROUND_TIMEOUT_SLOTS, open_slots + 1)
      /\ stall' = UpTo(ROUND_STALL_SECS, stall + seconds)
      /\ attempt' = IF attempt = Never THEN Never
                    ELSE UpTo(ADVANCE_COOLDOWN_SECS, attempt + seconds)
      /\ last_try' = UpTo(ADVANCE_COOLDOWN_SECS, last_try + seconds)
      /\ UNCHANGED <<height, view, pc, current_height, in_flight>>
  BY DEF Tick
<1>2. /\ TypeOK /\ TimerBehindRound /\ SentForOpened /\ SkipIsDue
      /\ seconds \in 1..SlowestSlot
  BY DEF SkipInvariant
<1>3. /\ open_slots + 1 \in Nat /\ stall + seconds \in Nat
      /\ last_try + seconds \in Nat
  BY <1>2 DEF TypeOK
<1>4. /\ open_slots' \in 0..ROUND_TIMEOUT_SLOTS
      /\ open_slots' < ROUND_TIMEOUT_SLOTS => open_slots' = open_slots + 1
  BY <1>1, <1>3, UpToBounds
<1>5. stall' \in 0..ROUND_STALL_SECS /\ stall' <= stall + seconds
  BY <1>1, <1>3, UpToBounds
<1>6. last_try' \in 0..ADVANCE_COOLDOWN_SECS
  BY <1>1, <1>3, UpToBounds
<1>7. attempt' \in Never..ADVANCE_COOLDOWN_SECS
  <2>1. CASE attempt = Never
    BY <1>1, <2>1 DEF Never
  <2>2. CASE attempt # Never
    <3>1. attempt + seconds \in Nat
      BY <1>2, <2>2 DEF TypeOK, Never
    <3> QED
      BY <1>1, <2>2, <3>1, UpToBounds DEF Never
  <2> QED
    BY <2>1, <2>2
<1>8. TypeOK'
  BY <1>1, <1>2, <1>4, <1>5, <1>6, <1>7 DEF TypeOK
<1>9. advance_empty_round_ok => advance_empty_round_ok'
  BY <1>1, <1>2 DEF advance_empty_round_ok, TypeOK, UpTo
<1>10. SentForOpened' /\ SkipIsDue'
  BY <1>1, <1>2, <1>9 DEF SentForOpened, SkipIsDue
<1>11. TimerBehindRound'
  <2>1. SUFFICES ASSUME current_height' = height', ~advance_empty_round_ok'
                 PROVE  stall' <= SlowestSlot * open_slots'
    BY DEF TimerBehindRound
  <2>2. open_slots' = open_slots + 1
    BY <1>4, <2>1 DEF advance_empty_round_ok
  <2>3. stall <= SlowestSlot * open_slots
    BY <1>1, <1>2, <1>9, <2>1 DEF TimerBehindRound
  <2>4. /\ SlowestSlot * (open_slots + 1) = SlowestSlot * open_slots + SlowestSlot
        /\ SlowestSlot * open_slots \in Nat
    BY <1>2, SlotProducts DEF TypeOK
  <2> HIDE DEF TypeOK
  <2>5. stall \in Nat /\ stall' \in Nat
    BY <1>2, <1>5 DEF TypeOK
  <2> QED
    BY <1>2, <1>5, <2>2, <2>3, <2>4, <2>5
<1> QED
  BY <1>8, <1>10, <1>11 DEF SkipInvariant

\* Every step preserves the invariant.
LEMMA NextPreserves == SkipInvariant /\ [Next]_vars => SkipInvariant'
<1> SUFFICES ASSUME SkipInvariant, [Next]_vars PROVE SkipInvariant'
  OBVIOUS
<1> USE WatchdogAssumption
<1>1. ASSUME NEW n \in Nodes, Fetch(n) PROVE SkipInvariant'
  <2>1. /\ See(view[n]) /\ attempt' = attempt_age(view[n]) /\ pc' = "solve"
        /\ UNCHANGED <<chain, view, last_try, in_flight>>
    BY <1>1 DEF Fetch
  <2>2. attempt' \in Never..ADVANCE_COOLDOWN_SECS
    BY <2>1 DEF attempt_age, SkipInvariant, TypeOK, Never
  <2> QED
    BY <2>1, <2>2, ReadPreserves DEF SkipInvariant, TypeOK
<1>2. ASSUME NEW n \in Nodes, SkipSent(n) PROVE SkipInvariant'
  BY <1>2, SkipSentPreserves
<1>3. ASSUME NEW n \in Nodes, SkipFails(n) PROVE SkipInvariant'
  <2>1. /\ See(view[n]) /\ attempt' = 0 /\ last_try' = 0 /\ pc' = "fetch"
        /\ UNCHANGED <<chain, view, in_flight>>
    BY <1>3 DEF SkipFails, Attempt
  <2> QED
    BY <2>1, ReadPreserves DEF Never
<1>4. CASE ComeBack \/ SolveHangs \/ FetchFails
  <2>1. /\ UNCHANGED <<height, open_slots, view, current_height, stall, attempt,
                       last_try, in_flight>>
        /\ pc' \in {"fetch", "hung", "exited"}
    BY <1>4 DEF ComeBack, SolveHangs, FetchFails, chain
  <2> QED
    BY <2>1 DEF SkipInvariant, TypeOK, TimerBehindRound, SentForOpened,
                SkipIsDue, advance_empty_round_ok
<1>5. CASE Close
  BY <1>5, OpenedPreserves DEF Close, SkipInvariant, TypeOK
<1>6. ASSUME NEW h \in Heights, Land(h) PROVE SkipInvariant'
  <2>1. in_flight[h] > 0 /\ Opened /\ Decided(h) /\ UNCHANGED <<view, client>>
    BY <1>6 DEF Land
  <2>2. /\ in_flight' \in [Heights -> Nat]
        /\ \A g \in Heights : in_flight'[g] > 0 => in_flight[g] > 0
    BY <2>1, DecidedKeepsDue DEF SkipInvariant
  <2> QED
    BY <2>1, <2>2, OpenedPreserves
<1>7. ASSUME NEW h \in Heights, Fail(h) PROVE SkipInvariant'
  <2>1. /\ in_flight[h] > 0 /\ Decided(h)
        /\ UNCHANGED <<height, open_slots, view, pc, current_height, stall,
                       attempt, last_try>>
    BY <1>7 DEF Fail, chain, client
  <2>2. /\ in_flight' \in [Heights -> Nat]
        /\ \A g \in Heights : in_flight'[g] > 0 => in_flight[g] > 0
    BY <2>1, DecidedKeepsDue DEF SkipInvariant
  <2> QED
    BY <2>1, <2>2 DEF SkipInvariant, TypeOK, TimerBehindRound, SentForOpened,
                      SkipIsDue, advance_empty_round_ok
<1>8. ASSUME NEW n \in Nodes, CatchUp(n) PROVE SkipInvariant'
  <2>1. PICK h \in (view[n] + 1)..height : view' = [view EXCEPT ![n] = h]
    BY <1>8 DEF CatchUp
  <2>2. UNCHANGED <<height, open_slots, pc, current_height, stall, attempt,
                    last_try, in_flight>>
    BY <1>8 DEF CatchUp, chain, client
  <2>3. view' \in [Nodes -> 0..height']
    BY <2>1, <2>2 DEF SkipInvariant, TypeOK, Heights
  <2> QED
    BY <2>2, <2>3 DEF SkipInvariant, TypeOK, TimerBehindRound, SentForOpened,
                      SkipIsDue, advance_empty_round_ok
<1>9. ASSUME NEW seconds \in SlotSeconds, Tick(seconds) PROVE SkipInvariant'
  BY <1>9, TickPreserves
<1>10. CASE UNCHANGED vars
  BY <1>10 DEF vars, chain, client, SkipInvariant, TypeOK, TimerBehindRound,
               SentForOpened, SkipIsDue, advance_empty_round_ok
<1> QED
  BY <1>1, <1>2, <1>3, <1>4, <1>5, <1>6, <1>7, <1>8, <1>9, <1>10
     DEF Next, ClientStep, Network

-----------------------------------------------------------------------------

\* The invariant of the watchdog: the stall timer is never ahead of the round
\* it is for, in seconds of the slowest slots.
THEOREM SkipInvariantHolds == Spec => []SkipInvariant
<1> QED
  BY InitEstablishes, NextPreserves, PTL DEF Spec

\* A skip the client sends is never too early for the round it is for: the 75
\* seconds of main.rs:184 cover the program's 150 slots, for all values with
\* that margin, any nodes and any number of rounds.
THEOREM SkipNeverTooEarly == Spec => []SkipIsDue
<1>1. SkipInvariant => SkipIsDue
  BY DEF SkipInvariant
<1> QED
  BY <1>1, SkipInvariantHolds, PTL

-----------------------------------------------------------------------------
(* The cooldown.                                                           *)

\* The last attempt is the one remembered, or it is older than the timer.
Spacing ==
    \/ attempt # Never /\ last_try = attempt
    \/ attempt = Never /\ (last_try >= stall \/ last_try >= ADVANCE_COOLDOWN_SECS)

\* Every step preserves what the spacing of attempts follows from.
LEMMA SpacingPreserved ==
    ASSUME SkipInvariant, Spacing, [Next]_vars
    PROVE  Spacing'
<1> USE WatchdogAssumption
<1>1. TypeOK
  BY DEF SkipInvariant
<1>2. ASSUME NEW n \in Nodes, See(view[n]), attempt' = attempt_age(view[n]),
             last_try' = last_try
      PROVE  Spacing'
  BY <1>1, <1>2 DEF See, stall_for, attempt_age, Spacing, TypeOK, Never
<1>3. ASSUME NEW n \in Nodes, Fetch(n) PROVE Spacing'
  BY <1>2, <1>3 DEF Fetch
<1>4. ASSUME NEW n \in Nodes, Attempt(n) PROVE Spacing'
  BY <1>4 DEF Attempt, Spacing, Never
<1>5. ASSUME NEW seconds \in SlotSeconds, Tick(seconds) PROVE Spacing'
  <2>1. seconds \in Nat
    OBVIOUS
  <2>2. CASE attempt # Never
    <3>1. attempt' = last_try' /\ attempt' \in Nat
      BY <1>1, <1>5, <2>1, <2>2 DEF Tick, Spacing, UpTo, TypeOK, Never
    <3> QED
      BY <3>1 DEF Spacing, Never
  <2>3. CASE attempt = Never
    <3>1. last_try >= stall \/ last_try >= ADVANCE_COOLDOWN_SECS
      BY <2>3 DEF Spacing
    <3>2. /\ attempt' = Never
          /\ stall' = UpTo(ROUND_STALL_SECS, stall + seconds)
          /\ last_try' = UpTo(ADVANCE_COOLDOWN_SECS, last_try + seconds)
      BY <1>5, <2>3 DEF Tick
    <3>3. last_try' >= stall' \/ last_try' >= ADVANCE_COOLDOWN_SECS
      BY <1>1, <2>1, <3>1, <3>2 DEF UpTo, TypeOK
    <3> QED
      BY <3>2, <3>3 DEF Spacing
  <2> QED
    BY <2>2, <2>3
<1>6. CASE UNCHANGED <<stall, attempt, last_try>>
  BY <1>6 DEF Spacing
<1> QED
  BY <1>3, <1>4, <1>5, <1>6
     DEF Next, ClientStep, Network, SkipSent, SkipFails, ComeBack, SolveHangs,
         FetchFails, Close, Land, Fail, CatchUp, vars, client

\* An attempt finds the last one old enough.
LEMMA AttemptIsSpaced ==
    ASSUME SkipInvariant, Spacing, NEW n \in Nodes, Attempt(n)
    PROVE  last_try >= ADVANCE_COOLDOWN_SECS
<1> USE WatchdogAssumption
<1>1. /\ stall_for(view[n]) >= ROUND_STALL_SECS
      /\ \/ attempt_age(view[n]) = Never
         \/ attempt_age(view[n]) >= ADVANCE_COOLDOWN_SECS
  BY DEF Attempt, Stalled, cooled_down
<1>2. view[n] = current_height /\ stall >= ROUND_STALL_SECS
  BY <1>1 DEF stall_for
<1>3. attempt = Never \/ attempt >= ADVANCE_COOLDOWN_SECS
  BY <1>1, <1>2 DEF attempt_age
<1> QED
  BY <1>2, <1>3 DEF Spacing, SkipInvariant, TypeOK, Never

\* Attempts to skip keep the cooldown between them in every behaviour, also
\* across the heights a client reads back and forth.
THEOREM AttemptsAlwaysSpaced == Spec => AttemptsSpaced
<1>1. Init => Spacing
  BY WatchdogAssumption DEF Init, Spacing
<1>2. SkipInvariant /\ Spacing /\ [Next]_vars => Spacing'
  BY SpacingPreserved
<1>3. SkipInvariant /\ Spacing
        => [\A n \in Nodes : Attempt(n) => last_try >= ADVANCE_COOLDOWN_SECS]_vars
  BY AttemptIsSpaced
<1> QED
  BY <1>1, <1>2, <1>3, SkipInvariantHolds, PTL DEF Spec, AttemptsSpaced
=============================================================================
