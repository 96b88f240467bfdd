------------------------------ MODULE Emission ------------------------------
(***************************************************************************)
(* What the on-chain program promises a holder of the token, with nothing  *)
(* of how it does so: once opened, a sequence of heights, each closed      *)
(* once; a won height pays its winner the reward of its epoch, a skipped   *)
(* one pays nobody; the reward halves at every epoch's end; the total paid *)
(* never exceeds the cap.  Equium implements it, see its EmissionPromise.  *)
(***************************************************************************)
EXTENDS Integers

CONSTANTS
    Winners,      \* who can be paid
    FirstReward,  \* reward of the first epoch
    Epoch,        \* heights per epoch
    Cap           \* the most that is ever paid

VARIABLES
    open,     \* mining has begun, for good
    height,   \* the height to be closed next
    reward,   \* what closing it pays
    emitted,  \* total paid so far
    paid      \* total paid to each winner

vars == <<open, height, reward, emitted, paid>>

Init ==
    /\ open = FALSE
    /\ height = 0
    /\ reward = FirstReward
    /\ emitted = 0
    /\ paid = [w \in Winners |-> 0]

Open ==
    /\ ~open
    /\ open' = TRUE
    /\ UNCHANGED <<height, reward, emitted, paid>>

Close ==
    /\ open
    /\ height' = height + 1
    /\ reward' = IF height' % Epoch = 0 THEN reward \div 2 ELSE reward
    /\ UNCHANGED open

Win(w) ==
    /\ Close
    /\ reward > 0
    /\ emitted' = emitted + reward
    /\ emitted' <= Cap
    /\ paid' = [paid EXCEPT ![w] = @ + reward]

Skip ==
    /\ Close
    /\ UNCHANGED <<emitted, paid>>

Next == Open \/ Skip \/ \E w \in Winners : Win(w)

Spec == Init /\ [][Next]_vars
=============================================================================
