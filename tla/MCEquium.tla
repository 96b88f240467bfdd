------------------------------ MODULE MCEquium ------------------------------
(***************************************************************************)
(* Instances of Equium for TLC.  The schedule is shrunk so that a history  *)
(* of a few rounds crosses every halving down to a zero reward (5, 2, 1,   *)
(* 0, two heights each) and several difficulty windows.                    *)
(***************************************************************************)
EXTENDS Equium

\* The unix clock of the retarget run may stand still, run on time, be slow
\* or step backwards.
ClockDrift == {-1, 0, 2, 7}
=============================================================================
