-------------------------- MODULE TargetArithmetic --------------------------
(***************************************************************************)
(* The arithmetic of crates/equihash-core/src/target.rs, limb by limb: a   *)
(* 256-bit target is four limbs, most significant first, multiplied by a   *)
(* limb-sized numerator into a five-limb product and divided by a          *)
(* limb-sized denominator.  The code's limb base is 2^64; here it is a     *)
(* parameter, and the comparison of hashes works digit by digit likewise.  *)
(***************************************************************************)
EXTENDS Integers

CONSTANT B   \* limb base

ASSUME BaseAssumption == B \in Nat \ {0, 1}

Limb == 0..(B - 1)
Limbs == [1..4 -> Limb]
MaxTarget == [i \in 1..4 |-> B - 1]

\* The number four limbs denote.
ValueOf(t) == ((t[1] * B + t[2]) * B + t[3]) * B + t[4]

-----------------------------------------------------------------------------
(* hash_under_target.                                                      *)

\* Mutation: the loop goes on past a larger digit.
hash_under_target_any_digit(hash, target) ==
    \E i \in 1..4 : hash[i] < target[i]

\* The loop returns at the first digit where the two differ.
hash_under_target(hash, target) ==
    \E i \in 1..4 :
        /\ hash[i] < target[i]
        /\ \A j \in 1..(i - 1) : hash[j] = target[j]

-----------------------------------------------------------------------------
(* scale_target.                                                           *)

High(x) == x \div B
Low(x) == x % B

\* The five-limb product, before carries: each partial product leaves its low
\* half in its own place and its high half in the next one up.
Columns(old, num) ==
    [i \in 1..5 |->
        (IF i = 1 THEN 0 ELSE Low(old[i - 1] * num))
            + (IF i = 5 THEN 0 ELSE High(old[i] * num))]

\* Carries run from the last limb to the first.
Carry(a, i) == [a EXCEPT ![i] = Low(@), ![i - 1] = @ + High(a[i])]

Propagate(a) == Carry(Carry(Carry(Carry(a, 5), 4), 3), 2)

\* One step of the long division: remainder carried in, quotient limb out.
Quotient(rem, limb, den) == (rem * B + limb) \div den
Remainder(rem, limb, den) == (rem * B + limb) % den

Divide(a, den) ==
    LET r1 == Remainder(0, a[1], den)
        r2 == Remainder(r1, a[2], den)
        r3 == Remainder(r2, a[3], den)
        r4 == Remainder(r3, a[4], den)
    IN  <<Quotient(0, a[1], den), Quotient(r1, a[2], den),
          Quotient(r2, a[3], den), Quotient(r3, a[4], den),
          Quotient(r4, a[5], den)>>

\* Mutation: the fifth quotient limb is dropped.
scale_target_wrapping(old, num, den) ==
    LET q == Divide(Propagate(Columns(old, num)), den)
    IN  IF num = den THEN old ELSE [i \in 1..4 |-> q[i + 1]]

scale_target(old, num, den) ==
    LET a == Propagate(Columns(old, num))
        q == Divide(a, den)
    IN  IF num = den THEN old
        ELSE IF a[1] >= den * B \/ q[1] # 0 THEN MaxTarget
        ELSE [i \in 1..4 |-> q[i + 1]]

-----------------------------------------------------------------------------
(* One call of each function on every input, the outputs beside it.        *)

VARIABLES old, num, den, scaled, computed
vars == <<old, num, den, scaled, computed>>

Init ==
    /\ old \in Limbs
    /\ num \in Limb
    /\ den \in Limb \ {0}
    /\ scaled = old
    /\ computed = FALSE

Scale ==
    /\ ~computed
    /\ scaled' = scale_target(old, num, den)
    /\ computed' = TRUE
    /\ UNCHANGED <<old, num, den>>

\* The result is the target of the next window.
Again ==
    /\ computed
    /\ old' = scaled
    /\ computed' = FALSE
    /\ UNCHANGED <<num, den, scaled>>

Next == Scale \/ Again
Spec == Init /\ [][Next]_vars

\* Every result is four proper limbs: no quotient limb outgrows its word.
TypeOK ==
    /\ old \in Limbs /\ scaled \in Limbs
    /\ num \in Limb /\ den \in Limb \ {0}
    /\ computed \in BOOLEAN

\* The limbs compute the floor of old * num / den, saturated at the maximum.
ScaledExactly ==
    computed =>
        LET exact == (ValueOf(old) * num) \div den
        IN  ValueOf(scaled) = IF exact > ValueOf(MaxTarget)
                              THEN ValueOf(MaxTarget) ELSE exact

\* The comparison by digits is the comparison of the numbers.
ComparedExactly ==
    hash_under_target(scaled, old) <=> ValueOf(scaled) < ValueOf(old)
=============================================================================
