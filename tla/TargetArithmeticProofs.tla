---------------------- MODULE TargetArithmeticProofs ----------------------
(***************************************************************************)
(* For every limb base, the limb-by-limb scale_target is the exact floor   *)
(* of old * num / den, saturated at the largest target.                    *)
(***************************************************************************)
EXTENDS TargetArithmetic, ArithmeticLemmas, TLAPS

\* The number five limbs (or columns not yet carried) denote.
ValueOf5(a) == (((a[1] * B + a[2]) * B + a[3]) * B + a[4]) * B + a[5]

Columns5 == [1..5 -> Nat]

-----------------------------------------------------------------------------
(* Multiplication.                                                         *)

\* A number is its high half shifted up plus its low half.
LEMMA HighLow ==
    ASSUME NEW x \in Nat
    PROVE  /\ High(x) \in Nat /\ Low(x) \in Limb
           /\ x = High(x) * B + Low(x)
<1>1. B \in Nat \ {0}
  BY BaseAssumption
<1>2. x \div B \in Nat /\ x % B \in 0..(B - 1) /\ x = B * (x \div B) + (x % B)
  BY <1>1, DivMod
<1> QED
  BY <1>1, <1>2 DEF High, Low, Limb

\* One more limb x, whose product is h * B + l: its high half h joins the
\* product of the limbs before it, v * n.
NextLimb(v, n, x, h, l, carried) ==
    (v * n + h) * B + (l + carried) = (v * B + x) * n + carried

\* Multiplying the digits multiplies the number.
LEMMA HornerTimes ==
    ASSUME NEW v \in Nat, NEW n \in Nat, NEW x \in Nat, NEW h \in Nat,
           NEW l \in Nat, NEW carried \in Nat, x * n = h * B + l
    PROVE  NextLimb(v, n, x, h, l, carried)
<1>1. B \in Nat
  BY BaseAssumption
<1>2. (v * n + h) * B = (v * n) * B + h * B
  BY <1>1
<1>3. (v * B + x) * n = (v * B) * n + x * n
  BY <1>1
<1>4. (v * n) * B = (v * B) * n
  BY <1>1
<1>5. (v * n) * B \in Nat /\ h * B \in Nat /\ x * n \in Nat
  BY <1>1
<1> QED
  BY <1>1, <1>2, <1>3, <1>4, <1>5 DEF NextLimb

\* The columns before carrying denote the product.
LEMMA ColumnsValue ==
    ASSUME NEW t \in Limbs, NEW n \in Limb
    PROVE  /\ Columns(t, n) \in Columns5
           /\ ValueOf5(Columns(t, n)) = ValueOf(t) * n
<1> DEFINE h(i) == High(t[i] * n)
           l(i) == Low(t[i] * n)
           c == Columns(t, n)
<1>1. B \in Nat /\ n \in Nat /\ \A i \in 1..4 : t[i] \in Nat
  BY BaseAssumption DEF Limbs, Limb
<1>2. \A i \in 1..4 : h(i) \in Nat /\ l(i) \in Nat /\ t[i] * n = h(i) * B + l(i)
  <2>1. \A i \in 1..4 : t[i] * n \in Nat
    BY <1>1
  <2> QED
    BY <2>1, HighLow DEF Limb
<1>3. /\ c[1] = h(1) /\ c[2] = l(1) + h(2) /\ c[3] = l(2) + h(3)
      /\ c[4] = l(3) + h(4) /\ c[5] = l(4)
  BY <1>1, <1>2 DEF Columns
<1>4. c \in Columns5
  <2>1. \A i \in 1..5 :
            (IF i = 1 THEN 0 ELSE l(i - 1)) + (IF i = 5 THEN 0 ELSE h(i))
                \in Nat
    BY <1>2
  <2> QED
    BY <2>1 DEF Columns, Columns5
<1> HIDE DEF h, l, c
<1>5. ValueOf5(c) = ValueOf(t) * n
  <2>1. /\ h(1) \in Nat /\ h(2) \in Nat /\ h(3) \in Nat /\ h(4) \in Nat
        /\ l(1) \in Nat /\ l(2) \in Nat /\ l(3) \in Nat /\ l(4) \in Nat
        /\ t[1] \in Nat /\ t[2] \in Nat /\ t[3] \in Nat /\ t[4] \in Nat
        /\ t[1] * n = h(1) * B + l(1)
        /\ t[2] * n = h(2) * B + l(2)
        /\ t[3] * n = h(3) * B + l(3)
        /\ t[4] * n = h(4) * B + l(4)
    BY <1>1, <1>2
  <2> DEFINE v2 == t[1] * B + t[2]
             v3 == v2 * B + t[3]
  <2>2. v2 \in Nat /\ v3 \in Nat /\ v2 = t[1] * B + t[2]
        /\ v3 = v2 * B + t[3]
    BY <1>1, <2>1
  <2> HIDE DEF v2, v3
  <2>3. c[1] * B + c[2] = t[1] * n + h(2)
    BY <1>1, <1>3, <2>1
  <2>4. (t[1] * n + h(2)) * B + c[3] = v2 * n + h(3)
    <3>1. NextLimb(t[1], n, t[2], h(2), l(2), h(3))
      BY <1>1, <2>1, HornerTimes
    <3> QED
      BY <1>3, <2>2, <3>1 DEF NextLimb
  <2>5. (v2 * n + h(3)) * B + c[4] = v3 * n + h(4)
    <3>1. NextLimb(v2, n, t[3], h(3), l(3), h(4))
      BY <1>1, <2>1, <2>2, HornerTimes
    <3> QED
      BY <1>3, <2>2, <3>1 DEF NextLimb
  <2>6. NextLimb(v3, n, t[4], h(4), l(4), 0)
    BY <1>1, <2>1, <2>2, HornerTimes
  <2>7. (v3 * n + h(4)) * B + c[5] = (v3 * B + t[4]) * n
    <3>1. v3 * n \in Nat /\ (v3 * B + t[4]) * n \in Nat
      BY <1>1, <2>1, <2>2
    <3> QED
      BY <1>1, <1>3, <2>1, <2>6, <3>1 DEF NextLimb
  <2> QED
    BY <2>2, <2>3, <2>4, <2>5, <2>7 DEF ValueOf5, ValueOf
<1> QED
  BY <1>4, <1>5 DEF c

\* A carry leaves the number alone and makes one column a proper limb.
LEMMA CarryValue ==
    ASSUME NEW a \in Columns5, NEW i \in 2..5
    PROVE  /\ Carry(a, i) \in Columns5
           /\ ValueOf5(Carry(a, i)) = ValueOf5(a)
           /\ Carry(a, i)[i] \in Limb
           /\ \A j \in (i + 1)..5 : Carry(a, i)[j] = a[j]
<1> DEFINE d == Carry(a, i)
<1>1. B \in Nat /\ \A j \in 1..5 : a[j] \in Nat
  BY BaseAssumption DEF Columns5
<1>2. High(a[i]) \in Nat /\ Low(a[i]) \in Limb /\ Low(a[i]) \in Nat
      /\ a[i] = High(a[i]) * B + Low(a[i])
  <2>1. a[i] \in Nat
    BY <1>1
  <2>2. High(a[i]) \in Nat /\ Low(a[i]) \in Limb
        /\ a[i] = High(a[i]) * B + Low(a[i])
    BY <2>1, HighLow
  <2> QED
    BY <1>1, <2>2 DEF Limb
<1>3. d = [j \in 1..5 |-> IF j = i THEN Low(a[i])
                          ELSE IF j = i - 1 THEN a[j] + High(a[i]) ELSE a[j]]
  <2>1. i - 1 \in 1..5 /\ i \in 1..5 /\ i - 1 # i
    OBVIOUS
  <2> QED
    BY <2>1 DEF Carry, Columns5
<1>4. d \in Columns5
  BY <1>1, <1>2, <1>3 DEF Columns5
<1>5. d[i] \in Limb /\ \A j \in (i + 1)..5 : d[j] = a[j]
  BY <1>2, <1>3
<1>6. d[i - 1] * B + d[i] = a[i - 1] * B + a[i]
  <2>1. d[i - 1] = a[i - 1] + High(a[i]) /\ d[i] = Low(a[i])
    BY <1>3
  <2>2. a[i - 1] \in Nat
    BY <1>1
  <2> QED
    BY <1>1, <1>2, <2>1, <2>2
<1>7. ValueOf5(d) = ValueOf5(a)
  <2>1. \A j \in 1..5 : j # i /\ j # i - 1 => d[j] = a[j]
    BY <1>3
  <2>2. CASE i = 2
    BY <1>6, <2>1, <2>2 DEF ValueOf5
  <2>3. ASSUME NEW x \in Nat, i # 2
        PROVE  (x * B + d[i - 1]) * B + d[i] = (x * B + a[i - 1]) * B + a[i]
    <3>1. d[i - 1] \in Nat /\ d[i] \in Nat /\ a[i - 1] \in Nat /\ a[i] \in Nat
      BY <1>1, <1>4 DEF Columns5
    <3> HIDE DEF d
    <3> DEFINE y == x * B
    <3>2. y \in Nat
      BY <1>1
    <3> HIDE DEF y
    <3>3. (y + d[i - 1]) * B + d[i] = y * B + (d[i - 1] * B + d[i])
      BY <1>1, <3>1, <3>2
    <3>4. (y + a[i - 1]) * B + a[i] = y * B + (a[i - 1] * B + a[i])
      BY <1>1, <3>1, <3>2
    <3> QED
      BY <1>6, <3>3, <3>4 DEF y
  <2> HIDE DEF d
  <2>4. a[1] \in Nat /\ a[1] * B + a[2] \in Nat
        /\ (a[1] * B + a[2]) * B + a[3] \in Nat
    BY <1>1
  <2>5. CASE i = 3
    BY <2>1, <2>3, <2>4, <2>5 DEF ValueOf5
  <2>6. CASE i = 4
    BY <2>1, <2>3, <2>4, <2>6 DEF ValueOf5
  <2>7. CASE i = 5
    BY <2>1, <2>3, <2>4, <2>7 DEF ValueOf5
  <2> QED
    BY <2>2, <2>5, <2>6, <2>7
<1> QED
  BY <1>4, <1>5, <1>7

\* Carrying leaves the number denoted alone and makes every limb proper.
LEMMA ProductValue ==
    ASSUME NEW t \in Limbs, NEW n \in Limb
    PROVE  LET a == Propagate(Columns(t, n))
           IN  /\ a \in Columns5
               /\ \A i \in 2..5 : a[i] \in Limb
               /\ ValueOf5(a) = ValueOf(t) * n
<1> DEFINE a0 == Columns(t, n)
           a1 == Carry(a0, 5)
           a2 == Carry(a1, 4)
           a3 == Carry(a2, 3)
           a4 == Carry(a3, 2)
<1>0. a0 \in Columns5 /\ ValueOf5(a0) = ValueOf(t) * n
  BY ColumnsValue
<1> HIDE DEF a0
<1>1. a1 \in Columns5 /\ ValueOf5(a1) = ValueOf5(a0) /\ a1[5] \in Limb
  BY <1>0, CarryValue
<1> HIDE DEF a1
<1>2. a2 \in Columns5 /\ ValueOf5(a2) = ValueOf5(a1) /\ a2[4] \in Limb
      /\ a2[5] = a1[5]
  BY <1>1, CarryValue
<1> HIDE DEF a2
<1>3. a3 \in Columns5 /\ ValueOf5(a3) = ValueOf5(a2) /\ a3[3] \in Limb
      /\ a3[4] = a2[4] /\ a3[5] = a2[5]
  BY <1>2, CarryValue
<1> HIDE DEF a3
<1>4. a4 \in Columns5 /\ ValueOf5(a4) = ValueOf5(a3) /\ a4[2] \in Limb
      /\ a4[3] = a3[3] /\ a4[4] = a3[4] /\ a4[5] = a3[5]
  BY <1>3, CarryValue
<1> HIDE DEF a4
<1>5. Propagate(Columns(t, n)) = a4
  BY DEF Propagate, a0, a1, a2, a3, a4
<1>6. \A i \in 2..5 : a4[i] \in Limb
  BY <1>1, <1>2, <1>3, <1>4
<1> QED
  BY <1>0, <1>1, <1>2, <1>3, <1>4, <1>5, <1>6

-----------------------------------------------------------------------------
(* Long division.                                                          *)

\* One limb of the division: with a remainder below the divisor carried in,
\* the quotient of a proper limb fits one limb.
LEMMA DivideLimb ==
    ASSUME NEW d \in Nat \ {0}, NEW rem \in 0..(d - 1), NEW limb \in Nat
    PROVE  /\ Quotient(rem, limb, d) \in Nat
           /\ Remainder(rem, limb, d) \in 0..(d - 1)
           /\ rem * B + limb =
                  d * Quotient(rem, limb, d) + Remainder(rem, limb, d)
           /\ limb \in Limb => Quotient(rem, limb, d) \in Limb
<1> DEFINE x == rem * B + limb
<1>1. B \in Nat /\ B > 0 /\ x \in Nat
  BY BaseAssumption
<1>2. x \div d \in Nat /\ x % d \in 0..(d - 1) /\ x = d * (x \div d) + (x % d)
  BY <1>1, DivMod
<1>3. ASSUME limb \in Limb PROVE x \div d \in Limb
  <2>1. limb <= B - 1
    BY <1>3 DEF Limb
  <2>2. rem * B <= (d - 1) * B
    BY <1>1
  <2>3. (d - 1) * B = d * B - B
    BY <1>1
  <2>4. x < d * B
    <3>1. rem * B \in Nat /\ d * B \in Nat
      BY <1>1
    <3> QED
      BY <1>1, <2>1, <2>2, <2>3, <3>1
  <2>5. x \div d < B
    BY <1>1, <2>4, DivBelow
  <2> QED
    BY <1>1, <1>2, <2>5 DEF Limb
<1> QED
  BY <1>2, <1>3 DEF Quotient, Remainder

\* The digits so far, x = d * y + rem, extended by one limb.
NextDigit(x, y, limb, d, q, r) == x * B + limb = d * (y * B + q) + r

\* Dividing digit by digit, remainders carried down, divides the number.
LEMMA HornerDivide ==
    ASSUME NEW d \in Nat, NEW x \in Nat, NEW y \in Nat, NEW rem \in Nat,
           NEW limb \in Nat, NEW q \in Nat, NEW r \in Nat,
           x = d * y + rem, rem * B + limb = d * q + r
    PROVE  NextDigit(x, y, limb, d, q, r)
<1>1. B \in Nat
  BY BaseAssumption
<1>2. x * B = (d * y) * B + rem * B
  BY <1>1
<1>3. d * (y * B + q) = d * (y * B) + d * q
  BY <1>1
<1>4. (d * y) * B = d * (y * B)
  BY <1>1
<1>5. (d * y) * B \in Nat /\ rem * B \in Nat /\ d * q \in Nat
  BY <1>1
<1> QED
  BY <1>1, <1>2, <1>3, <1>4, <1>5 DEF NextDigit

\* The five quotient limbs denote the quotient.
LEMMA DivideValue ==
    ASSUME NEW a \in Columns5, \A i \in 2..5 : a[i] \in Limb,
           NEW d \in Nat \ {0}
    PROVE  /\ Divide(a, d) \in Columns5
           /\ \A i \in 2..5 : Divide(a, d)[i] \in Limb
           /\ ValueOf5(Divide(a, d)) = ValueOf5(a) \div d
           /\ Divide(a, d)[1] = a[1] \div d
<1> DEFINE q1 == Quotient(0, a[1], d)
           r1 == Remainder(0, a[1], d)
           q2 == Quotient(r1, a[2], d)
           r2 == Remainder(r1, a[2], d)
           q3 == Quotient(r2, a[3], d)
           r3 == Remainder(r2, a[3], d)
           q4 == Quotient(r3, a[4], d)
           r4 == Remainder(r3, a[4], d)
           q5 == Quotient(r4, a[5], d)
           r5 == Remainder(r4, a[5], d)
           q == Divide(a, d)
<1>1. B \in Nat /\ a[1] \in Nat /\ a[2] \in Nat /\ a[3] \in Nat
      /\ a[4] \in Nat /\ a[5] \in Nat
      /\ a[2] \in Limb /\ a[3] \in Limb /\ a[4] \in Limb /\ a[5] \in Limb
  BY BaseAssumption DEF Columns5
<1>2. q1 \in Nat /\ r1 \in 0..(d - 1) /\ a[1] = d * q1 + r1
  <2>1. 0 \in 0..(d - 1) /\ 0 * B + a[1] = a[1]
    BY <1>1
  <2> QED
    BY <1>1, <2>1, DivideLimb
<1> HIDE DEF q1, r1
<1>3. q2 \in Nat /\ q2 \in Limb /\ r2 \in 0..(d - 1)
      /\ r1 * B + a[2] = d * q2 + r2
  BY <1>1, <1>2, DivideLimb
<1> HIDE DEF q2, r2
<1>4. q3 \in Nat /\ q3 \in Limb /\ r3 \in 0..(d - 1)
      /\ r2 * B + a[3] = d * q3 + r3
  BY <1>1, <1>3, DivideLimb
<1> HIDE DEF q3, r3
<1>5. q4 \in Nat /\ q4 \in Limb /\ r4 \in 0..(d - 1)
      /\ r3 * B + a[4] = d * q4 + r4
  BY <1>1, <1>4, DivideLimb
<1> HIDE DEF q4, r4
<1>6. q5 \in Nat /\ q5 \in Limb /\ r5 \in 0..(d - 1)
      /\ r4 * B + a[5] = d * q5 + r5
  BY <1>1, <1>5, DivideLimb
<1> HIDE DEF q5, r5
<1>7. q = <<q1, q2, q3, q4, q5>>
  BY DEF Divide, q1, r1, q2, r2, q3, r3, q4, r4, q5
<1> HIDE DEF q
<1>8. q[1] = q1 /\ q[2] = q2 /\ q[3] = q3 /\ q[4] = q4 /\ q[5] = q5
  BY <1>7
<1>9. q \in Columns5 /\ \A i \in 2..5 : q[i] \in Limb
  <2>1. q \in [1..5 -> Nat]
    BY <1>2, <1>3, <1>4, <1>5, <1>6, <1>7
  <2> QED
    BY <1>3, <1>4, <1>5, <1>6, <1>8, <2>1 DEF Columns5
<1>10. ValueOf5(q) = ValueOf5(a) \div d
  <2> DEFINE x2 == a[1] * B + a[2]
             x3 == x2 * B + a[3]
             x4 == x3 * B + a[4]
             x5 == x4 * B + a[5]
             y2 == q1 * B + q2
             y3 == y2 * B + q3
             y4 == y3 * B + q4
             y5 == y4 * B + q5
  <2>1. x2 \in Nat /\ y2 \in Nat /\ x3 \in Nat /\ y3 \in Nat
        /\ x4 \in Nat /\ y4 \in Nat /\ x5 \in Nat /\ y5 \in Nat
    BY <1>1, <1>2, <1>3, <1>4, <1>5, <1>6
  <2>2. r1 \in Nat /\ r2 \in Nat /\ r3 \in Nat /\ r4 \in Nat /\ r5 \in Nat
    BY <1>2, <1>3, <1>4, <1>5, <1>6
  <2>3. NextDigit(a[1], q1, a[2], d, q2, r2)
    BY <1>1, <1>2, <1>3, <2>2, HornerDivide
  <2>4. x2 = d * y2 + r2
    BY <2>3 DEF NextDigit
  <2> HIDE DEF x2, y2
  <2>5. NextDigit(x2, y2, a[3], d, q3, r3)
    BY <1>1, <1>4, <2>1, <2>2, <2>4, HornerDivide
  <2>6. x3 = d * y3 + r3
    BY <2>5 DEF NextDigit
  <2> HIDE DEF x3, y3
  <2>7. NextDigit(x3, y3, a[4], d, q4, r4)
    BY <1>1, <1>5, <2>1, <2>2, <2>6, HornerDivide
  <2>8. x4 = d * y4 + r4
    BY <2>7 DEF NextDigit
  <2> HIDE DEF x4, y4
  <2>9. NextDigit(x4, y4, a[5], d, q5, r5)
    BY <1>1, <1>6, <2>1, <2>2, <2>8, HornerDivide
  <2>10. x5 = d * y5 + r5
    BY <2>9 DEF NextDigit
  <2>11. ValueOf5(a) = x5 /\ ValueOf5(q) = y5
    BY <1>8 DEF ValueOf5, x2, x3, x4, y2, y3, y4
  <2> HIDE DEF x5, y5
  <2>12. x5 \div d = y5
    BY <1>6, <2>1, <2>10, DivUnique
  <2> QED
    BY <2>11, <2>12
<1>11. q[1] = a[1] \div d
  BY <1>1, <1>2, <1>8, DivUnique
<1> QED
  BY <1>9, <1>10, <1>11 DEF q

-----------------------------------------------------------------------------
(* Saturation.                                                             *)

\* A smaller leading digit makes a smaller number.
LEMMA HornerMonotone ==
    ASSUME NEW u \in Nat, NEW v \in Nat, NEW x \in Limb
    PROVE  /\ u <= v => u * B + x <= v * B + (B - 1)
           /\ u > v => u * B + x > v * B + (B - 1)
<1>1. B \in Nat /\ x \in Nat /\ x <= B - 1
  BY BaseAssumption DEF Limb
<1>2. u * B \in Nat /\ v * B \in Nat
  BY <1>1
<1>3. ASSUME u <= v PROVE u * B <= v * B
  BY <1>1, <1>3
<1>4. ASSUME u > v PROVE u * B >= v * B + B
  <2>1. u * B >= (v + 1) * B
    BY <1>1, <1>4
  <2>2. (v + 1) * B = v * B + B
    BY <1>1
  <2> QED
    BY <2>1, <2>2
<1> QED
  BY <1>1, <1>2, <1>3, <1>4

\* A five-limb number fits four limbs exactly when its first limb is zero.
LEMMA FitsOrExceeds ==
    ASSUME NEW q \in Columns5, \A i \in 2..5 : q[i] \in Limb
    PROVE  IF q[1] = 0 THEN ValueOf5(q) <= ValueOf(MaxTarget)
           ELSE ValueOf5(q) > ValueOf(MaxTarget)
<1> DEFINE m == B - 1
           m2 == m * B + m
           m3 == m2 * B + m
           m4 == m3 * B + m
           y2 == q[1] * B + q[2]
           y3 == y2 * B + q[3]
           y4 == y3 * B + q[4]
           y5 == y4 * B + q[5]
<1>1. B \in Nat /\ m \in Nat /\ q[1] \in Nat /\ q[2] \in Limb /\ q[3] \in Limb
      /\ q[4] \in Limb /\ q[5] \in Limb
  BY BaseAssumption DEF Columns5
<1>2. y2 \in Nat /\ y3 \in Nat /\ y4 \in Nat /\ m2 \in Nat /\ m3 \in Nat
  BY <1>1 DEF Limb
<1>3. ValueOf5(q) = y5 /\ ValueOf(MaxTarget) = m4
  BY DEF ValueOf5, ValueOf, MaxTarget
<1>4. IF q[1] = 0 THEN y2 <= m ELSE y2 > m
  <2>1. q[2] \in Nat /\ q[2] <= m
    BY <1>1 DEF Limb
  <2>2. q[1] # 0 => q[1] * B >= B
    BY <1>1
  <2>3. q[1] = 0 => q[1] * B = 0
    BY <1>1
  <2>4. q[1] * B \in Nat
    BY <1>1
  <2> QED
    BY <1>1, <2>1, <2>2, <2>3, <2>4
<1> HIDE DEF y2
<1>5. IF q[1] = 0 THEN y3 <= m2 ELSE y3 > m2
  BY <1>1, <1>2, <1>4, HornerMonotone
<1> HIDE DEF y3, m2
<1>6. IF q[1] = 0 THEN y4 <= m3 ELSE y4 > m3
  BY <1>1, <1>2, <1>5, HornerMonotone
<1> HIDE DEF y4, m3
<1>7. IF q[1] = 0 THEN y5 <= m4 ELSE y5 > m4
  BY <1>1, <1>2, <1>6, HornerMonotone
<1> QED
  BY <1>3, <1>7

-----------------------------------------------------------------------------

\* scale_target returns a proper target and computes the saturated floor of
\* the product by the ratio exactly, whatever the limb base.
THEOREM ScaleTargetExact ==
    ASSUME NEW t \in Limbs, NEW n \in Limb, NEW d \in Limb \ {0}
    PROVE  LET exact == (ValueOf(t) * n) \div d
           IN  /\ scale_target(t, n, d) \in Limbs
               /\ ValueOf(scale_target(t, n, d)) =
                      IF exact > ValueOf(MaxTarget)
                      THEN ValueOf(MaxTarget) ELSE exact
<1> DEFINE a == Propagate(Columns(t, n))
           q == Divide(a, d)
           out == [i \in 1..4 |-> q[i + 1]]
           exact == (ValueOf(t) * n) \div d
           s == scale_target(t, n, d)
           max == ValueOf(MaxTarget)
<1> SUFFICES s \in Limbs /\ ValueOf(s) = IF exact > max THEN max ELSE exact
  OBVIOUS
<1>1. B \in Nat /\ B > 1 /\ d \in Nat \ {0} /\ n \in Nat
  BY BaseAssumption DEF Limb
<1>2. a \in Columns5 /\ (\A i \in 2..5 : a[i] \in Limb)
      /\ ValueOf5(a) = ValueOf(t) * n
  BY ProductValue
<1> HIDE DEF a
<1>3. q \in Columns5 /\ (\A i \in 2..5 : q[i] \in Limb)
      /\ ValueOf5(q) = exact /\ q[1] = a[1] \div d
  BY <1>1, <1>2, DivideValue
<1>4. s = IF n = d THEN t
          ELSE IF a[1] >= d * B \/ q[1] # 0 THEN MaxTarget ELSE out
  BY DEF scale_target, a
<1> HIDE DEF q, s, exact, max
<1>5. MaxTarget \in Limbs
  BY <1>1 DEF MaxTarget, Limbs, Limb
<1>6. out \in Limbs
  BY <1>3 DEF Limbs
<1>7. CASE n = d
  <2>1. ValueOf(t) \in Nat
    BY <1>1 DEF ValueOf, Limbs, Limb
  <2>2. exact = ValueOf(t)
    <3>1. ValueOf(t) * n = d * ValueOf(t) + 0 /\ 0 \in 0..(d - 1)
          /\ ValueOf(t) * n \in Nat
      BY <1>1, <1>7, <2>1
    <3> QED
      BY <1>1, <2>1, <3>1, DivUnique DEF exact
  <2>3. ValueOf(t) <= ValueOf(MaxTarget)
    <3> DEFINE p == <<0, t[1], t[2], t[3], t[4]>>
    <3>1. t[1] \in Limb /\ t[2] \in Limb /\ t[3] \in Limb /\ t[4] \in Limb
      BY DEF Limbs
    <3>2. p \in Columns5 /\ (\A i \in 2..5 : p[i] \in Limb) /\ p[1] = 0
      BY <1>1, <3>1 DEF Columns5, Limb
    <3>3. ValueOf5(p) = ValueOf(t)
      BY <1>1, <3>1 DEF ValueOf5, ValueOf, Limb
    <3> HIDE DEF p
    <3> QED
      BY <3>2, <3>3, FitsOrExceeds
  <2>4. ValueOf(MaxTarget) \in Nat
    BY <1>1 DEF ValueOf, MaxTarget
  <2> QED
    BY <1>4, <1>7, <2>1, <2>2, <2>3, <2>4 DEF max
<1>8. CASE n # d /\ q[1] # 0
  <2>1. exact > ValueOf(MaxTarget)
    BY <1>3, <1>8, FitsOrExceeds
  <2> QED
    BY <1>4, <1>5, <1>8, <2>1 DEF max
<1>9. CASE n # d /\ q[1] = 0
  <2>1. ~(a[1] >= d * B)
    <3>1. a[1] \in Nat
      BY <1>2 DEF Columns5
    <3> DEFINE m == a[1] % d
               k == a[1] \div d
    <3>2. k = 0 /\ m \in 0..(d - 1) /\ a[1] = d * k + m
      BY <1>1, <1>3, <1>9, <3>1, DivMod
    <3> HIDE DEF m, k
    <3>3. d * B >= d /\ d * B \in Nat
      BY <1>1
    <3>4. a[1] < d
      BY <1>1, <3>1, <3>2
    <3> QED
      BY <1>1, <3>1, <3>3, <3>4
  <2>2. s = out
    BY <1>4, <1>9, <2>1
  <2>3. ValueOf(out) = ValueOf5(q)
    <3>1. q[1] * B + q[2] = q[2]
      BY <1>1, <1>3, <1>9 DEF Columns5
    <3> QED
      BY <3>1 DEF ValueOf, ValueOf5
  <2>4. exact <= ValueOf(MaxTarget)
    BY <1>3, <1>9, FitsOrExceeds
  <2>5. exact \in Nat /\ ValueOf(MaxTarget) \in Nat
    <3>1. ValueOf5(q) \in Nat
      BY <1>1, <1>3 DEF ValueOf5, Columns5
    <3> QED
      BY <1>1, <1>3, <3>1 DEF ValueOf, MaxTarget
  <2> QED
    BY <1>3, <1>6, <2>2, <2>3, <2>4, <2>5 DEF max
<1> QED
  BY <1>7, <1>8, <1>9 DEF s

-----------------------------------------------------------------------------
(* Comparison.                                                             *)

\* Appending the digits x and y to u and v compares them last.
ComparesLast(u, v, x, y) ==
    /\ u * B + x < v * B + y <=> (u < v \/ (u = v /\ x < y))
    /\ u * B + x = v * B + y <=> (u = v /\ x = y)

\* With equal leading digits the last digit decides.
LEMMA LastDigit ==
    ASSUME NEW u \in Nat, NEW v \in Nat, NEW x \in Limb, NEW y \in Limb
    PROVE  ComparesLast(u, v, x, y)
<1>1. B \in Nat /\ x \in 0..(B - 1) /\ y \in 0..(B - 1)
      /\ u * B \in Nat /\ v * B \in Nat
  BY BaseAssumption DEF Limb
<1>2. CASE u < v
  <2>1. v * B >= u * B + B
    <3>1. v * B >= (u + 1) * B /\ (u + 1) * B = u * B + B
      BY <1>1, <1>2
    <3> QED
      BY <3>1
  <2> QED
    BY <1>1, <1>2, <2>1 DEF ComparesLast
<1>3. CASE u = v
  BY <1>1, <1>3 DEF ComparesLast
<1>4. CASE u > v
  <2>1. u * B >= v * B + B
    <3>1. u * B >= (v + 1) * B /\ (v + 1) * B = v * B + B
      BY <1>1, <1>4
    <3> QED
      BY <3>1
  <2> QED
    BY <1>1, <1>4, <2>1 DEF ComparesLast
<1> QED
  BY <1>2, <1>3, <1>4 DEF ComparesLast

\* Comparing digit by digit from the most significant one compares the numbers.
THEOREM HashComparisonExact ==
    ASSUME NEW g \in Limbs, NEW t \in Limbs
    PROVE  hash_under_target(g, t) <=> ValueOf(g) < ValueOf(t)
<1> DEFINE g2 == g[1] * B + g[2]
           t2 == t[1] * B + t[2]
           g3 == g2 * B + g[3]
           t3 == t2 * B + t[3]
<1>1. /\ g[1] \in Limb /\ g[2] \in Limb /\ g[3] \in Limb /\ g[4] \in Limb
      /\ t[1] \in Limb /\ t[2] \in Limb /\ t[3] \in Limb /\ t[4] \in Limb
      /\ B \in Nat /\ g[1] \in Nat /\ t[1] \in Nat
  BY BaseAssumption DEF Limbs, Limb
<1>2. g2 \in Nat /\ t2 \in Nat /\ g3 \in Nat /\ t3 \in Nat
  BY <1>1 DEF Limb
<1>3. /\ g2 < t2 <=> (g[1] < t[1] \/ (g[1] = t[1] /\ g[2] < t[2]))
      /\ g2 = t2 <=> (g[1] = t[1] /\ g[2] = t[2])
  <2>1. ComparesLast(g[1], t[1], g[2], t[2])
    BY <1>1, LastDigit
  <2> QED
    BY <2>1 DEF ComparesLast
<1> HIDE DEF g2, t2
<1>4. /\ g3 < t3 <=> (g2 < t2 \/ (g2 = t2 /\ g[3] < t[3]))
      /\ g3 = t3 <=> (g2 = t2 /\ g[3] = t[3])
  <2>1. ComparesLast(g2, t2, g[3], t[3])
    BY <1>1, <1>2, LastDigit
  <2> QED
    BY <2>1 DEF ComparesLast
<1> HIDE DEF g3, t3
<1>5. ValueOf(g) < ValueOf(t) <=> (g3 < t3 \/ (g3 = t3 /\ g[4] < t[4]))
  <2>1. ComparesLast(g3, t3, g[4], t[4])
    BY <1>1, <1>2, LastDigit
  <2> QED
    BY <2>1 DEF ComparesLast, ValueOf, g2, g3, t2, t3
<1>6. hash_under_target(g, t) <=>
          \/ g[1] < t[1]
          \/ g[1] = t[1] /\ g[2] < t[2]
          \/ g[1] = t[1] /\ g[2] = t[2] /\ g[3] < t[3]
          \/ g[1] = t[1] /\ g[2] = t[2] /\ g[3] = t[3] /\ g[4] < t[4]
  BY DEF hash_under_target
<1> QED
  BY <1>3, <1>4, <1>5, <1>6

-----------------------------------------------------------------------------
(* The specification.                                                      *)

ArithmeticInvariant ==
    /\ TypeOK
    /\ computed => scaled = scale_target(old, num, den)

\* The first comparison is of a target with itself.
LEMMA ArithmeticInit == Init => ArithmeticInvariant
  BY DEF Init, ArithmeticInvariant, TypeOK

\* Every computed target is exact and is again four proper limbs.
LEMMA ArithmeticNext ==
    ArithmeticInvariant /\ [Next]_vars => ArithmeticInvariant'
<1> SUFFICES ASSUME ArithmeticInvariant, [Next]_vars
             PROVE  ArithmeticInvariant'
  OBVIOUS
<1>1. CASE Scale
  BY <1>1, ScaleTargetExact DEF Scale, ArithmeticInvariant, TypeOK
<1>2. CASE Again
  BY <1>2 DEF Again, ArithmeticInvariant, TypeOK
<1>3. CASE UNCHANGED vars
  BY <1>3 DEF vars, ArithmeticInvariant, TypeOK
<1> QED
  BY <1>1, <1>2, <1>3 DEF Next

\* Every retargeted value is the exact saturated quotient and four proper
\* limbs, however often the same ratio is applied.
THEOREM ScalingIsExact == Spec => [](TypeOK /\ ScaledExactly)
<1>1. ArithmeticInvariant => TypeOK /\ ScaledExactly
  BY ScaleTargetExact DEF ArithmeticInvariant, TypeOK, ScaledExactly
<1> QED
  BY <1>1, ArithmeticInit, ArithmeticNext, PTL DEF Spec

\* The digit comparison of any result with its predecessor is the numeric one.
THEOREM ComparisonIsExact == Spec => []ComparedExactly
<1>1. ArithmeticInvariant => ComparedExactly
  BY HashComparisonExact DEF ArithmeticInvariant, TypeOK, ComparedExactly
<1> QED
  BY <1>1, ArithmeticInit, ArithmeticNext, PTL DEF Spec
=============================================================================
