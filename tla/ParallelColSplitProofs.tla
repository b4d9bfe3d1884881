------------------------- MODULE ParallelColSplitProofs -------------------------
(***************************************************************************)
(* Every pair of integral columns, with any scale, and every pair of       *)
(* continuous ones is split into values that fit, whatever their bounds.   *)
(*                                                                         *)
(* The argument for integral columns: the formulas of postsolve take the   *)
(* first value next to a bound of the second column, at a distance of less *)
(* than the scale.  A range of the second column that covers the scale     *)
(* keeps this below its other bound, and the domain of the merged column   *)
(* keeps the first value within the bounds of the first column.            *)
(***************************************************************************)
EXTENDS ParallelColSplit, TLAPS

-----------------------------------------------------------------------------
(* Division and multiples                                                   *)

(* The quotient of an integer by a positive one is rounded down.            *)
LEMMA DivBounds ==
  ASSUME NEW n \in Int, NEW k \in Nat \ {0}
  PROVE /\ n \div k \in Int
        /\ k * (n \div k) <= n
        /\ n < k * (n \div k) + k
  OBVIOUS

(* k * m + k > k * n leaves m no room below n.                              *)
LEMMA Larger ==
  ASSUME NEW k \in Nat \ {0}, NEW m \in Int, NEW n \in Int, k * m + k > k * n
  PROVE m >= n
<1>1. SUFFICES ASSUME m <= n - 1 PROVE FALSE
  OBVIOUS
<1>2. k * (n - 1) >= k * m
  BY <1>1
<1>3. k * (n - 1) = k * n - k
  OBVIOUS
<1> QED BY <1>2, <1>3

(* A positive factor keeps the order.                                       *)
LEMMA Scaled ==
  ASSUME NEW k \in Nat \ {0}, NEW m \in Int, NEW n \in Int
  PROVE m <= n <=> k * m <= k * n
<1>1. ASSUME k * m <= k * n PROVE m <= n
  BY <1>1, Larger
<1>2. ASSUME m <= n PROVE k * m <= k * n
  BY <1>2
<1> QED BY <1>1, <1>2

(* An integral value is a multiple of Unit.                                 *)
LEMMA Multiple ==
  ASSUME NEW v \in Int, Integral(v)
  PROVE v \div Unit \in Int /\ v = Unit * (v \div Unit)
  BY UnitAssumption DEF Integral

-----------------------------------------------------------------------------
(* Pairs of integral columns                                                *)

(* The values of the first column that leave D - s * value as a small       *)
(* non-negative and non-positive number: D is the distance of the merged    *)
(* value to a bound of the second column.                                   *)
AboveLower(D, s) == RoundOf(1 - Abs(s) + 2 * D, 2 * s)
BelowUpper(D, s) == RoundOf(Abs(s) - 1 + 2 * D, 2 * s)

(* AboveLower leaves between 0 and |s| - 1.                                 *)
LEMMA NextToLower ==
  ASSUME NEW D \in Int, NEW s \in Int \ {0}
  PROVE /\ AboveLower(D, s) \in Int
        /\ 0 <= D - s * AboveLower(D, s)
        /\ D - s * AboveLower(D, s) <= Abs(s) - 1
<1>1. CASE s > 0
  <2> DEFINE t == s
             n == 2 + 4 * D
             k == 4 * t
             v == n \div k
  <2>1. AboveLower(D, s) = v
    BY <1>1 DEF AboveLower, RoundOf, FloorOf, Abs
  <2>2. n \in Int /\ t \in Nat \ {0} /\ k \in Nat \ {0}
    BY <1>1
  <2>3. v \in Int /\ k * v <= n /\ n < k * v + k
    <3> HIDE DEF n, k
    <3> QED BY <2>2, DivBounds
  <2> HIDE DEF v
  <2>4. k * v = 4 * (t * v) /\ t * v \in Int /\ s * v = t * v
    BY <2>3, <1>1
  <2> QED BY <1>1, <2>1, <2>3, <2>4 DEF Abs
<1>2. CASE s < 0
  <2> DEFINE t == -s
             n == 4 * t - 2 - 4 * D
             k == 4 * t
             v == n \div k
  <2>1. AboveLower(D, s) = v
    BY <1>2 DEF AboveLower, RoundOf, FloorOf, Abs
  <2>2. n \in Int /\ t \in Nat \ {0} /\ k \in Nat \ {0}
    BY <1>2
  <2>3. v \in Int /\ k * v <= n /\ n < k * v + k
    <3> HIDE DEF n, k
    <3> QED BY <2>2, DivBounds
  <2> HIDE DEF v
  <2>4. k * v = 4 * (t * v) /\ t * v \in Int /\ s * v = -(t * v)
    BY <2>3, <1>2
  <2> QED BY <1>2, <2>1, <2>3, <2>4 DEF Abs
<1> QED BY <1>1, <1>2

(* BelowUpper leaves between 1 - |s| and 0.                                 *)
LEMMA NextToUpper ==
  ASSUME NEW D \in Int, NEW s \in Int \ {0}
  PROVE /\ BelowUpper(D, s) \in Int
        /\ 1 - Abs(s) <= D - s * BelowUpper(D, s)
        /\ D - s * BelowUpper(D, s) <= 0
<1>1. CASE s > 0
  <2> DEFINE t == s
             n == 4 * t - 2 + 4 * D
             k == 4 * t
             v == n \div k
  <2>1. BelowUpper(D, s) = v
    BY <1>1 DEF BelowUpper, RoundOf, FloorOf, Abs
  <2>2. n \in Int /\ t \in Nat \ {0} /\ k \in Nat \ {0}
    BY <1>1
  <2>3. v \in Int /\ k * v <= n /\ n < k * v + k
    <3> HIDE DEF n, k
    <3> QED BY <2>2, DivBounds
  <2> HIDE DEF v
  <2>4. k * v = 4 * (t * v) /\ t * v \in Int /\ s * v = t * v
    BY <2>3, <1>1
  <2> QED BY <1>1, <2>1, <2>3, <2>4 DEF Abs
<1>2. CASE s < 0
  <2> DEFINE t == -s
             n == 2 - 4 * D
             k == 4 * t
             v == n \div k
  <2>1. BelowUpper(D, s) = v
    BY <1>2 DEF BelowUpper, RoundOf, FloorOf, Abs
  <2>2. n \in Int /\ t \in Nat \ {0} /\ k \in Nat \ {0}
    BY <1>2
  <2>3. v \in Int /\ k * v <= n /\ n < k * v + k
    <3> HIDE DEF n, k
    <3> QED BY <2>2, DivBounds
  <2> HIDE DEF v
  <2>4. k * v = 4 * (t * v) /\ t * v \in Int /\ s * v = -(t * v)
    BY <2>3, <1>2
  <2> QED BY <1>2, <2>1, <2>3, <2>4 DEF Abs
<1> QED BY <1>1, <1>2
(* The value of the first column in whole units: SplitIntegral without Unit. *)
FirstValue(x, s, L1, U1, L2, U2) ==
  LET first == Clamp0(L1, U1)
      rest == x - s * first
  IN IF rest < L2 THEN AboveLower(x - L2, s)
     ELSE IF rest > U2 THEN BelowUpper(x - U2, s)
     ELSE first

(* Both values fit, in whole units.                                         *)
LEMMA FirstValueFits ==
  ASSUME NEW x \in Int, NEW s \in Int \ {0},
         NEW L1 \in Int, NEW U1 \in Int, NEW L2 \in Int, NEW U2 \in Int,
         L1 <= U1, U2 - L2 >= Abs(s) - 1,
         L2 + s * (IF s < 0 THEN U1 ELSE L1) <= x,
         x <= U2 + s * (IF s < 0 THEN L1 ELSE U1)
  PROVE /\ FirstValue(x, s, L1, U1, L2, U2) \in Int
        /\ L1 <= FirstValue(x, s, L1, U1, L2, U2)
        /\ FirstValue(x, s, L1, U1, L2, U2) <= U1
        /\ L2 <= x - s * FirstValue(x, s, L1, U1, L2, U2)
        /\ x - s * FirstValue(x, s, L1, U1, L2, U2) <= U2
<1> DEFINE first == Clamp0(L1, U1)
           rest == x - s * first
           v == FirstValue(x, s, L1, U1, L2, U2)
<1>1. first \in Int /\ L1 <= first /\ first <= U1
  BY DEF Clamp0
<1>2. Abs(s) \in Nat \ {0}
  BY DEF Abs
<1>3. CASE rest < L2
  <2> HIDE DEF first
  <2> DEFINE w == AboveLower(x - L2, s)
  <2>1. v = w
    BY <1>3 DEF FirstValue, first
  <2>2. w \in Int /\ 0 <= x - L2 - s * w /\ x - L2 - s * w <= Abs(s) - 1
    <3> DEFINE D == x - L2
    <3>1. D \in Int
      OBVIOUS
    <3> HIDE DEF D
    <3>2. AboveLower(D, s) \in Int /\ 0 <= D - s * AboveLower(D, s) /\ D - s * AboveLower(D, s) <= Abs(s) - 1
      BY <3>1, NextToLower
    <3> QED BY <3>2 DEF D
  <2> HIDE DEF w
  <2>3. s * w \in Int /\ s * first \in Int
    BY <2>2, <1>1
  <2>4. L2 <= x - s * w /\ x - s * w <= U2
    BY <2>2, <2>3, <1>2
  <2>5. s * w < s * first
    BY <2>2, <2>3, <1>3
  <2>6. CASE s > 0
    <3>1. w < first
      BY <2>5, <2>6, <2>2, <1>1, Scaled
    <3>2. s * w + s > s * L1
      BY <2>2, <2>3, <2>6 DEF Abs
    <3>3. w >= L1
      BY <3>2, <2>2, <2>6, Larger
    <3> QED BY <3>1, <3>3, <2>1, <2>2, <2>4, <1>1
  <2>7. CASE s < 0
    <3> DEFINE t == -s
    <3>1. t \in Nat \ {0} /\ s * w = -(t * w) /\ s * first = -(t * first) /\ s * U1 = -(t * U1)
      BY <2>7, <2>2, <1>1
    <3>2. t * w \in Int /\ t * first \in Int /\ t * U1 \in Int
      BY <3>1, <2>2, <1>1
    <3>3. ~(t * w <= t * first)
      BY <3>1, <3>2, <2>5
    <3>4. w > first
      BY <3>3, <3>1, <2>2, <1>1, Scaled
    <3>5. t * U1 + t > t * w
      BY <3>1, <3>2, <2>2, <2>7 DEF Abs
    <3>6. U1 >= w
      BY <3>5, <3>1, <2>2, Larger
    <3> QED BY <3>4, <3>6, <2>1, <2>2, <2>4, <1>1
  <2> QED BY <2>6, <2>7
<1>4. CASE ~(rest < L2) /\ rest > U2
  <2> HIDE DEF first
  <2> DEFINE w == BelowUpper(x - U2, s)
  <2>1. v = w
    BY <1>4 DEF FirstValue, first
  <2>2. w \in Int /\ 1 - Abs(s) <= x - U2 - s * w /\ x - U2 - s * w <= 0
    <3> DEFINE D == x - U2
    <3>1. D \in Int
      OBVIOUS
    <3> HIDE DEF D
    <3>2. BelowUpper(D, s) \in Int /\ 1 - Abs(s) <= D - s * BelowUpper(D, s) /\ D - s * BelowUpper(D, s) <= 0
      BY <3>1, NextToUpper
    <3> QED BY <3>2 DEF D
  <2> HIDE DEF w
  <2>3. s * w \in Int /\ s * first \in Int
    BY <2>2, <1>1
  <2>4. L2 <= x - s * w /\ x - s * w <= U2
    BY <2>2, <2>3, <1>2
  <2>5. s * w > s * first
    BY <2>2, <2>3, <1>4
  <2>6. CASE s > 0
    <3>1. w > first
      BY <2>5, <2>6, <2>2, <1>1, Scaled
    <3>2. s * U1 + s > s * w
      BY <2>2, <2>3, <2>6 DEF Abs
    <3>3. U1 >= w
      BY <3>2, <2>2, <2>6, Larger
    <3> QED BY <3>1, <3>3, <2>1, <2>2, <2>4, <1>1
  <2>7. CASE s < 0
    <3> DEFINE t == -s
    <3>1. t \in Nat \ {0} /\ s * w = -(t * w) /\ s * first = -(t * first) /\ s * L1 = -(t * L1)
      BY <2>7, <2>2, <1>1
    <3>2. t * w \in Int /\ t * first \in Int /\ t * L1 \in Int
      BY <3>1, <2>2, <1>1
    <3>3. ~(t * first <= t * w)
      BY <3>1, <3>2, <2>5
    <3>4. w < first
      BY <3>3, <3>1, <2>2, <1>1, Scaled
    <3>5. t * w + t > t * L1
      BY <3>1, <3>2, <2>2, <2>7 DEF Abs
    <3>6. w >= L1
      BY <3>5, <3>1, <2>2, Larger
    <3> QED BY <3>4, <3>6, <2>1, <2>2, <2>4, <1>1
  <2> QED BY <2>6, <2>7
<1>5. CASE ~(rest < L2) /\ ~(rest > U2)
  <2>1. v = first
    BY <1>5 DEF FirstValue
  <2> HIDE DEF first
  <2> QED BY <2>1, <1>1, <1>5
<1> QED BY <1>3, <1>4, <1>5

(* A multiple of Unit is integral.                                          *)
LEMMA MultipleIntegral ==
  ASSUME NEW n \in Int
  PROVE Unit * n \in Int /\ Integral(Unit * n)
<1> DEFINE m == Unit * n
           q == m \div Unit
           rest == m % Unit
<1> USE UnitAssumption
<1>1. m \in Int
  OBVIOUS
<1>2. q \in Int /\ rest \in Int /\ m = Unit * q + rest /\ 0 <= rest /\ rest < Unit
  <2> HIDE DEF m
  <2> QED BY <1>1
<1> HIDE DEF q, rest
<1>3. Unit * n + Unit > Unit * q /\ Unit * q + Unit > Unit * n
  BY <1>2
<1>4. n >= q /\ q >= n
  BY <1>2, <1>3, Larger
<1>5. rest = 0
  BY <1>2, <1>4
<1> QED BY <1>1, <1>5 DEF rest, Integral

(* The same in units of 1/Unit: what SplitIntegral computes.                *)
LEMMA IntegralSplitFits ==
  ASSUME NEW r, NEW m \in Int, Integral(m),
         r.scale \in Int \ {0},
         r.lb1 \in Int, r.ub1 \in Int, r.lb2 \in Int, r.ub2 \in Int,
         Integral(r.lb1), Integral(r.ub1), Integral(r.lb2), Integral(r.ub2),
         r.lb1 <= r.ub1,
         r.ub2 - r.lb2 >= (Abs(r.scale) - 1) * Unit,
         NewLb(r) <= m, m <= NewUb(r)
  PROVE /\ r.lb1 <= SplitIntegral(r, m).val1 /\ SplitIntegral(r, m).val1 <= r.ub1
        /\ r.lb2 <= SplitIntegral(r, m).val2 /\ SplitIntegral(r, m).val2 <= r.ub2
        /\ Integral(SplitIntegral(r, m).val1) /\ Integral(SplitIntegral(r, m).val2)
        /\ SplitIntegral(r, m).val2 + r.scale * SplitIntegral(r, m).val1 = m
<1> DEFINE x == m \div Unit
           s == r.scale
           L1 == r.lb1 \div Unit
           U1 == r.ub1 \div Unit
           L2 == r.lb2 \div Unit
           U2 == r.ub2 \div Unit
           v == FirstValue(x, s, L1, U1, L2, U2)
<1>1. /\ x \in Int /\ m = Unit * x
      /\ L1 \in Int /\ r.lb1 = Unit * L1
      /\ U1 \in Int /\ r.ub1 = Unit * U1
      /\ L2 \in Int /\ r.lb2 = Unit * L2
      /\ U2 \in Int /\ r.ub2 = Unit * U2
  BY Multiple
<1>2. SplitIntegral(r, m) = [val1 |-> v * Unit, val2 |-> (x - s * v) * Unit]
  BY DEF SplitIntegral, FirstValue, AboveLower, BelowUpper
<1>s. s \in Int \ {0}
  OBVIOUS
<1>l. Unit * L1 <= Unit * U1
  BY <1>1
<1>h. Unit * U2 - Unit * L2 >= (Abs(s) - 1) * Unit
  BY <1>1
<1>n. /\ Unit * L2 + s * (IF s < 0 THEN Unit * U1 ELSE Unit * L1) <= Unit * x
      /\ Unit * x <= Unit * U2 + s * (IF s < 0 THEN Unit * L1 ELSE Unit * U1)
  BY <1>1 DEF NewLb, NewUb
<1> HIDE DEF x, s, L1, U1, L2, U2
<1> USE UnitAssumption
<1>3. L1 <= U1
  BY <1>1, <1>l, Scaled
<1>4. U2 - L2 >= Abs(s) - 1
  <2>1. Unit * (Abs(s) - 1) <= Unit * (U2 - L2)
    BY <1>1, <1>s, <1>h DEF Abs
  <2>2. Abs(s) - 1 \in Int /\ U2 - L2 \in Int
    BY <1>1, <1>s DEF Abs
  <2> QED BY <2>1, <2>2, Scaled
<1>5. L2 + s * (IF s < 0 THEN U1 ELSE L1) <= x
  <2> DEFINE y == IF s < 0 THEN U1 ELSE L1
  <2>1. y \in Int /\ s * (IF s < 0 THEN Unit * U1 ELSE Unit * L1) = Unit * (s * y)
    BY <1>1, <1>s
  <2>2. s * y \in Int
    BY <2>1, <1>s
  <2> HIDE DEF y
  <2>3. Unit * (L2 + s * y) <= Unit * x
    BY <1>1, <1>n, <2>1, <2>2
  <2>4. L2 + s * y <= x
    BY <1>1, <2>2, <2>3, Scaled
  <2> QED BY <2>4 DEF y
<1>6. x <= U2 + s * (IF s < 0 THEN L1 ELSE U1)
  <2> DEFINE y == IF s < 0 THEN L1 ELSE U1
  <2>1. y \in Int /\ s * (IF s < 0 THEN Unit * L1 ELSE Unit * U1) = Unit * (s * y)
    BY <1>1, <1>s
  <2>2. s * y \in Int
    BY <2>1, <1>s
  <2> HIDE DEF y
  <2>3. Unit * x <= Unit * (U2 + s * y)
    BY <1>1, <1>n, <2>1, <2>2
  <2>4. x <= U2 + s * y
    BY <1>1, <2>2, <2>3, Scaled
  <2> QED BY <2>4 DEF y
<1>7. v \in Int /\ L1 <= v /\ v <= U1 /\ L2 <= x - s * v /\ x - s * v <= U2
  BY <1>1, <1>s, <1>3, <1>4, <1>5, <1>6, FirstValueFits
<1> HIDE DEF v
<1>8. v * Unit = Unit * v /\ s * v \in Int /\ (x - s * v) * Unit = Unit * (x - s * v)
  BY <1>1, <1>s, <1>7
<1>9. r.lb1 <= v * Unit /\ v * Unit <= r.ub1
  BY <1>1, <1>7, <1>8, Scaled
<1>10. r.lb2 <= (x - s * v) * Unit /\ (x - s * v) * Unit <= r.ub2
  <2> DEFINE w == x - s * v
  <2>1. w \in Int
    BY <1>1, <1>8
  <2>2. L2 <= w /\ w <= U2
    BY <1>7
  <2> HIDE DEF w
  <2>3. r.lb2 <= Unit * w /\ Unit * w <= r.ub2
    BY <1>1, <2>1, <2>2, Scaled
  <2> QED BY <2>3, <1>8 DEF w
<1>11. Integral(v * Unit) /\ Integral((x - s * v) * Unit)
  <2>1. x - s * v \in Int
    BY <1>1, <1>8
  <2> QED BY <1>7, <1>8, <2>1, MultipleIntegral
<1>12. (x - s * v) * Unit + s * (v * Unit) = m
  BY <1>1, <1>s, <1>7
<1> QED BY <1>2, <1>9, <1>10, <1>11, <1>12 DEF s

-----------------------------------------------------------------------------
(* Pairs of continuous columns                                              *)

(* Even numbers are divisible by the scales of continuous pairs.            *)
LEMMA ExactQuotient ==
  ASSUME NEW n \in Int, n % 2 = 0, NEW k \in {-2, -1, 1, 2}
  PROVE FloorOf(n, k) \in Int /\ k * FloorOf(n, k) = n
<1>1. CASE k = 1 BY <1>1 DEF FloorOf
<1>2. CASE k = 2 BY <1>2 DEF FloorOf
<1>3. CASE k = -1 BY <1>3 DEF FloorOf
<1>4. CASE k = -2 BY <1>4 DEF FloorOf
<1> QED BY <1>1, <1>2, <1>3, <1>4

(* The difference of even numbers is even.                                  *)
LEMMA EvenDifference ==
  ASSUME NEW m \in Int, NEW n \in Int, m % 2 = 0, n % 2 = 0
  PROVE (m - n) % 2 = 0
  OBVIOUS

(* The first column takes the rest the guess leaves, or its bound: then the *)
(* second one is inside its bounds by those of the merged column.           *)
LEMMA ContinuousSplitFits ==
  ASSUME NEW r, NEW m \in Int, m % 2 = 0, r.int2 = FALSE,
         r.scale \in {-2, -1, 1, 2},
         r.lb1 \in Int, r.ub1 \in Int, r.lb2 \in Int, r.ub2 \in Int,
         r.lb2 % 2 = 0, r.ub2 % 2 = 0,
         r.lbInf1 \in BOOLEAN, r.ubInf1 \in BOOLEAN, r.lbInf2 \in BOOLEAN, r.ubInf2 \in BOOLEAN,
         r.lbInf1 \/ r.ubInf1 \/ r.lb1 <= r.ub1,
         r.lbInf2 \/ r.ubInf2 \/ r.lb2 <= r.ub2,
         NewLbInf(r) \/ NewLb(r) <= m,
         NewUbInf(r) \/ m <= NewUb(r)
  PROVE /\ r.lbInf1 \/ r.lb1 <= SplitContinuous(r, m).val1
        /\ r.ubInf1 \/ SplitContinuous(r, m).val1 <= r.ub1
        /\ r.lbInf2 \/ r.lb2 <= SplitContinuous(r, m).val2
        /\ r.ubInf2 \/ SplitContinuous(r, m).val2 <= r.ub2
        /\ SplitContinuous(r, m).val2 + r.scale * SplitContinuous(r, m).val1 = m
<1> DEFINE g == Guess(r)
           q == FloorOf(m - g, r.scale)
           s == r.scale
           low == ~r.lbInf1 /\ q < r.lb1
           high == ~r.ubInf1 /\ q > r.ub1
           val1 == IF low THEN r.lb1 ELSE IF high THEN r.ub1 ELSE q
           val2 == IF low \/ high THEN m - s * val1 ELSE g
<1>1. g \in Int /\ (m - g) % 2 = 0
  <2>1. g \in {r.lb2, r.ub2, 0}
    BY DEF Guess
  <2> HIDE DEF g
  <2>2. g \in Int /\ g % 2 = 0
    BY <2>1
  <2> QED BY <2>2, EvenDifference
<1>2. q \in Int /\ s * q = m - g
  <2> DEFINE n == m - g
  <2>1. n \in Int /\ n % 2 = 0
    BY <1>1
  <2> HIDE DEF n
  <2>2. FloorOf(n, s) \in Int /\ s * FloorOf(n, s) = n
    BY <2>1, ExactQuotient
  <2> QED BY <2>2 DEF n
<1>3. SplitContinuous(r, m) = [val1 |-> val1, val2 |-> val2]
  BY DEF SplitContinuous
<1>4. /\ r.lbInf2 \/ r.ubInf2 => g = 0 \/ g = r.lb2 \/ g = r.ub2
      /\ ~r.lbInf2 => g = r.lb2
      /\ r.lbInf2 /\ ~r.ubInf2 => g = r.ub2
  BY DEF Guess
<1>5. s \in {-2, -1, 1, 2}
  OBVIOUS
<1> HIDE DEF g, q, s
<1>6. val2 + s * val1 = m
  BY <1>1, <1>2, <1>5
<1>7. (r.lbInf1 \/ r.lb1 <= val1) /\ (r.ubInf1 \/ val1 <= r.ub1)
  BY <1>2
<1>8. s < 0 => /\ r.lbInf2 \/ r.ubInf1 \/ r.lb2 + s * r.ub1 <= m
               /\ r.ubInf2 \/ r.lbInf1 \/ m <= r.ub2 + s * r.lb1
  BY DEF NewLbInf, NewUbInf, NewLb, NewUb, s
<1>9. s > 0 => /\ r.lbInf2 \/ r.lbInf1 \/ r.lb2 + s * r.lb1 <= m
               /\ r.ubInf2 \/ r.ubInf1 \/ m <= r.ub2 + s * r.ub1
  BY DEF NewLbInf, NewUbInf, NewLb, NewUb, s
<1>10. (r.lbInf2 \/ r.lb2 <= val2) /\ (r.ubInf2 \/ val2 <= r.ub2)
  <2>1. CASE ~low /\ ~high
    BY <2>1, <1>1, <1>4
  <2>2. CASE s \in {1, 2}
    BY <2>2, <1>1, <1>2, <1>4, <1>9
  <2>3. CASE s \in {-1, -2}
    BY <2>3, <1>1, <1>2, <1>4, <1>8
  <2> QED BY <2>2, <2>3, <1>5
<1> QED BY <1>3, <1>6, <1>7, <1>10 DEF s

-----------------------------------------------------------------------------
(* All pairs                                                                *)

(* What Init says of the pair.                                               *)
Mergeable(r) ==
  \E kind \in Kinds : \E scale \in Scales[kind] :
    \E e1 \in ColumnDomains(kind = "integral", kind # "integral"),
       e2 \in ColumnDomains(kind # "continuous", kind # "integral") :
      CanBeMerged(kind, e1, e2, scale) /\ r = Record(kind, e1, e2, scale)

(* A pair is chosen once, and its split is that of the value chosen with it. *)
IInv ==
  /\ Mergeable(pair)
  /\ merged \in Solvals(pair)
  /\ split.done => split.val1 = Split(pair, merged).val1 /\ split.val2 = Split(pair, merged).val2

Fits(r, s, m) ==
  /\ r.lbInf1 \/ s.val1 >= r.lb1
  /\ r.ubInf1 \/ s.val1 <= r.ub1
  /\ r.lbInf2 \/ s.val2 >= r.lb2
  /\ r.ubInf2 \/ s.val2 <= r.ub2
  /\ r.int1 => Integral(s.val1)
  /\ r.int2 => Integral(s.val2)
  /\ s.val2 + r.scale * s.val1 = m

(* Values of integral columns.                                              *)
LEMMA GridIntegral ==
  ASSUME NEW n \in Grid(TRUE)
  PROVE n \in Int /\ Integral(n)
<1>1. n \in Low..High /\ n % Unit = 0
  BY DEF Grid
<1>2. Low \in Int /\ High \in Int
  BY SplitAssumption
<1>3. n \in Int
  BY ONLY <1>1, <1>2
<1> QED BY <1>1, <1>3 DEF Integral

(* Values of continuous columns.                                            *)
LEMMA GridEven ==
  ASSUME NEW n \in Grid(FALSE)
  PROVE n \in Int /\ n % 2 = 0
<1>1. n \in Low..High /\ n % 2 = 0
  BY DEF Grid
<1>2. Low \in Int /\ High \in Int
  BY SplitAssumption
<1>3. n \in Int
  BY ONLY <1>1, <1>2
<1> QED BY <1>1, <1>3

(* An integral column that is merged has two finite bounds.                  *)
LEMMA IntegralDomain ==
  ASSUME NEW e \in ColumnDomains(TRUE, FALSE)
  PROVE /\ e.lb \in Int /\ Integral(e.lb)
        /\ e.ub \in Int /\ Integral(e.ub)
        /\ e.lbInf = FALSE /\ e.ubInf = FALSE
        /\ e.lb <= e.ub
<1>1. e \in [lb : Grid(TRUE), ub : Grid(TRUE), lbInf : {FALSE}, ubInf : {FALSE}]
  BY DEF ColumnDomains
<1>2. e.lbInf \/ e.ubInf \/ e.lb < e.ub
  BY DEF ColumnDomains
<1>3. e.lb \in Grid(TRUE) /\ e.ub \in Grid(TRUE) /\ e.lbInf = FALSE /\ e.ubInf = FALSE
  BY <1>1
<1>4. e.lb \in Int /\ Integral(e.lb) /\ e.ub \in Int /\ Integral(e.ub)
  BY <1>3, GridIntegral
<1>5. e.lb <= e.ub
  <2>1. e.lb < e.ub => e.lb <= e.ub
    BY ONLY <1>4
  <2> QED BY <1>2, <1>3, <2>1
<1> QED BY <1>3, <1>4, <1>5

(* A continuous column may lack bounds.                                     *)
LEMMA ContinuousDomain ==
  ASSUME NEW e \in ColumnDomains(FALSE, TRUE)
  PROVE /\ e.lb \in Int /\ e.lb % 2 = 0
        /\ e.ub \in Int /\ e.ub % 2 = 0
        /\ e.lbInf \in BOOLEAN /\ e.ubInf \in BOOLEAN
        /\ e.lbInf \/ e.ubInf \/ e.lb <= e.ub
<1>1. e \in [lb : Grid(FALSE), ub : Grid(FALSE), lbInf : BOOLEAN, ubInf : BOOLEAN]
  BY DEF ColumnDomains
<1>2. e.lbInf \/ e.ubInf \/ e.lb < e.ub
  BY DEF ColumnDomains
<1>3. e.lb \in Grid(FALSE) /\ e.ub \in Grid(FALSE) /\ e.lbInf \in BOOLEAN /\ e.ubInf \in BOOLEAN
  BY <1>1
<1>4. e.lb \in Int /\ e.lb % 2 = 0 /\ e.ub \in Int /\ e.ub % 2 = 0
  BY <1>3, GridEven
<1>5. e.lbInf \/ e.ubInf \/ e.lb <= e.ub
  <2>1. e.lb < e.ub => e.lb <= e.ub
    BY ONLY <1>4
  <2> QED BY <1>2, <2>1
<1> QED BY <1>3, <1>4, <1>5

(* Every value of every merged column is split into values that fit.        *)
LEMMA SplitFits ==
  ASSUME NEW r, NEW m, "mixed" \notin Kinds, Mergeable(r), m \in Solvals(r)
  PROVE Fits(r, Split(r, m), m)
<1> USE SplitAssumption
<1>k. PICK kind \in Kinds : \E scale \in Scales[kind] :
        \E e1 \in ColumnDomains(kind = "integral", kind # "integral"),
           e2 \in ColumnDomains(kind # "continuous", kind # "integral") :
          CanBeMerged(kind, e1, e2, scale) /\ r = Record(kind, e1, e2, scale)
  BY DEF Mergeable
<1>s. PICK scale \in Scales[kind] :
        \E e1 \in ColumnDomains(kind = "integral", kind # "integral"),
           e2 \in ColumnDomains(kind # "continuous", kind # "integral") :
          CanBeMerged(kind, e1, e2, scale) /\ r = Record(kind, e1, e2, scale)
  BY <1>k
<1>1. PICK e1 \in ColumnDomains(kind = "integral", kind # "integral"),
           e2 \in ColumnDomains(kind # "continuous", kind # "integral") :
        CanBeMerged(kind, e1, e2, scale) /\ r = Record(kind, e1, e2, scale)
  BY <1>s
<1>2. CASE kind = "integral"
  <2>a. /\ (kind = "integral") = TRUE /\ (kind # "integral") = FALSE /\ (kind # "continuous") = TRUE
    BY <1>2
  <2>b. /\ e1 \in ColumnDomains(TRUE, FALSE) /\ e2 \in ColumnDomains(TRUE, FALSE)
        /\ scale \in Scales[kind]
    BY <2>a
  <2>d. /\ r.int1 = TRUE /\ r.int2 = TRUE /\ r.scale = scale
        /\ r.lb1 = e1.lb /\ r.ub1 = e1.ub /\ r.lbInf1 = e1.lbInf /\ r.ubInf1 = e1.ubInf
        /\ r.lb2 = e2.lb /\ r.ub2 = e2.ub /\ r.lbInf2 = e2.lbInf /\ r.ubInf2 = e2.ubInf
    BY <1>1, <2>a DEF Record
  <2>1. r.int1 /\ r.int2 /\ m \in Int /\ Integral(m)
    <3>1. m \in Grid(TRUE)
      BY <2>d DEF Solvals
    <3> QED BY <3>1, <2>d, GridIntegral
  <2>2. /\ r.scale \in Int \ {0}
        /\ r.lb1 \in Int /\ r.ub1 \in Int /\ r.lb2 \in Int /\ r.ub2 \in Int
        /\ Integral(r.lb1) /\ Integral(r.ub1) /\ Integral(r.lb2) /\ Integral(r.ub2)
        /\ r.lbInf1 = FALSE /\ r.ubInf1 = FALSE /\ r.lbInf2 = FALSE /\ r.ubInf2 = FALSE
        /\ r.lb1 <= r.ub1
    BY <2>b, <2>d, IntegralDomain
  <2>3. r.ub2 - r.lb2 >= (Abs(r.scale) - 1) * Unit
    BY <1>1, <1>2, <2>2, <2>d, UnitAssumption DEF CanBeMerged, HasHoles, Abs
  <2>4. NewLb(r) <= m /\ m <= NewUb(r)
    BY <2>1, <2>2 DEF Solvals, NewLbInf, NewUbInf, NewLb, NewUb
  <2>5. Split(r, m) = SplitIntegral(r, m)
    BY <2>1 DEF Split
  <2> DEFINE t == SplitIntegral(r, m)
  <2>6. /\ r.lb1 <= t.val1 /\ t.val1 <= r.ub1
        /\ r.lb2 <= t.val2 /\ t.val2 <= r.ub2
        /\ Integral(t.val1) /\ Integral(t.val2)
        /\ t.val2 + r.scale * t.val1 = m
    BY <2>1, <2>2, <2>3, <2>4, IntegralSplitFits
  <2> HIDE DEF t
  <2> QED BY <2>5, <2>6 DEF Fits, t
<1>3. CASE kind = "continuous"
  <2>a. /\ (kind = "integral") = FALSE /\ (kind # "integral") = TRUE /\ (kind # "continuous") = FALSE
    BY <1>3
  <2>b. /\ e1 \in ColumnDomains(FALSE, TRUE) /\ e2 \in ColumnDomains(FALSE, TRUE)
        /\ scale \in Scales[kind]
    BY <2>a
  <2>d. /\ r.int1 = FALSE /\ r.int2 = FALSE /\ r.scale = scale
        /\ r.lb1 = e1.lb /\ r.ub1 = e1.ub /\ r.lbInf1 = e1.lbInf /\ r.ubInf1 = e1.ubInf
        /\ r.lb2 = e2.lb /\ r.ub2 = e2.ub /\ r.lbInf2 = e2.lbInf /\ r.ubInf2 = e2.ubInf
    BY <1>1, <2>a DEF Record
  <2>1. r.int1 = FALSE /\ r.int2 = FALSE /\ m \in Int /\ m % 2 = 0
    <3>1. m \in Grid(FALSE)
      BY <2>d DEF Solvals
    <3> QED BY <3>1, <2>d, GridEven
  <2>2. /\ r.scale \in {-2, -1, 1, 2}
        /\ r.lb1 \in Int /\ r.ub1 \in Int /\ r.lb2 \in Int /\ r.ub2 \in Int
        /\ r.lb2 % 2 = 0 /\ r.ub2 % 2 = 0
        /\ r.lbInf1 \in BOOLEAN /\ r.ubInf1 \in BOOLEAN
        /\ r.lbInf2 \in BOOLEAN /\ r.ubInf2 \in BOOLEAN
        /\ r.lbInf1 \/ r.ubInf1 \/ r.lb1 <= r.ub1
        /\ r.lbInf2 \/ r.ubInf2 \/ r.lb2 <= r.ub2
    <3>1. Scales[kind] \subseteq {-2, -1, 1, 2}
      BY <1>3
    <3> QED BY <3>1, <2>b, <2>d, ContinuousDomain
  <2>3. (NewLbInf(r) \/ NewLb(r) <= m) /\ (NewUbInf(r) \/ m <= NewUb(r))
    BY DEF Solvals
  <2>4. Split(r, m) = SplitContinuous(r, m)
    BY <2>1 DEF Split
  <2> DEFINE t == SplitContinuous(r, m)
  <2>5. /\ r.lbInf1 \/ r.lb1 <= t.val1
        /\ r.ubInf1 \/ t.val1 <= r.ub1
        /\ r.lbInf2 \/ r.lb2 <= t.val2
        /\ r.ubInf2 \/ t.val2 <= r.ub2
        /\ t.val2 + r.scale * t.val1 = m
    BY <2>1, <2>2, <2>3, ContinuousSplitFits
  <2> HIDE DEF t
  <2> QED BY <2>1, <2>4, <2>5 DEF Fits, t
<1> QED BY <1>2, <1>3

-----------------------------------------------------------------------------
(* The theorems                                                             *)

(* The pair and the merged value stay those of Init.                        *)
LEMMA Inductive == Spec => []IInv
<1>1. Init => IInv
  BY DEF Init, IInv, Mergeable, Unsplit
<1>2. IInv /\ [Next]_vars => IInv'
  BY DEF IInv, Next, SplitPair, vars
<1> QED BY <1>1, <1>2, PTL DEF Spec

(* The assertions at the end of apply_parallel_col_to_original_solution on  *)
(* bounds and integrality hold for every pair ParallelColDetection merges   *)
(* and every value of the merged column, mixed pairs excepted.              *)
THEOREM EverySplitFits ==
  ASSUME "mixed" \notin Kinds
  PROVE Spec => []SplitFeasible
<1>1. IInv => SplitFeasible
  BY SplitFits DEF IInv, SplitFeasible, Fits
<1> QED BY <1>1, Inductive, PTL

(* And so does the one on the sum: rows and objective do not notice that the *)
(* columns were merged.                                                      *)
THEOREM EverySplitSums ==
  ASSUME "mixed" \notin Kinds
  PROVE Spec => []SplitSums
<1>1. IInv => SplitSums
  BY SplitFits DEF IInv, SplitSums, Fits
<1> QED BY <1>1, Inductive, PTL
===============================================================================
