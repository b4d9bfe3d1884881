-------------------------- MODULE DualRoundTripProofs --------------------------
(***************************************************************************)
(* Proof that dual postsolve keeps the bounds of the columns exactly       *)
(* (StoredBoundsExact): for every linear program, every sequence of        *)
(* reductions, every solution the solver may hand over and whatever the    *)
(* statuses and prices become on the way back.                             *)
(*                                                                         *)
(* The argument: each record, seen alone, holds the bounds that the change *)
(* it stands for takes away, and every other column that was there before  *)
(* is there afterwards with the same bounds (Restores).  Reductions keep   *)
(* this for the whole storage (Reversible), and undoing a record writes    *)
(* back exactly what the record holds (UndoBringsBack).  The last section  *)
(* adds what the solution in the end is good for, if every record is       *)
(* undone rightly (RightStepsDeliver).                                     *)
(***************************************************************************)
EXTENDS DualRoundTrip, FiniteSums, SequenceTheorems

-----------------------------------------------------------------------------
(* What PrimalFeasible and DualOptimal are worth, the two conditions the    *)
(* runs of dual postsolve check after every record: a solution with both    *)
(* has the smallest objective value of all points of the program, whatever  *)
(* the program.  Prices are the proof of it that the solution carries.      *)

(* Numbers in all places, and bounds and sides that are numbers or missing  *)
IsProgram(lp) ==
  /\ lp.rows \subseteq Rows /\ lp.cols \subseteq Cols
  /\ \A c \in lp.cols : lp.obj[c] \in Int /\ lp.lb[c] \in Int \cup {NoBound} /\ lp.ub[c] \in Int \cup {NoBound}
  /\ \A r \in lp.rows : lp.lhs[r] \in Int \cup {NoBound} /\ lp.rhs[r] \in Int \cup {NoBound}
  /\ \A r \in lp.rows, c \in lp.cols : lp.a[r][c] \in Int

IsPoint(lp, x) == \A c \in lp.cols : x[c] \in Int
IsSolution(lp, s) ==
  IsPoint(lp, s.primal) /\ (\A c \in lp.cols : s.rc[c] \in Int) /\ (\A r \in lp.rows : s.dual[r] \in Int)

Objective(lp, x) == SumFunctionOnSet([c \in lp.cols |-> lp.obj[c] * x[c]], lp.cols)

(* A point within the bounds and sides                                      *)
Satisfies(lp, x) ==
  /\ \A c \in lp.cols : (lp.lb[c] # NoBound => lp.lb[c] <= x[c]) /\ (lp.ub[c] # NoBound => x[c] <= lp.ub[c])
  /\ \A r \in lp.rows : /\ lp.lhs[r] # NoBound => lp.lhs[r] <= RowValue(lp, x, r)
                        /\ lp.rhs[r] # NoBound => RowValue(lp, x, r) <= lp.rhs[r]

(* The objective, counted by the rows' prices and the reduced costs         *)
Priced(lp, s, x) ==
  SumFunctionOnSet([r \in lp.rows |-> s.dual[r] * RowValue(lp, x, r)], lp.rows)
    + SumFunctionOnSet([c \in lp.cols |-> s.rc[c] * x[c]], lp.cols)

(* Sums over rows and columns are sums of finitely many numbers.            *)
LEMMA FiniteRowsAndCols ==
  ASSUME NEW lp, IsProgram(lp)
  PROVE  IsFiniteSet(lp.rows) /\ IsFiniteSet(lp.cols)
<1>1. IsFiniteSet(Rows) /\ IsFiniteSet(Cols)
  <2>1. NRows \in Nat /\ NCols \in Nat
    BY ProgramAssumption
  <2>2. IsFiniteSet(1..NRows) /\ IsFiniteSet(1..NCols)
    BY <2>1, FS_Interval
  <2> QED BY <2>2 DEF Rows, Cols
<1> QED BY <1>1, FS_Subset DEF IsProgram

(* The value of a row is a number.                                          *)
LEMMA RowValueType ==
  ASSUME NEW lp, IsProgram(lp), NEW x, IsPoint(lp, x), NEW r \in lp.rows
  PROVE  RowValue(lp, x, r) \in Int
<1> DEFINE f == [c \in lp.cols |-> lp.a[r][c] * x[c]]
<1>1. \A c \in lp.cols : f[c] \in Int
  BY DEF IsProgram, IsPoint
<1>2. IsFiniteSet(lp.cols)
  BY FiniteRowsAndCols
<1> HIDE DEF f
<1>3. SumFunctionOnSet(f, lp.cols) \in Int
  BY <1>1, <1>2, SumInt
<1> QED BY <1>3 DEF RowValue, f

(* If the prices add up to the objective in every column, the objective of  *)
(* any point can be counted by prices.                                      *)
LEMMA ObjectiveByPrices ==
  ASSUME NEW lp, IsProgram(lp), NEW s, IsSolution(lp, s), ~DualFeasibilityViolated(lp, s),
         NEW x, IsPoint(lp, x)
  PROVE  Objective(lp, x) = Priced(lp, s, x)
<1> DEFINE C == lp.cols
           R == lp.rows
           m == [c \in C |-> [r \in R |-> s.dual[r] * (lp.a[r][c] * x[c])]]
           byCol == [c \in C |-> SumFunctionOnSet(m[c], R)]
           byRow == [r \in R |-> SumFunctionOnSet([c \in C |-> m[c][r]], C)]
           reduced == [c \in C |-> s.rc[c] * x[c]]
           total == [c \in C |-> lp.obj[c] * x[c]]
           rows == [r \in R |-> s.dual[r] * RowValue(lp, x, r)]
<1>1. IsFiniteSet(C) /\ IsFiniteSet(R)
  BY FiniteRowsAndCols
<1>2. \A c \in C, r \in R : s.dual[r] \in Int /\ lp.a[r][c] \in Int /\ x[c] \in Int /\ m[c][r] \in Int
  BY DEF IsSolution, IsProgram, IsPoint
<1>3. \A c \in C : byCol[c] \in Int /\ reduced[c] \in Int /\ total[c] = byCol[c] + reduced[c]
  <2> SUFFICES ASSUME NEW c \in C
               PROVE  byCol[c] \in Int /\ reduced[c] \in Int /\ total[c] = byCol[c] + reduced[c]
    OBVIOUS
  <2> DEFINE prices == [r \in R |-> lp.a[r][c] * s.dual[r]]
             value == SumFunctionOnSet(prices, R)
             line == m[c]
  <2>1. \A r \in R : prices[r] \in Int /\ line[r] = x[c] * prices[r]
    <3> SUFFICES ASSUME NEW r \in R
                 PROVE  prices[r] \in Int /\ line[r] = x[c] * prices[r]
      OBVIOUS
    <3> DEFINE y == s.dual[r]
               a == lp.a[r][c]
               z == x[c]
    <3>1. y \in Int /\ a \in Int /\ z \in Int
      BY <1>2
    <3>2. prices[r] = a * y /\ line[r] = y * (a * z) /\ x[c] = z
      OBVIOUS
    <3> HIDE DEF y, a, z, prices, line
    <3>3. a * y \in Int /\ y * (a * z) = z * (a * y)
      BY <3>1
    <3> QED BY <3>2, <3>3
  <2>2. x[c] \in Int /\ s.rc[c] \in Int
    BY DEF IsPoint, IsSolution
  <2> HIDE DEF prices, line
  <2>3. value \in Int
    BY <1>1, <2>1, SumInt
  <2>4. SumFunctionOnSet(line, R) = x[c] * value
    BY <1>1, <2>1, <2>2, SumScaled
  <2>5. value + s.rc[c] = lp.obj[c]
    BY DEF DualFeasibilityViolated, ColValue, prices
  <2>6. byCol[c] = x[c] * value
    BY <2>4 DEF line
  <2>7. total[c] = (value + s.rc[c]) * x[c]
    BY <2>5
  <2> HIDE DEF value
  <2>8. (value + s.rc[c]) * x[c] = x[c] * value + s.rc[c] * x[c]
    BY <2>2, <2>3
  <2> QED BY <2>2, <2>3, <2>6, <2>7, <2>8
<1>4. Objective(lp, x) = SumFunctionOnSet(byCol, C) + SumFunctionOnSet(reduced, C)
  <2>1. Objective(lp, x) = SumFunctionOnSet(total, C)
    BY DEF Objective
  <2> HIDE DEF byCol, reduced, total
  <2> QED BY <1>1, <1>3, <2>1, SumPlus
<1>5. SumFunctionOnSet(byCol, C) = SumFunctionOnSet(byRow, R)
  <2>1. \A c \in C, r \in R : m[c][r] \in Int
    BY <1>2
  <2> HIDE DEF m
  <2> QED BY <1>1, <2>1, SumSwap
<1>6. \A r \in R : byRow[r] = rows[r]
  <2> SUFFICES ASSUME NEW r \in R PROVE byRow[r] = rows[r]
    OBVIOUS
  <2> DEFINE terms == [c \in C |-> lp.a[r][c] * x[c]]
             line == [c \in C |-> m[c][r]]
             y == s.dual[r]
  <2>1. \A c \in C : terms[c] \in Int /\ line[c] = y * terms[c]
    <3> SUFFICES ASSUME NEW c \in C
                 PROVE  terms[c] \in Int /\ line[c] = y * terms[c]
      OBVIOUS
    <3> DEFINE a == lp.a[r][c]
               z == x[c]
    <3>1. a \in Int /\ z \in Int
      BY <1>2
    <3>2. terms[c] = a * z /\ line[c] = y * (a * z)
      OBVIOUS
    <3> HIDE DEF a, z, terms, line
    <3>3. a * z \in Int
      BY <3>1
    <3> QED BY <3>2, <3>3
  <2>2. y \in Int
    BY DEF IsSolution
  <2>3. byRow[r] = SumFunctionOnSet(line, C)
    OBVIOUS
  <2>4. rows[r] = y * SumFunctionOnSet(terms, C)
    BY DEF RowValue
  <2> HIDE DEF terms, line, y
  <2>5. SumFunctionOnSet(line, C) = y * SumFunctionOnSet(terms, C)
    BY <1>1, <2>1, <2>2, SumScaled
  <2> QED BY <2>3, <2>4, <2>5
<1>7. SumFunctionOnSet(byRow, R) = SumFunctionOnSet(rows, R)
  <2> HIDE DEF byRow, rows
  <2> QED BY <1>1, <1>6, SumEqual
<1> QED BY <1>4, <1>5, <1>7 DEF Priced

(* A price that pulls only at a bound that is reached cannot gain by moving *)
(* within the bounds.                                                       *)
LEMMA PriceGainsNothing ==
  ASSUME NEW lower \in Int \cup {NoBound}, NEW upper \in Int \cup {NoBound},
         NEW v \in Int, NEW w \in Int, NEW price \in Int,
         PriceFits(lower, upper, v, price),
         lower # NoBound => lower <= w, upper # NoBound => w <= upper
  PROVE  price * v <= price * w
<1>1. CASE price = 0
  BY <1>1
<1>2. CASE price > 0
  <2>1. v <= w
    BY <1>2 DEF PriceFits, At
  <2>2. w - v \in Nat /\ price * (w - v) >= 0
    BY <1>2, <2>1
  <2>3. price * (w - v) = price * w - price * v
    OBVIOUS
  <2> QED BY <2>2, <2>3
<1>3. CASE price < 0
  <2>1. w <= v
    BY <1>3 DEF PriceFits, At
  <2>2. v - w \in Nat /\ (-price) * (v - w) >= 0
    BY <1>3, <2>1
  <2>3. (-price) * (v - w) = price * w - price * v
    OBVIOUS
  <2> QED BY <2>2, <2>3
<1> QED BY <1>1, <1>2, <1>3

(* A feasible solution whose prices fit (PrimalFeasible and DualOptimal,    *)
(* what the runs of dual postsolve check record by record) has the smallest *)
(* objective value of all points of the program.                            *)
THEOREM PricesProveOptimality ==
  ASSUME NEW lp, IsProgram(lp), NEW s, IsSolution(lp, s), PrimalFeasible(lp, s), DualOptimal(lp, s)
  PROVE  /\ Satisfies(lp, s.primal)
         /\ \A x : IsPoint(lp, x) /\ Satisfies(lp, x) => Objective(lp, s.primal) <= Objective(lp, x)
<1> DEFINE p == s.primal
<1>1. IsPoint(lp, p) /\ IsFiniteSet(lp.rows) /\ IsFiniteSet(lp.cols)
  BY FiniteRowsAndCols DEF IsSolution
<1>2. Satisfies(lp, p)
  <2>1. ASSUME NEW c \in lp.cols
        PROVE  (lp.lb[c] # NoBound => lp.lb[c] <= p[c]) /\ (lp.ub[c] # NoBound => p[c] <= lp.ub[c])
    <3>1. ~Below(lp.lb[c], p[c]) /\ ~Above(lp.ub[c], p[c])
      BY DEF PrimalFeasible, PrimalBoundsViolated
    <3> QED BY <1>1, <3>1 DEF Below, Above, IsPoint, IsProgram
  <2>2. ASSUME NEW r \in lp.rows
        PROVE  /\ lp.lhs[r] # NoBound => lp.lhs[r] <= RowValue(lp, p, r)
               /\ lp.rhs[r] # NoBound => RowValue(lp, p, r) <= lp.rhs[r]
    <3>1. ~Below(lp.lhs[r], RowValue(lp, p, r)) /\ ~Above(lp.rhs[r], RowValue(lp, p, r))
      BY DEF PrimalFeasible, PrimalConstraintViolated
    <3>2. RowValue(lp, p, r) \in Int
      BY <1>1, RowValueType
    <3> QED BY <3>1, <3>2 DEF Below, Above, IsProgram
  <2> QED BY <2>1, <2>2 DEF Satisfies
<1>3. ASSUME NEW x, IsPoint(lp, x), Satisfies(lp, x)
      PROVE  Objective(lp, p) <= Objective(lp, x)
  <2> DEFINE rowsOf(y) == [r \in lp.rows |-> s.dual[r] * RowValue(lp, y, r)]
             colsOf(y) == [c \in lp.cols |-> s.rc[c] * y[c]]
             rp == rowsOf(p)
             rx == rowsOf(x)
             cp == colsOf(p)
             cx == colsOf(x)
  <2>1. \A r \in lp.rows : rp[r] \in Int /\ rx[r] \in Int /\ rp[r] <= rx[r]
    <3> SUFFICES ASSUME NEW r \in lp.rows
                 PROVE  rp[r] \in Int /\ rx[r] \in Int /\ rp[r] <= rx[r]
      OBVIOUS
    <3> DEFINE lower == lp.lhs[r]
               upper == lp.rhs[r]
               v == RowValue(lp, p, r)
               w == RowValue(lp, x, r)
               price == s.dual[r]
    <3>1. v \in Int /\ w \in Int /\ price \in Int
      BY <1>1, <1>3, RowValueType DEF IsSolution
    <3>2. PriceFits(lower, upper, v, price)
      BY DEF DualOptimal
    <3>3. /\ lower # NoBound => lower <= w
          /\ upper # NoBound => w <= upper
          /\ lower \in Int \cup {NoBound} /\ upper \in Int \cup {NoBound}
      BY <1>3 DEF Satisfies, IsProgram
    <3>4. rp[r] = price * v /\ rx[r] = price * w
      OBVIOUS
    <3> HIDE DEF lower, upper, v, w, price, rp, rx
    <3>5. price * v <= price * w
      BY <3>1, <3>2, <3>3, PriceGainsNothing
    <3>6. price * v \in Int /\ price * w \in Int
      BY <3>1
    <3> QED BY <3>4, <3>5, <3>6
  <2>2. \A c \in lp.cols : cp[c] \in Int /\ cx[c] \in Int /\ cp[c] <= cx[c]
    <3> SUFFICES ASSUME NEW c \in lp.cols
                 PROVE  cp[c] \in Int /\ cx[c] \in Int /\ cp[c] <= cx[c]
      OBVIOUS
    <3> DEFINE lower == lp.lb[c]
               upper == lp.ub[c]
               v == p[c]
               w == x[c]
               price == s.rc[c]
    <3>1. v \in Int /\ w \in Int /\ price \in Int
      BY <1>1, <1>3 DEF IsPoint, IsSolution
    <3>2. PriceFits(lower, upper, v, price)
      BY DEF DualOptimal
    <3>3. /\ lower # NoBound => lower <= w
          /\ upper # NoBound => w <= upper
          /\ lower \in Int \cup {NoBound} /\ upper \in Int \cup {NoBound}
      BY <1>3 DEF Satisfies, IsProgram
    <3>4. cp[c] = price * v /\ cx[c] = price * w
      OBVIOUS
    <3> HIDE DEF lower, upper, v, w, price, cp, cx
    <3>5. price * v <= price * w
      BY <3>1, <3>2, <3>3, PriceGainsNothing
    <3>6. price * v \in Int /\ price * w \in Int
      BY <3>1
    <3> QED BY <3>4, <3>5, <3>6
  <2>3. /\ Objective(lp, p) = SumFunctionOnSet(rp, lp.rows) + SumFunctionOnSet(cp, lp.cols)
        /\ Objective(lp, x) = SumFunctionOnSet(rx, lp.rows) + SumFunctionOnSet(cx, lp.cols)
    <3>1. ~DualFeasibilityViolated(lp, s)
      BY DEF DualOptimal
    <3>2. Objective(lp, p) = Priced(lp, s, p) /\ Objective(lp, x) = Priced(lp, s, x)
      BY <1>1, <1>3, <3>1, ObjectiveByPrices
    <3> QED BY <3>2 DEF Priced
  <2> HIDE DEF rp, rx, cp, cx
  <2>4. /\ SumFunctionOnSet(rp, lp.rows) \in Int /\ SumFunctionOnSet(rx, lp.rows) \in Int
        /\ SumFunctionOnSet(cp, lp.cols) \in Int /\ SumFunctionOnSet(cx, lp.cols) \in Int
    BY <1>1, <2>1, <2>2, SumInt
  <2>5. /\ SumFunctionOnSet(rp, lp.rows) <= SumFunctionOnSet(rx, lp.rows)
        /\ SumFunctionOnSet(cp, lp.cols) <= SumFunctionOnSet(cx, lp.cols)
    BY <1>1, <2>1, <2>2, SumLeq
  <2> QED BY <2>3, <2>4, <2>5
<1> QED BY <1>2, <1>3

(* The slackness test of rows asks for a value below the left-hand side: a  *)
(* feasible point passes it with any prices.                                *)
LEMMA RowsPassSlackness ==
  ASSUME NEW lp, IsProgram(lp), NEW s, IsPoint(lp, s.primal), ~PrimalConstraintViolated(lp, s)
  PROVE  \A r \in lp.rows : ~RowSlacknessViolated(lp, s, r)
<1> SUFFICES ASSUME NEW r \in lp.rows
             PROVE  ~RowSlacknessViolated(lp, s, r)
  OBVIOUS
<1> DEFINE v == RowValue(lp, s.primal, r)
<1>1. v \in Int /\ lp.lhs[r] \in Int \cup {NoBound}
  BY RowValueType DEF IsProgram
<1>2. ~Below(lp.lhs[r], v)
  BY DEF PrimalConstraintViolated
<1> HIDE DEF v
<1>3. ~(lp.lhs[r] # NoBound /\ lp.lhs[r] > v)
  BY <1>1, <1>2 DEF Below
<1> QED BY <1>3 DEF RowSlacknessViolated, v

(* Such a solution, with a basis that fits or none, passes verifySolution:  *)
(* what dual postsolve keeps record by record is what is tested in the end. *)
LEMMA OptimalSolutionsPass ==
  ASSUME NEW lp, IsProgram(lp), NEW s, IsSolution(lp, s), PrimalFeasible(lp, s), DualOptimal(lp, s),
         ~BasisViolated(lp, s)
  PROVE  VerifySolution(lp, s) = "ok"
<1>1. \A r \in lp.rows : ~RowSlacknessViolated(lp, s, r)
  BY RowsPassSlackness DEF PrimalFeasible, IsSolution
<1>2. ASSUME NEW c \in lp.cols
      PROVE  ~ColSlacknessViolated(lp, s, c)
  <2> DEFINE v == s.primal[c]
             price == s.rc[c]
  <2>1. v \in Int /\ price \in Int
    BY DEF IsSolution, IsPoint
  <2>2. PriceFits(lp.lb[c], lp.ub[c], v, price)
    BY DEF DualOptimal
  <2>3. ASSUME price # 0
        PROVE  At(lp.lb[c], v) \/ At(lp.ub[c], v)
    BY <2>1, <2>2, <2>3 DEF PriceFits
  <2>4. lp.lb[c] \in Int \cup {NoBound} /\ lp.ub[c] \in Int \cup {NoBound}
    BY DEF IsProgram
  <2> HIDE DEF v, price
  <2>5. ~/\ lp.lb[c] # NoBound \/ lp.ub[c] # NoBound
         /\ lp.lb[c] # NoBound => v > lp.lb[c]
         /\ lp.ub[c] # NoBound => v < lp.ub[c]
         /\ price # 0
    BY <2>1, <2>3, <2>4 DEF At
  <2> QED BY <2>5 DEF ColSlacknessViolated, v, price
<1> QED BY <1>1, <1>2 DEF VerifySolution, PrimalFeasible, DualOptimal, ComplementarySlacknessViolated

-----------------------------------------------------------------------------
(* Ascending sequences                                                      *)

IsAscending(f, S) ==
  /\ f \in [1..Cardinality(S) -> S]
  /\ \A i, j \in 1..Cardinality(S) : i < j => f[i] < f[j]

(* A finite set of integers that is not empty has a largest element.        *)
LEMMA MaxIn ==
  ASSUME NEW S, IsFiniteSet(S), S \subseteq Int, S # {}
  PROVE  Max(S) \in S /\ \A x \in S : x <= Max(S)
<1> DEFINE Good == {T \in SUBSET S : T # {} => \E x \in T : \A y \in T : x >= y}
<1>1. ASSUME NEW T \in SUBSET S, \A U \in SUBSET T : U # T => U \in Good
      PROVE  T \in Good
  <2> SUFFICES ASSUME NEW p \in T
               PROVE  \E x \in T : \A y \in T : x >= y
    OBVIOUS
  <2>1. T \ {p} \in Good
    BY <1>1
  <2>2. CASE T \ {p} = {}
    BY <2>2
  <2>3. CASE T \ {p} # {}
    <3>1. PICK x \in T \ {p} : \A y \in T \ {p} : x >= y
      BY <2>1, <2>3
    <3>2. CASE x >= p
      BY <3>1, <3>2
    <3>3. CASE p >= x
      <4>1. \A y \in T : p >= y
        BY <3>1, <3>3
      <4> QED BY <4>1
    <3> QED BY <3>1, <3>2, <3>3
  <2> QED BY <2>2, <2>3
<1>2. S \in Good
  <2> HIDE DEF Good
  <2> QED BY <1>1, SubsetInduction
<1>3. \E x \in S : \A y \in S : x >= y
  BY <1>2
<1> QED BY <1>3 DEF Max

(* The numbers of a finite set can be put in ascending order.               *)
LEMMA AscendingOrder ==
  ASSUME NEW S, IsFiniteSet(S), S \subseteq Int
  PROVE  IsAscending(Ascending(S), S)
<1> DEFINE Good == {T \in SUBSET S : \E f : IsAscending(f, T)}
<1>1. ASSUME NEW T \in SUBSET S, \A U \in SUBSET T : U # T => U \in Good
      PROVE  T \in Good
  <2>1. IsFiniteSet(T)
    BY FS_Subset
  <2>2. CASE T = {}
    <3>1. Cardinality(T) = 0
      BY <2>2, FS_EmptySet
    <3>2. IsAscending([i \in 1..0 |-> 0], T)
      BY <3>1 DEF IsAscending
    <3> QED BY <3>2
  <2>3. CASE T # {}
    <3> DEFINE m == Max(T)
               U == T \ {m}
               n == Cardinality(U)
    <3>1. m \in T /\ \A x \in T : x <= m
      BY <2>1, <2>3, MaxIn
    <3>2. U \in Good
      BY <1>1, <3>1
    <3>3. Cardinality(T) = n + 1 /\ n \in Nat
      <4>1. IsFiniteSet(U) /\ Cardinality(U) = Cardinality(T) - 1
        BY <2>1, <3>1, FS_RemoveElement
      <4> QED BY <2>1, <4>1, FS_CardinalityType
    <3>4. PICK f : IsAscending(f, U)
      BY <3>2
    <3> DEFINE g == [i \in 1..(n + 1) |-> IF i = n + 1 THEN m ELSE f[i]]
    <3>5. f \in [1..n -> U] /\ \A i, j \in 1..n : i < j => f[i] < f[j]
      BY <3>4 DEF IsAscending
    <3> HIDE DEF m, n
    <3>6. \A x \in U : x < m /\ x \in T
      <4> SUFFICES ASSUME NEW x \in U PROVE x < m /\ x \in T
        OBVIOUS
      <4>1. x \in T /\ x # m /\ x \in Int /\ m \in Int
        BY <3>1
      <4> QED BY <3>1, <4>1
    <3>7. g \in [1..(n + 1) -> T]
      BY <3>1, <3>3, <3>5
    <3>8. \A i, j \in 1..(n + 1) : i < j => g[i] < g[j]
      <4> SUFFICES ASSUME NEW i \in 1..(n + 1), NEW j \in 1..(n + 1), i < j
                   PROVE  g[i] < g[j]
        OBVIOUS
      <4>1. i \in 1..n
        BY <3>3
      <4>2. CASE j = n + 1
        <5>1. g[j] = m /\ g[i] = f[i] /\ f[i] \in U
          BY <3>3, <3>5, <4>1, <4>2
        <5> QED BY <3>6, <5>1
      <4>3. CASE j \in 1..n
        BY <3>3, <3>5, <4>1, <4>3
      <4> QED BY <3>3, <4>2, <4>3
    <3>9. IsAscending(g, T)
      BY <3>3, <3>7, <3>8 DEF IsAscending
    <3> QED BY <3>9
  <2> QED BY <2>2, <2>3
<1>2. S \in Good
  <2> HIDE DEF Good
  <2> QED BY <1>1, SubsetInduction
<1>3. \E f : IsAscending(f, S)
  BY <1>2
<1> QED BY <1>3 DEF Ascending, IsAscending

-----------------------------------------------------------------------------
(* Reductions that go through a sequence                                    *)

(* The positions of a sequence that are done, and the last of them          *)
Positions(S) == IsFiniteSet(S) /\ S \subseteq Int
IsLast(m, S) == m \in S /\ m = Max(S)
AreOthers(V, S, m) == \A x : x \in V <=> x \in S /\ x # m

(* Positions that are not empty have a last one.                            *)
LEMMA LastPosition ==
  ASSUME NEW S, Positions(S), S # {}
  PROVE  Max(S) \in S /\ IsLast(Max(S), S) /\ AreOthers(S \ {Max(S)}, S, Max(S))
BY MaxIn DEF Positions, IsLast, AreOthers

(* Some of the positions are positions.                                     *)
LEMMA SomePositions ==
  ASSUME NEW S, Positions(S), NEW V, V \subseteq S
  PROVE  Positions(V)
BY FS_Subset DEF Positions

(* One turn: a row is marked redundant, a fixed column is removed, or a row *)
(* that fell with a column at infinity is fulfilled again                   *)
Turn(over, arg, t, x) ==
  IF over = "rows" THEN MarkRowRedundant(t, x)
  ELSE IF over = "columns" THEN RemoveFixedCol(t, x) ELSE FulfilRow(t, arg, x)

(* The recursive function on sets of positions behind such a loop           *)
LoopEntry(g, over, arg, st0, seq, s) ==
  IF s = {} THEN st0 ELSE Turn(over, arg, g[s \ {Max(s)}], seq[Max(s)])
LoopTable(g, over, arg, st0, seq, S) == g = [s \in SUBSET S |-> LoopEntry(g, over, arg, st0, seq, s)]
TheLoop(over, arg, st0, seq, S) == CHOOSE g : LoopTable(g, over, arg, st0, seq, S)
After(over, arg, st0, seq, S) == TheLoop(over, arg, st0, seq, S)[S]

(* The loops of the model are the values of that function.                  *)
LEMMA LoopOverRows ==
  ASSUME NEW st0, NEW rows
  PROVE  MarkRowsRedundant(st0, rows) = After("rows", 0, st0, rows, DOMAIN rows)
BY DEF MarkRowsRedundant, FoldLeft, MapThenFoldSet, After, TheLoop, LoopTable, LoopEntry, Turn

(* The same for the removal of fixed columns.                               *)
LEMMA LoopOverColumns ==
  ASSUME NEW st0
  PROVE  RemoveFixedCols(st0) =
           After("columns", 0, st0, Ascending(FixedCols(st0.lp)), DOMAIN Ascending(FixedCols(st0.lp)))
BY DEF RemoveFixedCols, FoldLeft, MapThenFoldSet, After, TheLoop, LoopTable, LoopEntry, Turn

(* Two tables agree on every set of positions that both cover.              *)
LEMMA LoopUnique ==
  ASSUME NEW over, NEW arg, NEW st0, NEW seq, NEW S, Positions(S), NEW R, NEW Q, S \subseteq R, S \subseteq Q,
         NEW g, LoopTable(g, over, arg, st0, seq, R), NEW h, LoopTable(h, over, arg, st0, seq, Q)
  PROVE  g[S] = h[S]
<1> DEFINE Good == {T \in SUBSET S : g[T] = h[T]}
<1>1. ASSUME NEW T \in SUBSET S, \A U \in SUBSET T : U # T => U \in Good
      PROVE  T \in Good
  <2>1. g[T] = LoopEntry(g, over, arg, st0, seq, T) /\ h[T] = LoopEntry(h, over, arg, st0, seq, T)
    BY DEF LoopTable
  <2>2. CASE T = {}
    BY <2>1, <2>2 DEF LoopEntry
  <2>3. CASE T # {}
    <3>1. Max(T) \in T
      BY <2>3, SomePositions, LastPosition
    <3>2. T \ {Max(T)} \in Good
      BY <1>1, <3>1
    <3> QED BY <2>1, <2>3, <3>2 DEF LoopEntry
  <2> QED BY <2>2, <2>3
<1>2. S \in Good
  <2>1. IsFiniteSet(S)
    BY DEF Positions
  <2> HIDE DEF Good
  <2> QED BY <1>1, <2>1, SubsetInduction
<1> QED BY <1>2

(* A table exists for every set of positions.                               *)
LEMMA LoopExists ==
  ASSUME NEW over, NEW arg, NEW st0, NEW seq, NEW S, Positions(S)
  PROVE  LoopTable(TheLoop(over, arg, st0, seq, S), over, arg, st0, seq, S)
<1> DEFINE TableOn(g, T) == LoopTable(g, over, arg, st0, seq, T)
           Of(T) == TheLoop(over, arg, st0, seq, T)
           EntryOf(g, T) == LoopEntry(g, over, arg, st0, seq, T)
           Good == {T \in SUBSET S : \E g : TableOn(g, T)}
<1>0. ASSUME NEW T \in SUBSET S, T # {}
      PROVE  Max(T) \in T /\ Positions(T \ {Max(T)})
  <2>1. Positions(T) /\ Positions(T \ {Max(T)})
    BY SomePositions
  <2> QED BY <1>0, <2>1, LastPosition
<1>1. ASSUME NEW T \in SUBSET S, \A U \in SUBSET T : U # T => U \in Good
      PROVE  T \in Good
  <2> DEFINE h == [s \in SUBSET T |-> EntryOf([v \in SUBSET T |-> Of(v)[v]], s)]
  <2>1. \A U \in SUBSET T : U # T => TableOn(Of(U), U)
    BY <1>1 DEF TheLoop
  <2>2. ASSUME NEW U \in SUBSET T, U # T
        PROVE  h[U] = Of(U)[U]
    <3>1. h[U] = EntryOf([v \in SUBSET T |-> Of(v)[v]], U)
      OBVIOUS
    <3>2. Of(U)[U] = EntryOf(Of(U), U)
      BY <2>1, <2>2 DEF LoopTable
    <3>3. CASE U = {}
      BY <3>1, <3>2, <3>3 DEF LoopEntry
    <3>4. CASE U # {}
      <4> DEFINE V == U \ {Max(U)}
      <4>1. V \in SUBSET T /\ V # T /\ V \subseteq U /\ Positions(V)
        BY <3>4, <1>0
      <4>2. Of(U)[V] = Of(V)[V]
        <5>1. TableOn(Of(U), U) /\ TableOn(Of(V), V)
          BY <2>1, <2>2, <4>1
        <5> HIDE DEF V, Of
        <5> QED BY <4>1, <5>1, LoopUnique
      <4>3. [v \in SUBSET T |-> Of(v)[v]][V] = Of(V)[V]
        BY <4>1
      <4> HIDE DEF Of
      <4> QED BY <3>1, <3>2, <3>4, <4>2, <4>3 DEF LoopEntry
    <3> QED BY <3>3, <3>4
  <2>3. ASSUME NEW U \in SUBSET T
        PROVE  h[U] = EntryOf(h, U)
    <3>1. h[U] = EntryOf([v \in SUBSET T |-> Of(v)[v]], U)
      OBVIOUS
    <3>2. CASE U = {}
      BY <3>1, <3>2 DEF LoopEntry
    <3>3. CASE U # {}
      <4> DEFINE V == U \ {Max(U)}
      <4>1. V \in SUBSET T /\ V # T
        BY <3>3, <1>0
      <4>2. h[V] = Of(V)[V]
        BY <2>2, <4>1
      <4>3. [v \in SUBSET T |-> Of(v)[v]][V] = Of(V)[V]
        BY <4>1
      <4> HIDE DEF h, Of
      <4> QED BY <3>1, <3>3, <4>2, <4>3 DEF LoopEntry
    <3> QED BY <3>2, <3>3
  <2>4. TableOn(h, T)
    <3>1. DOMAIN h = SUBSET T /\ h = [s \in SUBSET T |-> h[s]]
      OBVIOUS
    <3> HIDE DEF h
    <3> QED BY <2>3, <3>1 DEF LoopTable
  <2> QED BY <2>4
<1>2. S \in Good
  <2>1. IsFiniteSet(S)
    BY DEF Positions
  <2> HIDE DEF Good
  <2> QED BY <1>1, <2>1, SubsetInduction
<1> QED BY <1>2 DEF TheLoop

(* One turn of the recursion.                                               *)
LEMMA LoopTurn ==
  ASSUME NEW over, NEW arg, NEW st0, NEW seq, NEW S, Positions(S),
         NEW m, IsLast(m, S), NEW V, AreOthers(V, S, m)
  PROVE  After(over, arg, st0, seq, S) = Turn(over, arg, After(over, arg, st0, seq, V), seq[m])
<1> DEFINE Of(T) == TheLoop(over, arg, st0, seq, T)
<1>1. LoopTable(Of(S), over, arg, st0, seq, S)
  BY LoopExists
<1>2. S # {} /\ V \subseteq S /\ V = S \ {Max(S)}
  BY DEF IsLast, AreOthers
<1>3. Of(S)[S] = LoopEntry(Of(S), over, arg, st0, seq, S)
  BY <1>1 DEF LoopTable
<1>4. Positions(V)
  BY <1>2, SomePositions
<1>5. LoopTable(Of(V), over, arg, st0, seq, V)
  BY <1>4, LoopExists
<1>6. Of(S)[V] = Of(V)[V]
  <2> DEFINE g == Of(S)
             h == Of(V)
  <2>1. LoopTable(g, over, arg, st0, seq, S) /\ LoopTable(h, over, arg, st0, seq, V) /\ V \subseteq S
    BY <1>1, <1>2, <1>5
  <2> HIDE DEF g, h
  <2>2. g[V] = h[V]
    BY <1>4, <2>1, LoopUnique
  <2> QED BY <2>2 DEF g, h
<1> QED BY <1>2, <1>3, <1>6 DEF LoopEntry, After, IsLast

(* Where it begins                                                          *)
LEMMA LoopStart ==
  ASSUME NEW over, NEW arg, NEW st0, NEW seq
  PROVE  After(over, arg, st0, seq, {}) = st0
<1>1. Positions({})
  BY FS_EmptySet DEF Positions
<1>2. LoopTable(TheLoop(over, arg, st0, seq, {}), over, arg, st0, seq, {})
  BY <1>1, LoopExists
<1> QED BY <1>2 DEF LoopTable, LoopEntry, After

-----------------------------------------------------------------------------
(* What a record holds                                                      *)

BoundOf(p, c, isLower) == IF isLower THEN p.lb[c] ELSE p.ub[c]

SameBounds(p, q) ==
  p.cols = q.cols /\ \A c \in Cols, isLower \in BOOLEAN : BoundOf(p, c, isLower) = BoundOf(q, c, isLower)

(* The columns whose lower (upper) bound is written back with the record    *)
Held(rec, isLower) ==
  CASE rec.type \in {"fixedCol", "fixedInf", "substituted"} -> {rec.col}
    [] rec.type = "varBoundChange" -> IF rec.isLower <=> isLower THEN {rec.col} ELSE {}
    [] rec.type = "parallelCol" -> {rec.col1, rec.col2}
    [] rec.type = "reducedBounds" -> rec.cols
    [] OTHER -> {}

(* ... and that bound                                                       *)
HeldBound(rec, c, isLower) ==
  CASE rec.type = "fixedCol" -> rec.val
    [] rec.type = "fixedInf" -> IF rec.up <=> isLower THEN rec.bound ELSE NoBound
    [] rec.type = "substituted" -> IF isLower THEN rec.lb ELSE rec.ub
    [] rec.type = "varBoundChange" -> rec.old
    [] rec.type = "parallelCol" ->
         IF c = rec.col2 THEN IF isLower THEN rec.lb2 ELSE rec.ub2 ELSE IF isLower THEN rec.lb1 ELSE rec.ub1
    [] OTHER -> BoundOf(rec, c, isLower)

(* The bounds that the change from before to after takes away are those of  *)
(* the record.                                                              *)
Restores(rec, before, after) ==
  \A c \in before.cols, isLower \in BOOLEAN :
    IF c \in Held(rec, isLower)
    THEN HeldBound(rec, c, isLower) = BoundOf(before, c, isLower)
    ELSE c \in after.cols /\ BoundOf(after, c, isLower) = BoundOf(before, c, isLower)

(* The program after the change of record i                                 *)
Later(t, i) == IF i < Len(t.log) THEN t.log[i + 1].before ELSE t.lp

(* The rows that fell with a column fixed to infinity have their records    *)
(* right before, and none of them touches a bound.                          *)
RowsBefore(log, i) ==
  log[i].rec.type = "fixedInf" =>
    LET n == Len(log[i].rec.rows) IN n \in Nat /\ n < i /\ SameBounds(log[i - n].before, log[i].before)

Limits == Int \cup {NoBound}

(* A program with the matrix of a problem presolve starts from              *)
WellFormed(lp) == lp \in LinearPrograms /\ \E q \in Problems : q.a = lp.a

IsLog(log) == Len(log) \in Nat /\ log \in Seq({log[i] : i \in 1..Len(log)})

(* The first record was stored by the original problem.                     *)
BeganWith(t, lp) == lp = (IF Len(t.log) = 0 THEN t.lp ELSE t.log[1].before)

(* A program with a storage that leads back to where presolve began         *)
Reversible(t) ==
  /\ WellFormed(t.lp)
  /\ IsLog(t.log)
  /\ \E lp \in Problems : BeganWith(t, lp)
  /\ \A i \in 1..Len(t.log) :
       /\ WellFormed(t.log[i].before)
       /\ Restores(t.log[i].rec, t.log[i].before, Later(t, i))
       /\ RowsBefore(t.log, i)

(* What is known of such a program                                          *)
LEMMA WellFormedFacts ==
  ASSUME NEW lp, WellFormed(lp)
  PROVE  /\ DOMAIN lp = {"rows", "cols", "lb", "ub", "obj", "lhs", "rhs", "a"}
         /\ lp.rows \subseteq Rows /\ lp.cols \subseteq Cols
         /\ lp.lb \in [Cols -> Limits] /\ lp.ub \in [Cols -> Limits] /\ lp.obj \in [Cols -> Int]
         /\ lp.lhs \in [Rows -> Limits] /\ lp.rhs \in [Rows -> Limits]
         /\ lp.a \in [Rows -> [Cols -> Int]]
BY DEF WellFormed, LinearPrograms, Limits

(* Changes of a bound                                                       *)
LEMMA BoundChanged ==
  ASSUME NEW lp, WellFormed(lp), NEW c, NEW v \in Limits
  PROVE  WellFormed([lp EXCEPT !.lb[c] = v]) /\ WellFormed([lp EXCEPT !.ub[c] = v])
BY WellFormedFacts DEF WellFormed, LinearPrograms, Limits

(* ... of a side                                                            *)
LEMMA SideChanged ==
  ASSUME NEW lp, WellFormed(lp), NEW r, NEW v \in Limits
  PROVE  WellFormed([lp EXCEPT !.lhs[r] = v]) /\ WellFormed([lp EXCEPT !.rhs[r] = v])
BY WellFormedFacts DEF WellFormed, LinearPrograms, Limits

(* ... a row or a column leaves                                             *)
LEMMA OneLeaves ==
  ASSUME NEW lp, WellFormed(lp), NEW x
  PROVE  WellFormed([lp EXCEPT !.rows = @ \ {x}]) /\ WellFormed([lp EXCEPT !.cols = @ \ {x}])
BY WellFormedFacts DEF WellFormed, LinearPrograms, Limits

(* The storage grows by one record, the others stay.                        *)
LEMMA AppendToLog ==
  ASSUME NEW log, IsLog(log), NEW e
  PROVE  /\ IsLog(Append(log, e))
         /\ Len(Append(log, e)) = Len(log) + 1
         /\ \A i \in 1..Len(log) : Append(log, e)[i] = log[i]
         /\ Append(log, e)[Len(log) + 1] = e
<1> DEFINE Old == {log[i] : i \in 1..Len(log)}
           S == Old \cup {e}
           new == Append(log, e)
<1>1. log \in Seq(S) /\ e \in S /\ Len(log) \in Nat
  BY DEF IsLog
<1>2. /\ new \in Seq(S) /\ Len(new) = Len(log) + 1
      /\ \A i \in 1..Len(log) : new[i] = log[i]
      /\ new[Len(log) + 1] = e
  <2> HIDE DEF S
  <2> QED BY <1>1, AppendProperties
<1>3. new \in Seq({new[i] : i \in 1..Len(new)})
  <2> HIDE DEF new
  <2>1. new \in [1..Len(new) -> S]
    <3> HIDE DEF S
    <3> QED BY <1>2, LenProperties
  <2>2. new \in [1..Len(new) -> {new[i] : i \in 1..Len(new)}]
    BY <2>1
  <2>3. Len(new) \in Nat
    BY <1>1, <1>2
  <2> DEFINE N == {new[i] : i \in 1..Len(new)}
  <2> HIDE DEF N
  <2> QED BY <2>2, <2>3, SeqDef DEF N
<1>4. Len(new) \in Nat
  BY <1>1, <1>2
<1>5. Append(log, e) = new
  OBVIOUS
<1> HIDE DEF new, S
<1>6. IsLog(new)
  BY <1>3, <1>4 DEF IsLog
<1> QED BY <1>2, <1>5, <1>6

(* A change keeps the storage reversible if its record holds what it takes  *)
(* away.                                                                    *)
LEMMA StoredReversible ==
  ASSUME NEW t, Reversible(t), NEW rec, NEW after, WellFormed(after), Restores(rec, t.lp, after),
         rec.type = "fixedInf" =>
           LET n == Len(rec.rows)
           IN n \in 0..Len(t.log) /\ (n # 0 => SameBounds(t.log[Len(t.log) + 1 - n].before, t.lp))
  PROVE  Reversible(Stored(t, rec, after))
<1> DEFINE new == Stored(t, rec, after)
           e == [rec |-> rec, before |-> t.lp]
           fell == Len(rec.rows)
           k == Len(t.log)
<1>1. /\ new = [lp |-> after, log |-> Append(t.log, e)]
      /\ new.lp = after /\ new.log = Append(t.log, e)
  BY DEF Stored
<1>2. IsLog(t.log) /\ k \in Nat
  BY DEF Reversible, IsLog
<1>3. /\ IsLog(new.log) /\ Len(new.log) = k + 1
      /\ \A i \in 1..k : new.log[i] = t.log[i]
      /\ new.log[k + 1] = e
  <2> HIDE DEF e, new
  <2> QED BY <1>1, <1>2, AppendToLog
<1> HIDE DEF new, k
<1>4. ASSUME NEW i \in 1..k
      PROVE  Restores(new.log[i].rec, new.log[i].before, Later(new, i)) /\ RowsBefore(new.log, i)
  <2>1. Restores(t.log[i].rec, t.log[i].before, Later(t, i)) /\ RowsBefore(t.log, i)
    BY DEF Reversible, k
  <2>2. Later(new, i) = Later(t, i)
    <3>1. CASE i = k
      <4>1. Later(new, i) = new.log[k + 1].before
        BY <1>2, <1>3, <3>1 DEF Later
      <4>2. Later(t, i) = t.lp
        BY <1>2, <3>1 DEF Later, k
      <4> QED BY <1>3, <4>1, <4>2
    <3>2. CASE i # k
      <4>1. i + 1 \in 1..k /\ i < k + 1 /\ i < k
        BY <1>2, <3>2
      <4> QED BY <1>3, <4>1 DEF Later, k
    <3> QED BY <3>1, <3>2
  <2>3. RowsBefore(new.log, i)
    <3> SUFFICES ASSUME new.log[i].rec.type = "fixedInf"
                 PROVE  LET m == Len(new.log[i].rec.rows)
                        IN m \in Nat /\ m < i /\ SameBounds(new.log[i - m].before, new.log[i].before)
      BY DEF RowsBefore
    <3> DEFINE m == Len(t.log[i].rec.rows)
    <3>1. m \in Nat /\ m < i /\ SameBounds(t.log[i - m].before, t.log[i].before)
      BY <1>3, <2>1 DEF RowsBefore
    <3>2. i - m \in 1..k
      <4> HIDE DEF m
      <4> QED BY <1>2, <3>1
    <3> QED BY <1>3, <3>1, <3>2
  <2> QED BY <1>3, <2>1, <2>2, <2>3
<1>5. Restores(new.log[k + 1].rec, new.log[k + 1].before, Later(new, k + 1))
  <2>1. Later(new, k + 1) = after
    BY <1>1, <1>2, <1>3 DEF Later
  <2> QED BY <1>3, <2>1
<1>6. ASSUME NEW i, i = k + 1
      PROVE  RowsBefore(new.log, i)
  <2>1. new.log[i].rec = rec /\ new.log[i].before = t.lp
    BY <1>3, <1>6
  <2>2. ASSUME rec.type = "fixedInf"
        PROVE  fell \in Nat /\ fell < i /\ SameBounds(new.log[i - fell].before, t.lp)
    <3>1. fell \in 0..k /\ (fell # 0 => SameBounds(t.log[k + 1 - fell].before, t.lp))
      BY <2>2 DEF k
    <3> HIDE DEF fell
    <3>2. CASE fell = 0
      <4>1. i - fell = i
        BY <1>2, <1>6, <3>2
      <4>2. SameBounds(new.log[i].before, t.lp)
        BY <2>1 DEF SameBounds
      <4> QED BY <1>2, <1>6, <3>2, <4>1, <4>2
    <3>3. CASE fell # 0
      <4>1. i - fell \in 1..k /\ fell < i
        BY <1>2, <1>6, <3>1, <3>3
      <4>2. new.log[i - fell] = t.log[i - fell]
        BY <1>3, <4>1
      <4>3. new.log[i - fell] = t.log[k + 1 - fell]
        <5>1. i - fell = k + 1 - fell
          BY <1>2, <1>6, <3>1
        <5> QED BY <4>2, <5>1
      <4> QED BY <3>1, <3>3, <4>1, <4>3
    <3> QED BY <3>2, <3>3
  <2>3. SUFFICES ASSUME new.log[i].rec.type = "fixedInf"
                 PROVE  LET m == Len(new.log[i].rec.rows)
                        IN m \in Nat /\ m < i /\ SameBounds(new.log[i - m].before, new.log[i].before)
    BY DEF RowsBefore
  <2> QED BY <2>1, <2>2, <2>3
<1>7. ASSUME NEW i \in 1..Len(new.log)
      PROVE  /\ WellFormed(new.log[i].before)
             /\ Restores(new.log[i].rec, new.log[i].before, Later(new, i)) /\ RowsBefore(new.log, i)
  <2>1. i \in 1..k \/ i = k + 1
    BY <1>2, <1>3
  <2>2. WellFormed(new.log[i].before)
    <3>1. CASE i \in 1..k
      <4>1. WellFormed(t.log[i].before)
        BY <3>1 DEF Reversible, k
      <4> QED BY <1>3, <3>1, <4>1
    <3>2. CASE i = k + 1
      <4>1. WellFormed(t.lp)
        BY DEF Reversible
      <4> QED BY <1>3, <3>2, <4>1
    <3> QED BY <2>1, <3>1, <3>2
  <2> QED BY <1>4, <1>5, <1>6, <2>1, <2>2
<1>8. ASSUME NEW lp \in Problems, BeganWith(t, lp)
      PROVE  BeganWith(new, lp)
  <2>1. CASE k = 0
    BY <1>3, <1>8, <2>1 DEF BeganWith, k
  <2>2. CASE k # 0
    BY <1>2, <1>3, <1>8, <2>2 DEF BeganWith, k
  <2> QED BY <2>1, <2>2
<1>9. \E lp \in Problems : BeganWith(new, lp)
  BY <1>8 DEF Reversible
<1> QED BY <1>1, <1>3, <1>7, <1>9 DEF Reversible, new

-----------------------------------------------------------------------------
(* The inductive invariant                                                  *)

HasStored(w) ==
  /\ DOMAIN w = {"s", "stored", "broken"} /\ DOMAIN w.stored = {"lb", "ub"}
  /\ DOMAIN w.stored.lb = Cols /\ DOMAIN w.stored.ub = Cols

Agree(stored, lp) == \A c \in lp.cols, isLower \in BOOLEAN : BoundOf(stored, c, isLower) = BoundOf(lp, c, isLower)

(* Bounds that cross end presolve.  Once it is over the last record is that *)
(* of the reduced bounds; on the way back the bounds are those of the        *)
(* program before the last record undone.                                   *)
BoundsInv ==
  /\ Reversible(st)
  /\ HasStored(u)
  /\ phase = "presolve" => ~Crossed(st.lp)
  /\ phase \in {"solve", "undo", "done"} => /\ Len(st.log) > 0 /\ st.log[Len(st.log)].rec = ReducedRecord(st.lp)
                                            /\ st.log[Len(st.log)].before = st.lp
  /\ phase \in {"undo", "done"} => /\ next \in 0..Len(st.log)
                                   /\ next < Len(st.log) => Agree(u.stored, st.log[next + 1].before)

-----------------------------------------------------------------------------
(* Single changes keep the storage reversible                               *)

Neutral(rec) ==
  rec.type \in {"redundantRow", "rowBoundChange", "forcedByRow", "reason", "coefficientChange", "saveRow"}

(* A change of rows, sides or coefficients takes no bound away.             *)
LEMMA NeutralStored ==
  ASSUME NEW t, Reversible(t), NEW rec, Neutral(rec), NEW after, WellFormed(after), SameBounds(after, t.lp)
  PROVE  Reversible(Stored(t, rec, after))
<1>1. WellFormed(t.lp)
  BY DEF Reversible
<1>2. Restores(rec, t.lp, after)
  BY <1>1, WellFormedFacts DEF Restores, Held, Neutral, SameBounds
<1>3. rec.type # "fixedInf"
  BY DEF Neutral
<1> QED BY <1>2, <1>3, StoredReversible

(* storeSavedRow                                                            *)
LEMMA SaveRowReversible ==
  ASSUME NEW t, Reversible(t), NEW r
  PROVE  Reversible(SaveRow(t, r)) /\ SaveRow(t, r).lp = t.lp
<1>1. WellFormed(t.lp) /\ SameBounds(t.lp, t.lp)
  BY DEF Reversible, SameBounds
<1> DEFINE rec == SavedRowRecord(t.lp, r)
<1>2. Neutral(rec) /\ SaveRow(t, r) = Stored(t, rec, t.lp)
  BY DEF Neutral, SavedRowRecord, SaveRow
<1>3. SaveRow(t, r).lp = t.lp
  BY DEF SaveRow, Stored
<1> HIDE DEF rec
<1> QED BY <1>1, <1>2, <1>3, NeutralStored

(* markRowRedundant                                                         *)
LEMMA MarkRowReversible ==
  ASSUME NEW t, Reversible(t), NEW r
  PROVE  /\ Reversible(MarkRowRedundant(t, r))
         /\ SameBounds(MarkRowRedundant(t, r).lp, t.lp)
         /\ MarkRowRedundant(t, r).log = Append(t.log, [rec |-> RedundantRecord(r), before |-> t.lp])
<1> DEFINE after == [t.lp EXCEPT !.rows = @ \ {r}]
<1>1. WellFormed(t.lp)
  BY DEF Reversible
<1>2. /\ WellFormed(after)
      /\ after.cols = t.lp.cols /\ after.lb = t.lp.lb /\ after.ub = t.lp.ub
  BY <1>1, OneLeaves, WellFormedFacts
<1>3. SameBounds(after, t.lp)
  BY <1>2 DEF SameBounds, BoundOf
<1> DEFINE rec == RedundantRecord(r)
<1>4. Neutral(rec)
  BY DEF Neutral, RedundantRecord
<1>5. MarkRowRedundant(t, r) = Stored(t, rec, after)
  BY DEF MarkRowRedundant
<1>6. /\ MarkRowRedundant(t, r).lp = after
      /\ MarkRowRedundant(t, r).log = Append(t.log, [rec |-> rec, before |-> t.lp])
  BY DEF MarkRowRedundant, Stored
<1>7. Reversible(Stored(t, rec, after))
  <2> HIDE DEF after, rec
  <2> QED BY <1>2, <1>3, <1>4, NeutralStored
<1> HIDE DEF after
<1> QED BY <1>3, <1>5, <1>6, <1>7

(* changeLHS, changeRHS                                                     *)
LEMMA ChangeSideReversible ==
  ASSUME NEW t, Reversible(t), NEW isLhs, NEW r, NEW v \in Limits
  PROVE  Reversible(ChangeSide(t, isLhs, r, v)) /\ SameBounds(ChangeSide(t, isLhs, r, v).lp, t.lp)
<1> DEFINE after == IF isLhs THEN [t.lp EXCEPT !.lhs[r] = v] ELSE [t.lp EXCEPT !.rhs[r] = v]
<1>1. WellFormed(t.lp)
  BY DEF Reversible
<1>2. /\ WellFormed(after)
      /\ after.cols = t.lp.cols /\ after.lb = t.lp.lb /\ after.ub = t.lp.ub
  <2>1. CASE isLhs
    BY <1>1, <2>1, SideChanged, WellFormedFacts
  <2>2. CASE ~isLhs
    BY <1>1, <2>2, SideChanged, WellFormedFacts
  <2> QED BY <2>1, <2>2
<1>3. SameBounds(after, t.lp)
  BY <1>2 DEF SameBounds, BoundOf
<1>4. Neutral(SideRecord(isLhs, r))
  BY DEF Neutral, SideRecord
<1>5. ChangeSide(t, isLhs, r, v) = Stored(t, SideRecord(isLhs, r), after)
  BY DEF ChangeSide
<1>6. ChangeSide(t, isLhs, r, v).lp = after
  BY DEF ChangeSide, Stored
<1> HIDE DEF after
<1> QED BY <1>2, <1>3, <1>4, <1>5, <1>6, NeutralStored

(* modify of the bound of a column: the record keeps the old one.           *)
LEMMA ChangeBoundReversible ==
  ASSUME NEW t, Reversible(t), NEW isLower \in BOOLEAN, NEW c \in Cols, NEW v \in Limits
  PROVE  LET new == ChangeBound(t, isLower, c, v)
         IN /\ Reversible(new)
            /\ new.lp.cols = t.lp.cols
            /\ \A d \in Cols, low \in BOOLEAN :
                 BoundOf(new.lp, d, low) = IF d = c /\ low = isLower THEN v ELSE BoundOf(t.lp, d, low)
<1> DEFINE rec == BoundRecord(isLower, c, BoundOf(t.lp, c, isLower), v)
           after == IF isLower THEN [t.lp EXCEPT !.lb[c] = v] ELSE [t.lp EXCEPT !.ub[c] = v]
<1>1. WellFormed(t.lp)
  BY DEF Reversible
<1>2. WellFormed(after) /\ after.cols = t.lp.cols
  <2>1. CASE isLower
    BY <1>1, <2>1, BoundChanged, WellFormedFacts
  <2>2. CASE ~isLower
    BY <1>1, <2>2, BoundChanged, WellFormedFacts
  <2> QED BY <2>1, <2>2
<1>3. \A d \in Cols, low \in BOOLEAN :
        BoundOf(after, d, low) = IF d = c /\ low = isLower THEN v ELSE BoundOf(t.lp, d, low)
  BY <1>1, WellFormedFacts DEF BoundOf
<1>4. /\ rec.type = "varBoundChange"
      /\ \A low \in BOOLEAN : Held(rec, low) = IF low = isLower THEN {c} ELSE {}
      /\ HeldBound(rec, c, isLower) = BoundOf(t.lp, c, isLower)
  BY DEF BoundRecord, Held, HeldBound
<1>5. ChangeBound(t, isLower, c, v) = Stored(t, rec, after) /\ ChangeBound(t, isLower, c, v).lp = after
  BY DEF ChangeBound, BoundOf, Stored
<1> HIDE DEF rec, after
<1>6. Restores(rec, t.lp, after)
  BY <1>1, <1>2, <1>3, <1>4, WellFormedFacts DEF Restores
<1>7. Reversible(Stored(t, rec, after))
  <2>1. rec.type # "fixedInf"
    BY <1>4
  <2> QED BY <1>2, <1>6, <2>1, StoredReversible
<1> QED BY <1>2, <1>3, <1>5, <1>7

(* changeLB, changeUB                                                       *)
LEMMA TightenReversible ==
  ASSUME NEW t, Reversible(t), NEW isLower \in BOOLEAN, NEW c \in Cols, NEW v \in Limits
  PROVE  /\ Reversible(Tighten(t, isLower, c, v))
         /\ Tighten(t, isLower, c, v).lp.cols = t.lp.cols /\ Tighten(t, isLower, c, v).lp.a = t.lp.a
<1>1. WellFormed(t.lp)
  BY DEF Reversible
<1>2. ChangeBound(t, isLower, c, v).lp.a = t.lp.a
  BY <1>1, WellFormedFacts DEF ChangeBound, Stored
<1> QED BY <1>2, ChangeBoundReversible DEF Tighten

(* fixCol                                                                   *)
LEMMA FixColReversible ==
  ASSUME NEW t, Reversible(t), NEW c \in Cols, NEW v \in Limits
  PROVE  Reversible(FixCol(t, c, v)) /\ FixCol(t, c, v).lp.cols = t.lp.cols
<1> DEFINE low == Tighten(t, TRUE, c, v)
<1>1. Reversible(low) /\ low.lp.cols = t.lp.cols
  BY TightenReversible
<1> HIDE DEF low
<1>2. Reversible(Tighten(low, FALSE, c, v)) /\ Tighten(low, FALSE, c, v).lp.cols = low.lp.cols
  BY <1>1, TightenReversible
<1> QED BY <1>1, <1>2 DEF FixCol, low

(* Both bounds are the value afterwards if it is one the bounds allow.      *)
LEMMA FixColWithin ==
  ASSUME NEW t, Reversible(t), NEW c \in Cols, NEW v \in Int,
         t.lp.lb[c] # NoBound => t.lp.lb[c] <= v, t.lp.ub[c] # NoBound => v <= t.lp.ub[c]
  PROVE  FixCol(t, c, v).lp.lb[c] = v /\ FixCol(t, c, v).lp.ub[c] = v
<1> DEFINE low == Tighten(t, TRUE, c, v)
           new == Tighten(low, FALSE, c, v)
<1>1. WellFormed(t.lp) /\ v \in Limits
  BY DEF Reversible, Limits
<1>2. t.lp.lb[c] \in Limits /\ t.lp.ub[c] \in Limits
  BY <1>1, WellFormedFacts
<1>3. low.lp.lb[c] = v /\ low.lp.ub[c] = t.lp.ub[c] /\ Reversible(low)
  <2>1. Reversible(low)
    BY <1>1, TightenReversible
  <2>2. ChangeBound(t, TRUE, c, v).lp.lb[c] = v /\ ChangeBound(t, TRUE, c, v).lp.ub[c] = t.lp.ub[c]
    BY <1>1, WellFormedFacts DEF ChangeBound, Stored
  <2>3. CASE t.lp.lb[c] = NoBound \/ v > t.lp.lb[c]
    BY <2>1, <2>2, <2>3 DEF Tighten
  <2>4. CASE ~(t.lp.lb[c] = NoBound \/ v > t.lp.lb[c])
    <3>1. t.lp.lb[c] = v
      BY <1>2, <2>4 DEF Limits
    <3> QED BY <2>1, <2>4, <3>1 DEF Tighten
  <2> QED BY <2>3, <2>4
<1> HIDE DEF low
<1>4. new.lp.lb[c] = v /\ new.lp.ub[c] = v
  <2>1. WellFormed(low.lp)
    BY <1>3 DEF Reversible
  <2>2. ChangeBound(low, FALSE, c, v).lp.ub[c] = v /\ ChangeBound(low, FALSE, c, v).lp.lb[c] = v
    BY <1>3, <2>1, WellFormedFacts DEF ChangeBound, Stored
  <2>3. CASE low.lp.ub[c] = NoBound \/ v < low.lp.ub[c]
    BY <2>2, <2>3 DEF Tighten
  <2>4. CASE ~(low.lp.ub[c] = NoBound \/ v < low.lp.ub[c])
    <3>1. low.lp.ub[c] = v
      BY <1>2, <1>3, <2>4 DEF Limits
    <3> QED BY <1>3, <2>4, <3>1 DEF Tighten
  <2> QED BY <2>3, <2>4
<1> QED BY <1>4 DEF FixCol, low

(* A fixed column leaves the program: its two bounds are the value in the   *)
(* record.                                                                  *)
LEMMA RemoveFixedColReversible ==
  ASSUME NEW t, Reversible(t), NEW c \in Cols, t.lp.lb[c] = t.lp.ub[c], t.lp.lb[c] \in Int
  PROVE  /\ Reversible(RemoveFixedCol(t, c))
         /\ RemoveFixedCol(t, c).lp.lb = t.lp.lb /\ RemoveFixedCol(t, c).lp.ub = t.lp.ub
<1> DEFINE v == t.lp.lb[c]
           rows == ColRows(t.lp, c)
           rec == FixedRecord(t.lp, c, v)
           left == [r \in Rows |-> IF r \in rows THEN Shifted(t.lp.lhs[r], t.lp.a[r][c] * v) ELSE t.lp.lhs[r]]
           right == [r \in Rows |-> IF r \in rows THEN Shifted(t.lp.rhs[r], t.lp.a[r][c] * v) ELSE t.lp.rhs[r]]
           after == [t.lp EXCEPT !.cols = @ \ {c}, !.lhs = left, !.rhs = right]
<1>1. WellFormed(t.lp)
  BY DEF Reversible
<1>2. /\ WellFormed(after)
      /\ after.cols = t.lp.cols \ {c} /\ after.lb = t.lp.lb /\ after.ub = t.lp.ub
  <2>1. left \in [Rows -> Limits] /\ right \in [Rows -> Limits]
    <3> SUFFICES ASSUME NEW r \in Rows PROVE left[r] \in Limits /\ right[r] \in Limits
      OBVIOUS
    <3>1. t.lp.lhs[r] \in Limits /\ t.lp.rhs[r] \in Limits /\ t.lp.a[r][c] \in Int
      BY <1>1, WellFormedFacts
    <3> DEFINE by == t.lp.a[r][c] * v
    <3>2. by \in Int
      BY <3>1
    <3> HIDE DEF by
    <3>3. \A side \in Limits : Shifted(side, by) \in Limits
      BY <3>2 DEF Shifted, Limits
    <3> QED BY <3>1, <3>3 DEF by
  <2> HIDE DEF left, right
  <2>2. /\ after.a = t.lp.a /\ after.cols = t.lp.cols \ {c} /\ after.lb = t.lp.lb /\ after.ub = t.lp.ub
    BY <1>1, WellFormedFacts
  <2>3. after \in LinearPrograms
    BY <1>1, <2>1, WellFormedFacts DEF WellFormed, LinearPrograms, Limits
  <2> QED BY <1>1, <2>2, <2>3 DEF WellFormed
<1>3. /\ rec.type = "fixedCol"
      /\ \A low \in BOOLEAN : Held(rec, low) = {c} /\ HeldBound(rec, c, low) = t.lp.lb[c]
  BY DEF FixedRecord, Held, HeldBound
<1>4. RemoveFixedCol(t, c) = Stored(t, rec, after) /\ RemoveFixedCol(t, c).lp = after
  BY DEF RemoveFixedCol, Stored
<1> HIDE DEF rec, after
<1>5. Restores(rec, t.lp, after)
  BY <1>2, <1>3 DEF Restores, BoundOf
<1>6. Reversible(Stored(t, rec, after))
  <2>1. rec.type # "fixedInf"
    BY <1>3
  <2> QED BY <1>2, <1>5, <2>1, StoredReversible
<1> QED BY <1>2, <1>4, <1>6

-----------------------------------------------------------------------------
(* Loops keep the storage reversible                                        *)

(* The rows and columns of a program are finitely many.                     *)
LEMMA FiniteProgram ==
  /\ IsFiniteSet(Rows) /\ IsFiniteSet(Cols)
  /\ \A S \in SUBSET Rows : IsFiniteSet(S) /\ S \subseteq Int
  /\ \A S \in SUBSET Cols : IsFiniteSet(S) /\ S \subseteq Int
<1>1. IsFiniteSet(Rows) /\ IsFiniteSet(Cols)
  BY ProgramAssumption, FS_Interval DEF Rows, Cols
<1>2. Rows \subseteq Int /\ Cols \subseteq Int
  BY DEF Rows, Cols
<1>3. \A S \in SUBSET Rows : IsFiniteSet(S)
  BY <1>1, FS_Subset
<1>4. \A S \in SUBSET Cols : IsFiniteSet(S)
  BY <1>1, FS_Subset
<1> QED BY <1>1, <1>2, <1>3, <1>4

(* Rows are marked redundant: as many records as rows, no bound changes.    *)
LEMMA MarkRowsReversible ==
  ASSUME NEW t, Reversible(t), NEW rows, NEW n \in Nat, DOMAIN rows = 1..n
  PROVE  /\ Reversible(MarkRowsRedundant(t, rows))
         /\ SameBounds(MarkRowsRedundant(t, rows).lp, t.lp)
         /\ Len(MarkRowsRedundant(t, rows).log) = Len(t.log) + n
         /\ \A i \in (Len(t.log) + 1)..(Len(t.log) + n) :
              SameBounds(MarkRowsRedundant(t, rows).log[i].before, t.lp)
<1> DEFINE D == 1..n
           kind == "rows"
           At0(T) == After(kind, 0, t, rows, T)
           k == Len(t.log)
           Fine(x, m) == /\ Reversible(x) /\ SameBounds(x.lp, t.lp)
                         /\ Len(x.log) = k + m
                         /\ \A i \in (k + 1)..(k + m) : SameBounds(x.log[i].before, t.lp)
           Good == {T \in SUBSET D : Fine(At0(T), Cardinality(T))}
<1>1. IsFiniteSet(D) /\ D \subseteq Int /\ Cardinality(D) = n
  BY FS_Interval
<1>2. k \in Nat /\ IsLog(t.log)
  BY DEF Reversible, IsLog
<1> HIDE DEF k, D, kind
<1>3. ASSUME NEW T \in SUBSET D, \A U \in SUBSET T : U # T => U \in Good
      PROVE  T \in Good
  <2>1. IsFiniteSet(T) /\ T \subseteq Int
    BY <1>1, FS_Subset
  <2>2. CASE T = {}
    <3>1. Cardinality(T) = 0 /\ At0(T) = t
      BY <2>2, LoopStart, FS_EmptySet
    <3>2. Fine(t, 0)
      BY <1>2 DEF SameBounds, k
    <3> HIDE DEF Fine, At0
    <3> QED BY <3>1, <3>2
  <2>3. CASE T # {}
    <3> DEFINE m == Max(T)
               V == T \ {m}
               x == At0(V)
               c == Cardinality(V)
    <3>1. m \in T /\ At0(T) = MarkRowRedundant(x, rows[m])
      <4>1. m \in T /\ At0(T) = Turn(kind, 0, x, rows[m])
        <5>1. Positions(T)
          BY <2>1 DEF Positions
        <5>2. m \in T /\ IsLast(m, T) /\ AreOthers(V, T, m)
          BY <2>3, <5>1, LastPosition
        <5> HIDE DEF m, V
        <5> QED BY <5>1, <5>2, LoopTurn
      <4> HIDE DEF m, x, At0
      <4> QED BY <4>1 DEF Turn, kind
    <3>2. V \in Good
      BY <1>3, <3>1
    <3>3. c \in Nat /\ Cardinality(T) = c + 1
      <4>1. IsFiniteSet(V) /\ c = Cardinality(T) - 1 /\ Cardinality(T) \in Nat
        BY <2>1, <3>1, FS_RemoveElement, FS_CardinalityType
      <4>2. c \in Nat
        BY <4>1, FS_CardinalityType
      <4> QED BY <4>1, <4>2
    <3>4. Fine(x, c)
      BY <3>2
    <3> HIDE DEF x, c, m
    <3> DEFINE y == MarkRowRedundant(x, rows[m])
               e == [rec |-> RedundantRecord(rows[m]), before |-> x.lp]
    <3>5. Reversible(y) /\ SameBounds(y.lp, x.lp) /\ y.log = Append(x.log, e)
      BY <3>4, MarkRowReversible
    <3>6. SameBounds(y.lp, t.lp)
      BY <3>4, <3>5 DEF SameBounds
    <3>7. /\ Len(y.log) = Len(x.log) + 1
          /\ \A i \in 1..Len(x.log) : y.log[i] = x.log[i]
          /\ y.log[Len(x.log) + 1] = e
      <4>1. IsLog(x.log)
        BY <3>4 DEF Reversible
      <4> HIDE DEF e, y
      <4> QED BY <3>5, <4>1, AppendToLog
    <3>8. ASSUME NEW i \in (k + 1)..(k + c + 1)
          PROVE  SameBounds(y.log[i].before, t.lp)
      <4>1. CASE i = k + c + 1
        <5>1. y.log[i] = e
          BY <3>4, <3>7, <4>1
        <5>2. e.before = x.lp
          OBVIOUS
        <5> HIDE DEF e, y
        <5> QED BY <3>4, <5>1, <5>2
      <4>2. CASE i # k + c + 1
        <5>1. i \in (k + 1)..(k + c) /\ i \in 1..Len(x.log)
          BY <1>2, <3>3, <3>4, <4>2
        <5> HIDE DEF y
        <5> QED BY <3>4, <3>7, <5>1
      <4> QED BY <4>1, <4>2
    <3> HIDE DEF y
    <3>9. Fine(y, c + 1)
      BY <1>2, <3>3, <3>4, <3>5, <3>6, <3>7, <3>8
    <3>10. At0(T) = y
      BY <3>1 DEF y
    <3> HIDE DEF Fine, At0
    <3> QED BY <3>3, <3>9, <3>10
  <2> QED BY <2>2, <2>3
<1>4. D \in Good
  <2> HIDE DEF Good
  <2> QED BY <1>1, <1>3, SubsetInduction
<1>5. MarkRowsRedundant(t, rows) = At0(D)
  BY LoopOverRows DEF D, kind
<1>6. Fine(MarkRowsRedundant(t, rows), n)
  BY <1>1, <1>4, <1>5
<1> QED BY <1>6 DEF k

(* removeFixedCols: the bounds of the columns that are left do not change,  *)
(* so that every column in turn is still fixed.                             *)
LEMMA RemoveFixedColsReversible ==
  ASSUME NEW t, Reversible(t)
  PROVE  Reversible(RemoveFixedCols(t))
<1> DEFINE F == FixedCols(t.lp)
           seq == Ascending(F)
           D == 1..Cardinality(F)
           kind == "columns"
           At0(T) == After(kind, 0, t, seq, T)
           Fine(x) == Reversible(x) /\ x.lp.lb = t.lp.lb /\ x.lp.ub = t.lp.ub
           Good == {T \in SUBSET D : Fine(At0(T))}
<1>1. F \subseteq Cols /\ \A c \in F : t.lp.lb[c] = t.lp.ub[c] /\ t.lp.lb[c] \in Int
  <2>1. WellFormed(t.lp)
    BY DEF Reversible
  <2> QED BY <2>1, WellFormedFacts DEF FixedCols, Limits
<1>2. IsFiniteSet(F) /\ F \subseteq Int
  BY <1>1, FiniteProgram
<1> HIDE DEF F
<1>3. seq \in [D -> F]
  BY <1>2, AscendingOrder DEF IsAscending
<1>4. IsFiniteSet(D) /\ D \subseteq Int
  <2>1. Cardinality(F) \in Nat
    BY <1>2, FS_CardinalityType
  <2> QED BY <2>1, FS_Interval
<1> HIDE DEF D, seq, kind
<1>5. ASSUME NEW T \in SUBSET D, \A U \in SUBSET T : U # T => U \in Good
      PROVE  T \in Good
  <2>1. IsFiniteSet(T) /\ T \subseteq Int
    BY <1>4, FS_Subset
  <2>2. CASE T = {}
    <3>1. At0(T) = t
      BY <2>2, LoopStart
    <3> HIDE DEF At0
    <3> QED BY <3>1
  <2>3. CASE T # {}
    <3> DEFINE m == Max(T)
               V == T \ {m}
               x == At0(V)
    <3>1. m \in T /\ At0(T) = RemoveFixedCol(x, seq[m])
      <4>1. m \in T /\ At0(T) = Turn(kind, 0, x, seq[m])
        <5>1. Positions(T)
          BY <2>1 DEF Positions
        <5>2. m \in T /\ IsLast(m, T) /\ AreOthers(V, T, m)
          BY <2>3, <5>1, LastPosition
        <5> HIDE DEF m, V
        <5> QED BY <5>1, <5>2, LoopTurn
      <4> HIDE DEF m, x, At0
      <4> QED BY <4>1 DEF Turn, kind
    <3>2. V \in Good
      BY <1>5, <3>1
    <3>3. Fine(x)
      BY <3>2
    <3> HIDE DEF x, m
    <3>4. seq[m] \in F
      BY <1>3, <3>1
    <3>5. seq[m] \in Cols /\ x.lp.lb[seq[m]] = x.lp.ub[seq[m]] /\ x.lp.lb[seq[m]] \in Int
      BY <1>1, <3>3, <3>4
    <3>6. Fine(RemoveFixedCol(x, seq[m]))
      BY <3>3, <3>5, RemoveFixedColReversible
    <3> HIDE DEF Fine, At0
    <3> QED BY <3>1, <3>6
  <2> QED BY <2>2, <2>3
<1>6. D \in Good
  <2> HIDE DEF Good
  <2> QED BY <1>4, <1>5, SubsetInduction
<1>7. RemoveFixedCols(t) = At0(D)
  <2>1. DOMAIN seq = D
    BY <1>3
  <2> QED BY <2>1, LoopOverColumns DEF F, seq, kind
<1> QED BY <1>6, <1>7

-----------------------------------------------------------------------------
(* Reductions keep the storage reversible                                   *)

(* The quotients of the code are numbers, as they divide by coefficients    *)
(* that are not 0.                                                          *)
LEMMA ExactInt ==
  ASSUME NEW n \in Int, NEW d \in Int, d # 0
  PROVE  Exact(n, d) \in Int
BY DEF Exact

(* A column of a row has a coefficient there, and its bounds are numbers or *)
(* missing.                                                                 *)
LEMMA ColumnOfRow ==
  ASSUME NEW lp, WellFormed(lp), NEW r \in Rows, NEW c \in RowCols(lp, r)
  PROVE  /\ c \in lp.cols /\ c \in Cols /\ lp.a[r][c] \in Int /\ lp.a[r][c] # 0
         /\ lp.lb[c] \in Limits /\ lp.ub[c] \in Limits /\ lp.lhs[r] \in Limits /\ lp.rhs[r] \in Limits
         /\ lp.obj[c] \in Int
BY WellFormedFacts DEF RowCols

(* An activity is a number or missing.                                      *)
LEMMA ActivityType ==
  ASSUME NEW lp, WellFormed(lp), NEW r \in Rows, NEW c, NEW smallest
  PROVE  Activity(lp, r, c, smallest) \in Limits
<1> DEFINE others == RowCols(lp, r) \ {c}
           terms == [d \in others |-> lp.a[r][d] * Reached(lp, r, d, smallest)]
<1>1. CASE \E d \in others : Reached(lp, r, d, smallest) = NoBound
  BY <1>1 DEF Activity, Limits
<1>2. CASE ~\E d \in others : Reached(lp, r, d, smallest) = NoBound
  <2>1. \A d \in others : terms[d] \in Int
    <3> SUFFICES ASSUME NEW d \in others PROVE terms[d] \in Int
      OBVIOUS
    <3>1. Reached(lp, r, d, smallest) \in Int /\ lp.a[r][d] \in Int
      BY <1>2, ColumnOfRow DEF Reached, Limits
    <3> DEFINE v == Reached(lp, r, d, smallest)
               a == lp.a[r][d]
    <3>2. terms[d] = a * v
      OBVIOUS
    <3> HIDE DEF v, a, terms
    <3> QED BY <3>1, <3>2 DEF v, a
  <2>2. IsFiniteSet(others)
    <3>1. others \in SUBSET Cols
      BY ColumnOfRow
    <3> QED BY <3>1, FiniteProgram
  <2>3. Activity(lp, r, c, smallest) = SumFunctionOnSet(terms, others)
    BY <1>2 DEF Activity
  <2> HIDE DEF terms, others
  <2> QED BY <2>1, <2>2, <2>3, SumInt DEF Limits
<1> QED BY <1>1, <1>2

(* ... and so is the bound a row implies.                                   *)
LEMMA ImpliedBoundType ==
  ASSUME NEW lp, WellFormed(lp), NEW r \in Rows, NEW c \in RowCols(lp, r), NEW isLower
  PROVE  ImpliedBound(lp, r, c, isLower) \in Limits
<1> DEFINE a == lp.a[r][c]
           fromLhs == (a > 0) <=> isLower
           side == IF fromLhs THEN lp.lhs[r] ELSE lp.rhs[r]
           rest == Activity(lp, r, c, ~fromLhs)
<1>1. a \in Int /\ a # 0 /\ side \in Limits /\ rest \in Limits
  BY ColumnOfRow, ActivityType
<1>2. ImpliedBound(lp, r, c, isLower) = IF side = NoBound \/ rest = NoBound THEN NoBound ELSE Exact(side - rest, a)
  BY DEF ImpliedBound
<1> HIDE DEF a, fromLhs, side, rest
<1>3. CASE side = NoBound \/ rest = NoBound
  BY <1>2, <1>3 DEF Limits
<1>4. CASE ~(side = NoBound \/ rest = NoBound)
  <2>1. side - rest \in Int
    BY <1>1, <1>4 DEF Limits
  <2> QED BY <1>1, <1>2, <1>4, <2>1, ExactInt DEF Limits
<1> QED BY <1>3, <1>4

(* One bound from one side of a singleton row                               *)
LEMMA BoundFromSideReversible ==
  ASSUME NEW t, Reversible(t), NEW r \in Rows, RowCols(t.lp, r) # {}, NEW isLhs \in BOOLEAN
  PROVE  /\ Reversible(BoundFromSide(t, r, isLhs))
         /\ RowCols(BoundFromSide(t, r, isLhs).lp, r) = RowCols(t.lp, r)
<1> DEFINE c == CHOOSE d \in RowCols(t.lp, r) : TRUE
           side == IF isLhs THEN t.lp.lhs[r] ELSE t.lp.rhs[r]
           a == t.lp.a[r][c]
           low == isLhs <=> a > 0
           v == Exact(side, a)
           new == Tighten(SaveRow(t, r), low, c, v)
<1>1. c \in RowCols(t.lp, r) /\ WellFormed(t.lp)
  BY DEF Reversible
<1>2. BoundFromSide(t, r, isLhs) = IF side = NoBound THEN t ELSE new
  BY DEF BoundFromSide
<1> HIDE DEF c
<1>3. c \in Cols /\ low \in BOOLEAN /\ a \in Int /\ a # 0 /\ side \in Limits
  BY <1>1, ColumnOfRow
<1> HIDE DEF side, low, a
<1>4. CASE side = NoBound
  BY <1>2, <1>4
<1>5. CASE side # NoBound
  <2>1. v \in Limits
    BY <1>3, <1>5, ExactInt DEF Limits
  <2> HIDE DEF v
  <2>2. Reversible(SaveRow(t, r)) /\ SaveRow(t, r).lp = t.lp
    BY SaveRowReversible
  <2>3. Reversible(new) /\ new.lp.cols = t.lp.cols /\ new.lp.a = t.lp.a
    BY <1>3, <2>1, <2>2, TightenReversible
  <2> HIDE DEF new
  <2> QED BY <1>2, <1>5, <2>3 DEF RowCols
<1> QED BY <1>4, <1>5

(* removeSingletonRow                                                       *)
LEMMA SingletonRowReversible ==
  ASSUME NEW t, Reversible(t), NEW r \in Rows, RowCols(t.lp, r) # {}
  PROVE  Reversible(RemoveSingletonRow(t, r))
<1> DEFINE c == CHOOSE d \in RowCols(t.lp, r) : TRUE
           v == Exact(t.lp.rhs[r], t.lp.a[r][c])
           fixed == FixCol(SaveRow(t, r), c, v)
           tight == BoundFromSide(BoundFromSide(t, r, TRUE), r, FALSE)
           bounded == IF Equation(t.lp, r) THEN fixed ELSE tight
<1>1. RemoveSingletonRow(t, r) = RemoveFixedCols(MarkRowRedundant(bounded, r))
  BY DEF RemoveSingletonRow
<1>2. c \in RowCols(t.lp, r) /\ WellFormed(t.lp)
  BY DEF Reversible
<1> HIDE DEF c
<1>3. ASSUME Equation(t.lp, r)
      PROVE  Reversible(fixed)
  <2>1. c \in Cols /\ t.lp.a[r][c] \in Int /\ t.lp.a[r][c] # 0 /\ t.lp.rhs[r] \in Int
    BY <1>2, <1>3, ColumnOfRow DEF Equation, Limits
  <2>2. v \in Limits
    BY <2>1, ExactInt DEF Limits
  <2> HIDE DEF v
  <2> QED BY <2>1, <2>2, SaveRowReversible, FixColReversible
<1> HIDE DEF v
<1>4. Reversible(tight)
  <2> DEFINE first == BoundFromSide(t, r, TRUE)
  <2>1. Reversible(first) /\ RowCols(first.lp, r) # {}
    BY BoundFromSideReversible
  <2> HIDE DEF first
  <2>2. Reversible(BoundFromSide(first, r, FALSE))
    BY <2>1, BoundFromSideReversible
  <2> QED BY <2>2 DEF first
<1> HIDE DEF fixed, tight
<1>5. Reversible(bounded)
  BY <1>3, <1>4
<1> HIDE DEF bounded
<1>6. Reversible(MarkRowRedundant(bounded, r))
  BY <1>5, MarkRowReversible
<1> QED BY <1>1, <1>6, RemoveFixedColsReversible

(* A redundant row or side is dropped.                                      *)
LEMMA DropSidesReversible ==
  ASSUME NEW t, Reversible(t), NEW r
  PROVE  Reversible(DropSides(t, r))
<1>1. NoBound \in Limits
  BY DEF Limits
<1> QED BY <1>1, MarkRowReversible, ChangeSideReversible DEF DropSides

(* The value given to an empty column is a number its bounds allow.         *)
LEMMA EmptyColumnValueFits ==
  ASSUME NEW lp, WellFormed(lp), ~Crossed(lp), NEW c \in lp.cols, EmptyColumnValue(lp, c) # NoBound
  PROVE  LET v == EmptyColumnValue(lp, c)
         IN v \in Int /\ (lp.lb[c] # NoBound => lp.lb[c] <= v) /\ (lp.ub[c] # NoBound => v <= lp.ub[c])
<1>1. lp.lb[c] \in Limits /\ lp.ub[c] \in Limits /\ lp.obj[c] \in Int
  BY WellFormedFacts
<1>2. lp.lb[c] # NoBound /\ lp.ub[c] # NoBound => lp.lb[c] <= lp.ub[c]
  BY <1>1 DEF Crossed, Limits
<1> QED BY <1>1, <1>2 DEF EmptyColumnValue, Above, Below, Limits

(* removeEmptyColumns                                                       *)
LEMMA EmptyColumnReversible ==
  ASSUME NEW t, Reversible(t), ~Crossed(t.lp), NEW c \in t.lp.cols, EmptyColumnValue(t.lp, c) # NoBound
  PROVE  Reversible(RemoveEmptyColumn(t, c))
<1> DEFINE v == EmptyColumnValue(t.lp, c)
           fixed == FixCol(t, c, v)
<1>1. WellFormed(t.lp) /\ c \in Cols
  BY WellFormedFacts DEF Reversible
<1>2. v \in Int /\ (t.lp.lb[c] # NoBound => t.lp.lb[c] <= v) /\ (t.lp.ub[c] # NoBound => v <= t.lp.ub[c])
  BY <1>1, EmptyColumnValueFits
<1>3. RemoveEmptyColumn(t, c) = RemoveFixedCol(fixed, c)
  BY DEF RemoveEmptyColumn
<1> HIDE DEF v
<1>4. Reversible(fixed) /\ fixed.lp.lb[c] = v /\ fixed.lp.ub[c] = v
  BY <1>1, <1>2, FixColReversible, FixColWithin DEF Limits
<1> HIDE DEF fixed
<1> QED BY <1>1, <1>2, <1>3, <1>4, RemoveFixedColReversible

(* Dual fixing to a bound                                                   *)
LEMMA DualFixReversible ==
  ASSUME NEW t, Reversible(t), NEW c \in t.lp.cols, NEW below
  PROVE  Reversible(DualFix(t, c, below))
<1> DEFINE v == IF below THEN t.lp.lb[c] ELSE t.lp.ub[c]
<1>1. c \in Cols /\ v \in Limits
  BY WellFormedFacts DEF Reversible
<1>2. DualFix(t, c, below) = RemoveFixedCols(FixCol(t, c, v))
  BY DEF DualFix
<1> HIDE DEF v
<1>3. Reversible(FixCol(t, c, v))
  BY <1>1, FixColReversible
<1> QED BY <1>2, <1>3, RemoveFixedColsReversible

(* A bound that keeps its distance is a number.                             *)
LEMMA WeakenedInt ==
  ASSUME NEW v \in Int, NEW isLower
  PROVE  Weakened(v, isLower) \in Int
<1>1. LargerOf(Unit, AbsOf(v)) \in Int /\ BoundOffset \in Int
  BY ScaleAssumption DEF LargerOf, AbsOf
<1> DEFINE offset == BoundOffset * LargerOf(Unit, AbsOf(v))
<1>2. offset \in Int
  BY <1>1
<1>3. Weakened(v, isLower) = IF isLower THEN v - offset ELSE v + offset
  BY DEF Weakened
<1> HIDE DEF offset
<1> QED BY <1>2, <1>3

(* Constraint propagation                                                   *)
LEMMA PropagateReversible ==
  ASSUME NEW t, Reversible(t), NEW r \in Rows, NEW c \in RowCols(t.lp, r), NEW isLower \in BOOLEAN, NEW keepBasis
  PROVE  Reversible(Propagate(t, r, c, isLower, keepBasis))
<1> DEFINE v == ImpliedBound(t.lp, r, c, isLower)
           w == Weakened(v, isLower)
           saved == SaveRow(t, r)
           new == Propagate(t, r, c, isLower, keepBasis)
<1>1. c \in Cols /\ v \in Limits
  BY ColumnOfRow, ImpliedBoundType DEF Reversible
<1>2. \/ new = t
      \/ v # NoBound /\ new = RemoveFixedCols(FixCol(saved, c, v))
      \/ v # NoBound /\ new = Tighten(saved, isLower, c, v)
      \/ v # NoBound /\ new = Tighten(saved, isLower, c, w)
  BY DEF Propagate
<1>3. Reversible(saved)
  BY SaveRowReversible
<1> HIDE DEF v, saved, new
<1>4. v # NoBound => w \in Limits
  BY <1>1, WeakenedInt DEF Limits
<1> HIDE DEF w
<1>5. ASSUME v # NoBound
      PROVE  Reversible(RemoveFixedCols(FixCol(saved, c, v)))
  <2>1. Reversible(FixCol(saved, c, v))
    BY <1>1, <1>3, FixColReversible
  <2> QED BY <2>1, RemoveFixedColsReversible
<1>6. v # NoBound => Reversible(Tighten(saved, isLower, c, v)) /\ Reversible(Tighten(saved, isLower, c, w))
  BY <1>1, <1>3, <1>4, TightenReversible
<1>7. Reversible(new)
  BY <1>2, <1>5, <1>6
<1> QED BY <1>7 DEF new

(* A column fixed to infinity: the records of its rows are right before its *)
(* own, which holds the bound it has, and it has only one.                  *)
LEMMA FixInfinityReversible ==
  ASSUME NEW t, Reversible(t), NEW c \in t.lp.cols, NEW below \in BOOLEAN,
         BoundOf(t.lp, c, below) = NoBound
  PROVE  Reversible(DualFixInfinity(t, c, below))
<1> DEFINE rows == Ascending(ColRows(t.lp, c))
           n == Cardinality(ColRows(t.lp, c))
           gone == MarkRowsRedundant(t, rows)
           rec == FixedInfRecord(t.lp, c, ~below, rows)
           after == [gone.lp EXCEPT !.cols = @ \ {c}]
<1>1. DualFixInfinity(t, c, below) = Stored(gone, rec, after)
  BY DEF DualFixInfinity
<1>2. c \in Cols /\ ColRows(t.lp, c) \in SUBSET Rows
  BY WellFormedFacts DEF Reversible, ColRows
<1>3. n \in Nat /\ DOMAIN rows = 1..n
  <2>1. IsFiniteSet(ColRows(t.lp, c)) /\ ColRows(t.lp, c) \subseteq Int
    BY <1>2, FiniteProgram
  <2>2. IsAscending(rows, ColRows(t.lp, c)) /\ n \in Nat
    BY <2>1, AscendingOrder, FS_CardinalityType
  <2> QED BY <2>2 DEF IsAscending
<1>4. /\ rec.type = "fixedInf" /\ Len(rec.rows) = n
      /\ \A low \in BOOLEAN : Held(rec, low) = {c} /\ HeldBound(rec, c, low) = BoundOf(t.lp, c, low)
  <2>1. rec.rows = [i \in DOMAIN rows |-> RowPart(t.lp, rows[i])]
    BY DEF FixedInfRecord
  <2>2. Len(rec.rows) = n
    <3> HIDE DEF rows, n, rec
    <3> QED BY <1>3, <2>1
  <2>3. rec.type = "fixedInf" /\ rec.col = c /\ rec.up = ~below
        /\ rec.bound = IF ~below THEN t.lp.lb[c] ELSE t.lp.ub[c]
    BY DEF FixedInfRecord
  <2> HIDE DEF rec
  <2>4. \A low \in BOOLEAN : Held(rec, low) = {c}
    BY <2>3 DEF Held
  <2>5. \A low \in BOOLEAN : HeldBound(rec, c, low) = IF (~below) = low THEN rec.bound ELSE NoBound
    BY <2>3 DEF HeldBound
  <2>6. \A low \in BOOLEAN : HeldBound(rec, c, low) = BoundOf(t.lp, c, low)
    BY <2>3, <2>5 DEF BoundOf
  <2> QED BY <2>2, <2>3, <2>4, <2>6
<1> HIDE DEF rows, n, rec
<1>5. /\ Reversible(gone) /\ SameBounds(gone.lp, t.lp) /\ Len(gone.log) = Len(t.log) + n
      /\ \A i \in (Len(t.log) + 1)..(Len(t.log) + n) : SameBounds(gone.log[i].before, t.lp)
  BY <1>3, MarkRowsReversible
<1>6. Len(t.log) \in Nat
  BY DEF Reversible, IsLog
<1> HIDE DEF gone
<1>7. /\ WellFormed(gone.lp) /\ WellFormed(after)
      /\ after.cols = gone.lp.cols \ {c} /\ after.lb = gone.lp.lb /\ after.ub = gone.lp.ub
  <2>1. WellFormed(gone.lp)
    BY <1>5 DEF Reversible
  <2> QED BY <2>1, OneLeaves, WellFormedFacts
<1> HIDE DEF after
<1>8. Restores(rec, gone.lp, after)
  <2> SUFFICES ASSUME NEW d \in gone.lp.cols, NEW low \in BOOLEAN
               PROVE  IF d \in Held(rec, low)
                      THEN HeldBound(rec, d, low) = BoundOf(gone.lp, d, low)
                      ELSE d \in after.cols /\ BoundOf(after, d, low) = BoundOf(gone.lp, d, low)
    BY DEF Restores
  <2>1. CASE d = c
    BY <1>2, <1>4, <1>5, <2>1 DEF SameBounds
  <2>2. CASE d # c
    BY <1>4, <1>7, <2>2 DEF BoundOf
  <2> QED BY <2>1, <2>2
<1>9. n \in 0..Len(gone.log) /\ (n # 0 => SameBounds(gone.log[Len(gone.log) + 1 - n].before, gone.lp))
  <2>1. n \in 0..Len(gone.log)
    BY <1>3, <1>5, <1>6
  <2>2. ASSUME n # 0
        PROVE  SameBounds(gone.log[Len(gone.log) + 1 - n].before, gone.lp)
    <3>1. Len(gone.log) + 1 - n = Len(t.log) + 1 /\ Len(t.log) + 1 \in (Len(t.log) + 1)..(Len(t.log) + n)
      BY <1>3, <1>5, <1>6, <2>2
    <3>2. SameBounds(gone.log[Len(t.log) + 1].before, t.lp)
      BY <1>5, <3>1
    <3>3. SameBounds(gone.log[Len(t.log) + 1].before, gone.lp)
      BY <1>5, <3>2 DEF SameBounds
    <3> QED BY <3>1, <3>3
  <2> QED BY <2>1, <2>2
<1>10. Reversible(Stored(gone, rec, after))
  BY <1>4, <1>5, <1>7, <1>8, <1>9, StoredReversible
<1> QED BY <1>1, <1>10

(* The column leaves the program and its bounds go to the record.           *)
LEMMA SubstituteInObjectiveReversible ==
  ASSUME NEW t, Reversible(t), NEW r \in Rows, NEW c \in RowCols(t.lp, r)
  PROVE  /\ Reversible(SubstituteInObjective(t, c, r))
         /\ SubstituteInObjective(t, c, r).lp.rhs = t.lp.rhs
<1> DEFINE rec == SubstitutedRecord(t.lp, c, r)
           obj == ObjectiveWithout(t.lp, c, r)
           after == [t.lp EXCEPT !.cols = @ \ {c}, !.obj = obj]
<1>1. SubstituteInObjective(t, c, r) = Stored(t, rec, after) /\ SubstituteInObjective(t, c, r).lp = after
  BY DEF SubstituteInObjective, Stored
<1>2. /\ rec.type = "substituted"
      /\ \A low \in BOOLEAN : Held(rec, low) = {c} /\ HeldBound(rec, c, low) = BoundOf(t.lp, c, low)
  BY DEF SubstitutedRecord, Held, HeldBound, BoundOf
<1>3. obj \in [Cols -> Int]
  <2> SUFFICES ASSUME NEW d \in Cols PROVE obj[d] \in Int
    BY DEF ObjectiveWithout
  <2> DEFINE by == Exact(t.lp.obj[c], t.lp.a[r][c])
             a == t.lp.a[r][d]
             old == t.lp.obj[d]
  <2>1. by \in Int
    BY ColumnOfRow, ExactInt DEF Reversible
  <2>2. a \in Int /\ old \in Int
    BY WellFormedFacts DEF Reversible
  <2>3. obj[d] \in {0, old - a * by, old}
    BY DEF ObjectiveWithout
  <2> HIDE DEF obj, by, a, old
  <2>4. old - a * by \in Int
    BY <2>1, <2>2
  <2> QED BY <2>2, <2>3, <2>4
<1> HIDE DEF rec, obj
<1>4. /\ WellFormed(after)
      /\ after.cols = t.lp.cols \ {c} /\ after.lb = t.lp.lb /\ after.ub = t.lp.ub /\ after.rhs = t.lp.rhs
  <2>1. WellFormed(t.lp)
    BY DEF Reversible
  <2>2. /\ after.a = t.lp.a /\ after.cols = t.lp.cols \ {c} /\ after.lb = t.lp.lb /\ after.ub = t.lp.ub
        /\ after.rhs = t.lp.rhs
    BY <2>1, WellFormedFacts
  <2>3. after \in LinearPrograms
    BY <1>3, <2>1, WellFormedFacts DEF WellFormed, LinearPrograms, Limits
  <2> QED BY <2>1, <2>2, <2>3 DEF WellFormed
<1> HIDE DEF after
<1>5. Restores(rec, t.lp, after)
  BY <1>2, <1>4 DEF Restores, BoundOf
<1>6. rec.type # "fixedInf"
  BY <1>2
<1> QED BY <1>1, <1>4, <1>5, <1>6, StoredReversible

(* The equation of the others becomes an inequality.                        *)
LEMMA ToInequalityReversible ==
  ASSUME NEW t, Reversible(t), NEW r, NEW lhs \in Limits, NEW rhs \in Limits
  PROVE  Reversible(ToInequality(t, r, lhs, rhs))
<1> DEFINE Open(x) == IF lhs = NoBound THEN ChangeSide(x, TRUE, r, NoBound)
                      ELSE IF rhs = NoBound THEN ChangeSide(x, FALSE, r, NoBound) ELSE x
           Lhs(x) == IF lhs = NoBound THEN x ELSE ChangeSideFrom(x, TRUE, r, lhs)
           Rhs(x) == IF rhs = NoBound THEN x ELSE ChangeSideFrom(x, FALSE, r, rhs)
           rec == CoefficientRecord(r)
           open == Open(Stored(t, rec, t.lp))
<1>1. ToInequality(t, r, lhs, rhs) =
        IF lhs # NoBound /\ lhs > t.lp.rhs[r] THEN Lhs(Rhs(open)) ELSE Rhs(Lhs(open))
  BY DEF ToInequality
<1>2. \A x : Reversible(x) => Reversible(Open(x)) /\ Reversible(Lhs(x)) /\ Reversible(Rhs(x))
  <2>1. NoBound \in Limits
    BY DEF Limits
  <2> QED BY <2>1, ChangeSideReversible DEF ChangeSideFrom
<1>3. Reversible(Stored(t, rec, t.lp))
  <2>1. WellFormed(t.lp) /\ SameBounds(t.lp, t.lp) /\ Neutral(rec)
    BY DEF Reversible, SameBounds, Neutral, CoefficientRecord
  <2> HIDE DEF rec
  <2> QED BY <2>1, NeutralStored
<1> HIDE DEF Open, Lhs, Rhs
<1>4. Reversible(open)
  BY <1>2, <1>3
<1> HIDE DEF open
<1>5. Reversible(Lhs(Rhs(open))) /\ Reversible(Rhs(Lhs(open)))
  BY <1>2, <1>4
<1> QED BY <1>1, <1>5

(* The room that is left is bounded by a number where the bound of the      *)
(* column is not implied: then there is one.                                *)
LEMMA RoomType ==
  ASSUME NEW lp, WellFormed(lp), NEW r \in Rows, NEW c \in RowCols(lp, r), lp.rhs[r] \in Int,
         NEW ofLhs \in BOOLEAN
  PROVE  RoomOf(lp, c, r, ofLhs, RowImplies(lp, r, c, (lp.a[r][c] < 0) <=> ofLhs)) \in Limits
<1> DEFINE low == (lp.a[r][c] < 0) <=> ofLhs
           implied == RowImplies(lp, r, c, low)
           bound == IF low THEN lp.lb[c] ELSE lp.ub[c]
           a == lp.a[r][c]
<1>1. bound \in Limits /\ a \in Int
  BY ColumnOfRow
<1>2. RoomOf(lp, c, r, ofLhs, implied) = IF implied THEN NoBound ELSE lp.rhs[r] - bound * a
  BY DEF RoomOf
<1>3. ~implied => bound # NoBound
  BY DEF RowImplies
<1> HIDE DEF implied, bound, a
<1>4. ~implied => lp.rhs[r] - bound * a \in Int
  BY <1>1, <1>3 DEF Limits
<1> HIDE DEF low
<1>5. RoomOf(lp, c, r, ofLhs, implied) \in Limits
  BY <1>2, <1>4 DEF Limits
<1> QED BY <1>5 DEF implied, low

(* A column singleton is substituted.                                       *)
LEMMA SubstituteSingletonReversible ==
  ASSUME NEW t, Reversible(t), NEW r \in Rows, NEW c \in RowCols(t.lp, r), Equation(t.lp, r)
  PROVE  Reversible(SubstituteSingleton(t, c, r))
<1> DEFINE without == SubstituteInObjective(t, c, r)
           negative == t.lp.a[r][c] < 0
           lhs == RoomOf(t.lp, c, r, TRUE, RowImplies(t.lp, r, c, negative <=> TRUE))
           rhs == RoomOf(t.lp, c, r, FALSE, RowImplies(t.lp, r, c, negative <=> FALSE))
<1>1. WellFormed(t.lp) /\ t.lp.a[r][c] \in Int /\ t.lp.a[r][c] # 0 /\ t.lp.rhs[r] \in Int
  BY ColumnOfRow DEF Reversible, Equation, Limits
<1>2. \/ SubstituteSingleton(t, c, r) = MarkRowRedundant(without, r)
      \/ SubstituteSingleton(t, c, r) = ToInequality(without, r, lhs, rhs)
  <2>1. t.lp.a[r][c] > 0 <=> ~negative
    BY <1>1
  <2>2. CASE negative
    BY <2>1, <2>2 DEF SubstituteSingleton
  <2>3. CASE ~negative
    BY <2>1, <2>3 DEF SubstituteSingleton
  <2> QED BY <2>2, <2>3
<1>3. Reversible(without)
  BY SubstituteInObjectiveReversible
<1>4. lhs \in Limits /\ rhs \in Limits
  BY <1>1, RoomType
<1> HIDE DEF without, lhs, rhs
<1> QED BY <1>2, <1>3, <1>4, MarkRowReversible, ToInequalityReversible

(* ... after its inequality was made an equation                            *)
LEMMA ToEquationReversible ==
  ASSUME NEW t, Reversible(t), NEW r \in t.lp.rows, NEW c \in t.lp.cols
  PROVE  Reversible(ToEquation(t, c, r))
<1> DEFINE up == DualBoundGoesUp(t.lp, c, r)
           side == IF up THEN t.lp.lhs[r] ELSE t.lp.rhs[r]
           equation == ChangeSide(t, ~up, r, side)
<1>1. \/ ToEquation(t, c, r) = equation
      \/ SingletonSubstitutable(equation.lp, c, r) /\ ToEquation(t, c, r) = SubstituteSingleton(equation, c, r)
  BY DEF ToEquation
<1>2. r \in Rows /\ side \in Limits
  BY WellFormedFacts DEF Reversible
<1> HIDE DEF up, side
<1>3. Reversible(equation) /\ c \in equation.lp.cols
  <2>1. Reversible(equation) /\ SameBounds(equation.lp, t.lp)
    BY <1>2, ChangeSideReversible
  <2> QED BY <2>1 DEF SameBounds
<1> HIDE DEF equation
<1>4. ASSUME SingletonSubstitutable(equation.lp, c, r)
      PROVE  Reversible(SubstituteSingleton(equation, c, r))
  <2>1. c \in RowCols(equation.lp, r) /\ Equation(equation.lp, r)
    BY <1>3, <1>4 DEF SingletonSubstitutable, RowCols, ColRows
  <2> QED BY <1>2, <1>3, <2>1, SubstituteSingletonReversible
<1> QED BY <1>1, <1>3, <1>4

(* The factor between two parallel rows is a number.                        *)
LEMMA RatioInt ==
  ASSUME NEW lp, WellFormed(lp), NEW kept \in Rows, NEW r \in Rows, ParallelRows(lp, kept, r)
  PROVE  Ratio(lp, kept, r) \in Int
<1> DEFINE c == CHOOSE d \in RowCols(lp, r) : TRUE
<1>1. RowCols(lp, r) # {}
  BY FS_EmptySet DEF ParallelRows
<1>2. c \in RowCols(lp, r) /\ c \in RowCols(lp, kept)
  BY <1>1 DEF ParallelRows
<1>3. Ratio(lp, kept, r) = Exact(lp.a[kept][c], lp.a[r][c])
  BY DEF Ratio
<1> HIDE DEF c
<1>4. lp.a[kept][c] \in Int /\ lp.a[r][c] \in Int /\ lp.a[r][c] # 0
  BY <1>2, ColumnOfRow
<1> QED BY <1>3, <1>4, ExactInt

(* ... and so are the sides of the one, as sides of the other.              *)
LEMMA ScaledSideType ==
  ASSUME NEW lp, WellFormed(lp), NEW kept \in Rows, NEW r \in Rows, ParallelRows(lp, kept, r), NEW isLhs
  PROVE  ScaledSide(lp, kept, r, isLhs) \in Limits
<1> DEFINE ratio == Ratio(lp, kept, r)
           side == IF (ratio > 0) <=> isLhs THEN lp.lhs[r] ELSE lp.rhs[r]
<1>1. ratio \in Int /\ side \in Limits
  BY RatioInt, WellFormedFacts
<1>2. ScaledSide(lp, kept, r, isLhs) = IF side = NoBound THEN NoBound ELSE ratio * side
  BY DEF ScaledSide
<1> HIDE DEF ratio, side
<1>3. side # NoBound => ratio * side \in Int
  BY <1>1 DEF Limits
<1> QED BY <1>2, <1>3 DEF Limits

(* The remaining parallel row takes a side of the deleted one.              *)
LEMMA TakeSideReversible ==
  ASSUME NEW t, Reversible(t), NEW kept \in Rows, NEW r \in Rows, ParallelRows(t.lp, kept, r), NEW isLhs
  PROVE  /\ Reversible(TakeSide(t, kept, r, isLhs))
         /\ TakeSide(t, kept, r, isLhs).lp.cols = t.lp.cols /\ TakeSide(t, kept, r, isLhs).lp.a = t.lp.a
<1> DEFINE v == ScaledSide(t.lp, kept, r, isLhs)
           rec == ReasonRecord(kept, r, Ratio(t.lp, kept, r))
           reason == Stored(t, rec, t.lp)
           side == ForcedSideRecord(isLhs, kept)
           after == IF isLhs THEN [t.lp EXCEPT !.lhs[kept] = v] ELSE [t.lp EXCEPT !.rhs[kept] = v]
<1>1. TakeSide(t, kept, r, isLhs) = t \/ TakeSide(t, kept, r, isLhs) = Stored(reason, side, after)
  BY DEF TakeSide
<1>2. WellFormed(t.lp) /\ SameBounds(t.lp, t.lp) /\ Neutral(rec) /\ Neutral(side)
  BY DEF Reversible, SameBounds, Neutral, ReasonRecord, ForcedSideRecord
<1>3. reason.lp = t.lp /\ Stored(reason, side, after).lp = after
  BY DEF Stored
<1>4. v \in Limits
  BY <1>2, ScaledSideType
<1> HIDE DEF rec, side, v
<1>5. Reversible(reason)
  BY <1>2, NeutralStored
<1>6. /\ WellFormed(after)
      /\ after.cols = t.lp.cols /\ after.lb = t.lp.lb /\ after.ub = t.lp.ub /\ after.a = t.lp.a
  <2>1. CASE isLhs
    BY <1>2, <1>4, <2>1, SideChanged, WellFormedFacts
  <2>2. CASE ~isLhs
    BY <1>2, <1>4, <2>2, SideChanged, WellFormedFacts
  <2> QED BY <2>1, <2>2
<1> HIDE DEF reason, after
<1>7. SameBounds(after, reason.lp)
  BY <1>3, <1>6 DEF SameBounds, BoundOf
<1>8. Reversible(Stored(reason, side, after))
  BY <1>2, <1>5, <1>6, <1>7, NeutralStored
<1> QED BY <1>1, <1>3, <1>6, <1>8

(* Rows are parallel by their coefficients only.                            *)
LEMMA StillParallel ==
  ASSUME NEW lp, NEW new, new.cols = lp.cols, new.a = lp.a, NEW kept, NEW r
  PROVE  /\ ParallelRows(new, kept, r) <=> ParallelRows(lp, kept, r)
         /\ Ratio(new, kept, r) = Ratio(lp, kept, r)
<1>1. RowCols(new, r) = RowCols(lp, r) /\ RowCols(new, kept) = RowCols(lp, kept)
  BY DEF RowCols
<1>2. Ratio(new, kept, r) = Ratio(lp, kept, r)
  BY <1>1 DEF Ratio
<1> QED BY <1>1, <1>2 DEF ParallelRows

(* A parallel row is deleted.                                               *)
LEMMA ParallelRowReversible ==
  ASSUME NEW t, Reversible(t), NEW kept \in Rows, NEW r \in Rows, ParallelRows(t.lp, kept, r)
  PROVE  Reversible(RemoveParallelRow(t, kept, r))
<1> DEFINE one == TakeSide(t, kept, r, TRUE)
           both == TakeSide(one, kept, r, FALSE)
<1>1. \A isLhs : LET s == TakeSide(t, kept, r, isLhs)
                 IN Reversible(s) /\ s.lp.cols = t.lp.cols /\ s.lp.a = t.lp.a
  BY TakeSideReversible
<1>2. Reversible(one) /\ ParallelRows(one.lp, kept, r)
  BY <1>1, StillParallel
<1> HIDE DEF one
<1>3. Reversible(both)
  <2>1. \A isLhs : Reversible(TakeSide(one, kept, r, isLhs))
    BY <1>2, TakeSideReversible
  <2> QED BY <2>1
<1>4. RemoveParallelRow(t, kept, r) = MarkRowRedundant(both, r)
  BY DEF RemoveParallelRow, one
<1> HIDE DEF both
<1> QED BY <1>3, <1>4, MarkRowReversible

(* The bound of the merged column is a number or missing.                   *)
LEMMA MergedBoundType ==
  ASSUME NEW lp, WellFormed(lp), NEW c1 \in Cols, NEW c2 \in Cols, NEW scale \in Int, NEW isLower
  PROVE  MergedBound(lp, c1, c2, scale, isLower) \in Limits
<1> DEFINE own == IF isLower THEN lp.lb[c2] ELSE lp.ub[c2]
           other == IF (scale > 0) <=> isLower THEN lp.lb[c1] ELSE lp.ub[c1]
<1>1. own \in Limits /\ other \in Limits
  BY WellFormedFacts
<1>2. MergedBound(lp, c1, c2, scale, isLower) =
        IF own = NoBound \/ other = NoBound THEN NoBound ELSE own + scale * other
  BY DEF MergedBound
<1> HIDE DEF own, other
<1>3. own # NoBound /\ other # NoBound => own + scale * other \in Int
  BY <1>1 DEF Limits
<1> QED BY <1>2, <1>3 DEF Limits

(* The factor between two parallel columns is a number.                     *)
LEMMA ScaleInt ==
  ASSUME NEW lp, WellFormed(lp), NEW c1 \in Cols, NEW c2 \in Cols, ParallelCols(lp, c1, c2)
  PROVE  LET r == CHOOSE q \in ColRows(lp, c1) : TRUE
         IN r \in ColRows(lp, c1) /\ Exact(lp.a[r][c1], lp.a[r][c2]) \in Int
<1> DEFINE r == CHOOSE q \in ColRows(lp, c1) : TRUE
<1>1. r \in ColRows(lp, c1) /\ r \in ColRows(lp, c2)
  BY DEF ParallelCols
<1> HIDE DEF r
<1>2. lp.a[r][c1] \in Int /\ lp.a[r][c2] \in Int /\ lp.a[r][c2] # 0
  BY <1>1, WellFormedFacts DEF ColRows
<1>3. r \in ColRows(lp, c1) /\ Exact(lp.a[r][c1], lp.a[r][c2]) \in Int
  BY <1>1, <1>2, ExactInt
<1> QED BY <1>3 DEF r

(* Two parallel columns become one: the record holds the bounds of both.    *)
LEMMA MergeReversible ==
  ASSUME NEW t, Reversible(t), NEW c1 \in t.lp.cols, NEW c2 \in t.lp.cols, ParallelCols(t.lp, c1, c2)
  PROVE  Reversible(MergeParallelCols(t, c1, c2))
<1> DEFINE r == CHOOSE q \in ColRows(t.lp, c1) : TRUE
           scale == Exact(t.lp.a[r][c1], t.lp.a[r][c2])
           rec == ParallelRecord(t.lp, c1, c2, scale)
           low == MergedBound(t.lp, c1, c2, scale, TRUE)
           high == MergedBound(t.lp, c1, c2, scale, FALSE)
           after == [t.lp EXCEPT !.cols = @ \ {c1}, !.lb[c2] = low, !.ub[c2] = high]
<1>1. MergeParallelCols(t, c1, c2) = Stored(t, rec, after)
  BY DEF MergeParallelCols
<1>2. WellFormed(t.lp) /\ c1 \in Cols /\ c2 \in Cols /\ c1 # c2 /\ t.lp.cols \subseteq Cols
  BY WellFormedFacts DEF Reversible, ParallelCols
<1>3. scale \in Int
  BY <1>2, ScaleInt
<1> HIDE DEF r, scale
<1>4. low \in Limits /\ high \in Limits
  BY <1>2, <1>3, MergedBoundType
<1>5. /\ rec.type = "parallelCol"
      /\ \A isLower \in BOOLEAN : /\ Held(rec, isLower) = {c1, c2}
                                  /\ HeldBound(rec, c1, isLower) = BoundOf(t.lp, c1, isLower)
                                  /\ HeldBound(rec, c2, isLower) = BoundOf(t.lp, c2, isLower)
  BY <1>2 DEF ParallelRecord, Held, HeldBound, BoundOf
<1> HIDE DEF rec, low, high
<1>6. /\ after.a = t.lp.a /\ after.cols = t.lp.cols \ {c1}
      /\ \A d \in Cols \ {c2} : after.lb[d] = t.lp.lb[d] /\ after.ub[d] = t.lp.ub[d]
  BY <1>2, WellFormedFacts
<1>7. WellFormed(after)
  <2>1. after \in LinearPrograms
    BY <1>2, <1>4, WellFormedFacts DEF WellFormed, LinearPrograms, Limits
  <2> QED BY <1>2, <1>6, <2>1 DEF WellFormed
<1> HIDE DEF after
<1>8. Restores(rec, t.lp, after)
  BY <1>2, <1>5, <1>6 DEF Restores, BoundOf
<1>9. rec.type # "fixedInf"
  BY <1>5
<1>10. Reversible(Stored(t, rec, after))
  BY <1>7, <1>8, <1>9, StoredReversible
<1> QED BY <1>1, <1>10

(* The last record of presolve holds the bounds of every column left.       *)
LEMMA ReducedBoundsReversible ==
  ASSUME NEW t, Reversible(t)
  PROVE  Reversible(StoreReducedBounds(t))
<1> DEFINE rec == ReducedRecord(t.lp)
<1>1. /\ rec.type = "reducedBounds"
      /\ \A c, low : Held(rec, low) = t.lp.cols /\ HeldBound(rec, c, low) = BoundOf(t.lp, c, low)
  BY DEF ReducedRecord, Held, HeldBound, BoundOf
<1>2. StoreReducedBounds(t) = Stored(t, rec, t.lp)
  BY DEF StoreReducedBounds
<1> HIDE DEF rec
<1>3. Restores(rec, t.lp, t.lp)
  BY <1>1 DEF Restores
<1>4. rec.type # "fixedInf" /\ WellFormed(t.lp)
  BY <1>1 DEF Reversible
<1> QED BY <1>2, <1>3, <1>4, StoredReversible

-----------------------------------------------------------------------------
(* Undoing a record writes back what it holds                               *)

BringsBack(w, new, rec) ==
  /\ HasStored(new)
  /\ \A c \in Cols, isLower \in BOOLEAN :
       BoundOf(new.stored, c, isLower) =
         IF c \in Held(rec, isLower) THEN HeldBound(rec, c, isLower) ELSE BoundOf(w.stored, c, isLower)

(* Nothing is written back.                                                 *)
LEMMA StoredUntouched ==
  ASSUME NEW w, HasStored(w), NEW new, DOMAIN new = DOMAIN w, new.stored = w.stored,
         NEW rec, \A isLower \in BOOLEAN : Held(rec, isLower) = {}
  PROVE  BringsBack(w, new, rec)
BY DEF BringsBack, HasStored

(* storeBounds: both bounds of one column                                   *)
LEMMA StoreBoundsOfOne ==
  ASSUME NEW w, HasStored(w), NEW c, NEW lower, NEW upper,
         NEW new, DOMAIN new = DOMAIN w, new.stored = StoreBounds(w.stored, c, lower, upper),
         NEW rec, \A isLower \in BOOLEAN : Held(rec, isLower) = {c},
         \A isLower \in BOOLEAN : HeldBound(rec, c, isLower) = IF isLower THEN lower ELSE upper
  PROVE  BringsBack(w, new, rec)
<1>1. /\ DOMAIN new.stored = {"lb", "ub"}
      /\ DOMAIN new.stored.lb = Cols /\ DOMAIN new.stored.ub = Cols
      /\ \A d \in Cols : /\ new.stored.lb[d] = IF d = c THEN lower ELSE w.stored.lb[d]
                         /\ new.stored.ub[d] = IF d = c THEN upper ELSE w.stored.ub[d]
  BY DEF StoreBounds, HasStored
<1>2. HasStored(new)
  BY <1>1 DEF HasStored
<1>3. ASSUME NEW d \in Cols, NEW isLower \in BOOLEAN
      PROVE  BoundOf(new.stored, d, isLower) =
               IF d \in Held(rec, isLower) THEN HeldBound(rec, d, isLower) ELSE BoundOf(w.stored, d, isLower)
  BY <1>1 DEF BoundOf
<1> QED BY <1>2, <1>3 DEF BringsBack

KeepsStored(x, y) == DOMAIN y = DOMAIN x /\ y.stored = x.stored

(* Statuses and prices change, the bounds do not.                           *)
LEMMA StatusesKeepStored ==
  ASSUME NEW x, HasStored(x), NEW rec, NEW log, NEW i, NEW c, NEW saved
  PROVE  KeepsStored(x, LoosenStatus(x, rec, log, i)) /\ KeepsStored(x, PriceToRow(x, c, saved))
<1>1. \A e : KeepsStored(x, [x EXCEPT !.s = e]) /\ KeepsStored(x, [x EXCEPT !.broken = e])
  BY DEF HasStored, KeepsStored
<1>2. KeepsStored(x, x)
  BY DEF KeepsStored
<1>3. KeepsStored(x, PriceToRow(x, c, saved))
  <2>1. \E e : PriceToRow(x, c, saved) = [x EXCEPT !.s = e]
    BY DEF PriceToRow
  <2> QED BY <1>1, <2>1
<1>4. KeepsStored(x, LoosenStatus(x, rec, log, i))
  <2> DEFINE d == rec.col
             row == SavedRow(log, i)
             other == [x EXCEPT !.s.varBasis[d] = IF rec.isLower THEN "onUpper" ELSE "onLower"]
             zero == [x EXCEPT !.s.varBasis[d] = "zero"]
             enters == EnterForRow(x, d, row)
             lost == [x EXCEPT !.broken = TRUE]
             new == LoosenStatus(x, rec, log, i)
  <2>1. new = x \/ new = other \/ new = zero \/ new = enters \/ new = lost
    BY DEF LoosenStatus
  <2>2. KeepsStored(x, other) /\ KeepsStored(x, zero) /\ KeepsStored(x, lost)
    BY DEF HasStored, KeepsStored
  <2>3. KeepsStored(x, enters)
    BY DEF HasStored, KeepsStored, EnterForRow
  <2> HIDE DEF other, zero, enters, lost, new
  <2>4. KeepsStored(x, new)
    BY <1>2, <2>1, <2>2, <2>3
  <2> QED BY <2>4 DEF new
<1> QED BY <1>3, <1>4

(* A changed bound gets its old value back.                                 *)
LEMMA UndoBoundBringsBack ==
  ASSUME NEW w, HasStored(w), NEW rec, rec.type = "varBoundChange", NEW log, NEW i
  PROVE  BringsBack(w, UndoVarBoundChange(w, rec, log, i), rec)
<1> DEFINE c == rec.col
           loosened == IF rec.isLower THEN [w EXCEPT !.stored.lb[c] = rec.old]
                                      ELSE [w EXCEPT !.stored.ub[c] = rec.old]
           new == UndoVarBoundChange(w, rec, log, i)
<1>1. /\ HasStored(loosened) /\ DOMAIN loosened = DOMAIN w
      /\ \A d \in Cols : /\ loosened.stored.lb[d] = IF rec.isLower /\ d = c THEN rec.old ELSE w.stored.lb[d]
                         /\ loosened.stored.ub[d] = IF ~rec.isLower /\ d = c THEN rec.old ELSE w.stored.ub[d]
  BY DEF HasStored
<1>2. \/ new = LoosenStatus(loosened, rec, log, i)
      \/ new = LoosenStatus(PriceToRow(loosened, c, SavedRow(log, i)), rec, log, i)
      \/ new = [loosened EXCEPT !.broken = TRUE]
  BY DEF UndoVarBoundChange
<1> HIDE DEF loosened, new
<1>3. KeepsStored(loosened, new)
  <2>1. KeepsStored(loosened, LoosenStatus(loosened, rec, log, i))
    BY <1>1, StatusesKeepStored
  <2>2. KeepsStored(loosened, LoosenStatus(PriceToRow(loosened, c, SavedRow(log, i)), rec, log, i))
    <3> DEFINE priced == PriceToRow(loosened, c, SavedRow(log, i))
    <3>1. KeepsStored(loosened, priced)
      BY <1>1, StatusesKeepStored
    <3> HIDE DEF priced
    <3>2. HasStored(priced)
      BY <1>1, <3>1 DEF KeepsStored, HasStored
    <3>3. KeepsStored(priced, LoosenStatus(priced, rec, log, i))
      BY <3>2, StatusesKeepStored
    <3> QED BY <3>1, <3>3 DEF KeepsStored, priced
  <2>3. KeepsStored(loosened, [loosened EXCEPT !.broken = TRUE])
    BY <1>1 DEF KeepsStored, HasStored
  <2> QED BY <1>2, <2>1, <2>2, <2>3
<1>4. HasStored(new) /\ new.stored = loosened.stored
  BY <1>1, <1>3 DEF KeepsStored, HasStored
<1>5. \A d \in Cols, isLower \in BOOLEAN :
        BoundOf(new.stored, d, isLower) =
          IF d \in Held(rec, isLower) THEN HeldBound(rec, d, isLower) ELSE BoundOf(w.stored, d, isLower)
  <2>1. \A d, isLower : HeldBound(rec, d, isLower) = rec.old
    BY DEF HeldBound
  <2>2. \A isLower : Held(rec, isLower) = IF rec.isLower <=> isLower THEN {c} ELSE {}
    BY DEF Held
  <2> QED BY <1>1, <1>4, <2>1, <2>2 DEF BoundOf
<1> QED BY <1>4, <1>5 DEF BringsBack, new

(* ... and so does every other record.                                      *)
LEMMA UndoBringsBack ==
  ASSUME NEW w, HasStored(w), NEW log, NEW i
  PROVE  BringsBack(w, UndoRecord(w, log, i), log[i].rec)
<1> DEFINE rec == log[i].rec
           new == UndoRecord(w, log, i)
<1>1. CASE rec.type = "fixedCol"
  <2>1. new = UndoFixedCol(w, rec)
    BY <1>1 DEF UndoRecord
  <2> HIDE DEF rec, new
  <2>2. DOMAIN new = DOMAIN w /\ new.stored = StoreBounds(w.stored, rec.col, rec.val, rec.val)
    BY <2>1 DEF UndoFixedCol, HasStored
  <2>3. \A isLower \in BOOLEAN : Held(rec, isLower) = {rec.col} /\ HeldBound(rec, rec.col, isLower) = rec.val
    BY <1>1 DEF Held, HeldBound
  <2>4. BringsBack(w, new, rec)
    BY <2>2, <2>3, StoreBoundsOfOne
  <2> QED BY <2>4 DEF rec, new
<1>2. CASE rec.type = "fixedInf"
  <2>1. new = UndoFixedInf(w, rec)
    BY <1>2 DEF UndoRecord
  <2> HIDE DEF rec, new
  <2> DEFINE lower == IF rec.up THEN rec.bound ELSE NoBound
             upper == IF rec.up THEN NoBound ELSE rec.bound
  <2>2. DOMAIN new = DOMAIN w /\ new.stored = StoreBounds(w.stored, rec.col, lower, upper)
    BY <2>1 DEF UndoFixedInf, HasStored
  <2>3. \A isLower \in BOOLEAN : /\ Held(rec, isLower) = {rec.col}
                                 /\ HeldBound(rec, rec.col, isLower) = IF isLower THEN lower ELSE upper
    BY <1>2 DEF Held, HeldBound
  <2> HIDE DEF lower, upper
  <2>4. BringsBack(w, new, rec)
    BY <2>2, <2>3, StoreBoundsOfOne
  <2> QED BY <2>4 DEF rec, new
<1>3. CASE rec.type = "varBoundChange"
  <2>1. new = UndoVarBoundChange(w, rec, log, i)
    BY <1>3 DEF UndoRecord
  <2> HIDE DEF rec, new
  <2>2. BringsBack(w, new, rec)
    BY <1>3, <2>1, UndoBoundBringsBack
  <2> QED BY <2>2 DEF rec, new
<1>4. CASE rec.type = "substituted"
  <2>1. new = UndoSubstituted(w, rec)
    BY <1>4 DEF UndoRecord
  <2> HIDE DEF rec, new
  <2>2. DOMAIN new = DOMAIN w /\ new.stored = StoreBounds(w.stored, rec.col, rec.lb, rec.ub)
    BY <2>1 DEF UndoSubstituted, HasStored
  <2>3. \A isLower \in BOOLEAN : /\ Held(rec, isLower) = {rec.col}
                                 /\ HeldBound(rec, rec.col, isLower) = IF isLower THEN rec.lb ELSE rec.ub
    BY <1>4 DEF Held, HeldBound
  <2>4. BringsBack(w, new, rec)
    BY <2>2, <2>3, StoreBoundsOfOne
  <2> QED BY <2>4 DEF rec, new
<1>5. CASE rec.type = "parallelCol"
  <2>1. new = UndoParallelCol(w, rec)
    BY <1>5 DEF UndoRecord
  <2> HIDE DEF rec, new
  <2> DEFINE one == StoreBounds(w.stored, rec.col1, rec.lb1, rec.ub1)
             both == StoreBounds(one, rec.col2, rec.lb2, rec.ub2)
  <2>2. DOMAIN new = DOMAIN w /\ new.stored = both
    BY <2>1 DEF UndoParallelCol, HasStored
  <2>3. /\ DOMAIN one = {"lb", "ub"} /\ DOMAIN one.lb = Cols /\ DOMAIN one.ub = Cols
        /\ \A d \in Cols : /\ one.lb[d] = IF d = rec.col1 THEN rec.lb1 ELSE w.stored.lb[d]
                           /\ one.ub[d] = IF d = rec.col1 THEN rec.ub1 ELSE w.stored.ub[d]
    BY DEF StoreBounds, HasStored
  <2> HIDE DEF one
  <2>4. /\ DOMAIN both = {"lb", "ub"} /\ DOMAIN both.lb = Cols /\ DOMAIN both.ub = Cols
        /\ \A d \in Cols : /\ both.lb[d] = IF d = rec.col2 THEN rec.lb2 ELSE one.lb[d]
                           /\ both.ub[d] = IF d = rec.col2 THEN rec.ub2 ELSE one.ub[d]
    BY <2>3 DEF StoreBounds
  <2> HIDE DEF both
  <2>5. \A d, isLower : /\ Held(rec, isLower) = {rec.col1, rec.col2}
                        /\ HeldBound(rec, d, isLower) =
                             IF d = rec.col2 THEN IF isLower THEN rec.lb2 ELSE rec.ub2
                                             ELSE IF isLower THEN rec.lb1 ELSE rec.ub1
    BY <1>5 DEF Held, HeldBound
  <2>6. HasStored(new)
    BY <2>2, <2>4 DEF HasStored
  <2>7. \A d \in Cols, isLower \in BOOLEAN :
          BoundOf(new.stored, d, isLower) =
            IF d \in Held(rec, isLower) THEN HeldBound(rec, d, isLower) ELSE BoundOf(w.stored, d, isLower)
    BY <2>2, <2>3, <2>4, <2>5 DEF BoundOf
  <2>8. BringsBack(w, new, rec)
    BY <2>6, <2>7 DEF BringsBack
  <2> QED BY <2>8 DEF rec, new
<1>6. CASE rec.type = "reducedBounds"
  <2>1. new = UndoReducedBounds(w, rec)
    BY <1>6 DEF UndoRecord
  <2> HIDE DEF rec, new
  <2>2. /\ DOMAIN new = DOMAIN w /\ DOMAIN new.stored = {"lb", "ub"}
        /\ DOMAIN new.stored.lb = Cols /\ DOMAIN new.stored.ub = Cols
        /\ \A d \in Cols : /\ new.stored.lb[d] = IF d \in rec.cols THEN rec.lb[d] ELSE w.stored.lb[d]
                           /\ new.stored.ub[d] = IF d \in rec.cols THEN rec.ub[d] ELSE w.stored.ub[d]
    BY <2>1 DEF UndoReducedBounds, HasStored
  <2>3. \A d, isLower : Held(rec, isLower) = rec.cols /\ HeldBound(rec, d, isLower) = BoundOf(rec, d, isLower)
    BY <1>6 DEF Held, HeldBound
  <2>4. HasStored(new)
    BY <2>2 DEF HasStored
  <2>5. \A d \in Cols, isLower \in BOOLEAN :
          BoundOf(new.stored, d, isLower) =
            IF d \in Held(rec, isLower) THEN HeldBound(rec, d, isLower) ELSE BoundOf(w.stored, d, isLower)
    BY <2>2, <2>3 DEF BoundOf
  <2>6. BringsBack(w, new, rec)
    BY <2>4, <2>5 DEF BringsBack
  <2> QED BY <2>6 DEF rec, new
<1>7. CASE rec.type \notin {"fixedCol", "fixedInf", "varBoundChange", "substituted", "parallelCol", "reducedBounds"}
  <2>1. \/ new = w
        \/ new = UndoForcedByRow(w, rec, log[i - 1].rec)
        \/ new = UndoRowBoundChange(w, rec)
        \/ new = UndoRedundantRow(w, rec)
    BY <1>7 DEF UndoRecord
  <2> DEFINE reason == log[i - 1].rec
  <2> HIDE DEF rec, new, reason
  <2>2. KeepsStored(w, UndoForcedByRow(w, rec, reason))
    BY DEF KeepsStored, HasStored, UndoForcedByRow
  <2>3. KeepsStored(w, UndoRowBoundChange(w, rec)) /\ KeepsStored(w, UndoRedundantRow(w, rec))
    BY DEF KeepsStored, HasStored, UndoRowBoundChange, UndoRedundantRow
  <2>4. KeepsStored(w, new)
    BY <2>1, <2>2, <2>3 DEF KeepsStored, reason
  <2>5. \A isLower \in BOOLEAN : Held(rec, isLower) = {}
    BY <1>7 DEF Held
  <2>6. BringsBack(w, new, rec)
    BY <2>4, <2>5, StoredUntouched DEF KeepsStored
  <2> QED BY <2>6 DEF rec, new
<1> QED BY <1>1, <1>2, <1>3, <1>4, <1>5, <1>6, <1>7
-----------------------------------------------------------------------------
(* The invariant                                                            *)

(* Presolve starts with an empty storage, from a program with bounds.       *)
LEMMA BoundsInvInit ==
  Init => BoundsInv
<1> SUFFICES ASSUME Init PROVE BoundsInv
  OBVIOUS
<1>1. PICK lp \in Problems : st = [lp |-> lp, log |-> <<>>]
  BY DEF Init
<1>2. WellFormed(lp)
  BY InstanceAssumption DEF WellFormed
<1>3. IsLog(<<>>)
  <2>1. Len(<<>>) = 0 /\ <<>> \in Seq({})
    BY EmptySeq
  <2>2. {<<>>[i] : i \in 1..0} = {}
    OBVIOUS
  <2> QED BY <2>1, <2>2 DEF IsLog
<1>4. Reversible(st)
  <2>1. st.lp = lp /\ st.log = <<>> /\ Len(<<>>) = 0
    BY <1>1, EmptySeq
  <2>2. BeganWith(st, lp)
    BY <2>1 DEF BeganWith
  <2> QED BY <1>1, <1>2, <1>3, <2>1, <2>2 DEF Reversible
<1>5. HasStored(u)
  BY DEF Init, Nothing, HasStored
<1> QED BY <1>4, <1>5 DEF Init, BoundsInv

(* What is left of a reduction: its result, or the end of presolve.         *)
LEMMA ReduceKeeps ==
  ASSUME BoundsInv, NEW after, Reversible(after), Reduce(after)
  PROVE  /\ Reversible(st') /\ phase = "presolve" /\ phase' \in {"presolve", "infeasible"}
         /\ phase' = "presolve" => ~Crossed(st'.lp)
         /\ u' = u
BY DEF Reduce, BoundsInv

(* A reduction keeps the storage reversible, whichever presolver made it.   *)
LEMMA ReductionReversible ==
  ASSUME BoundsInv,
         \/ SingletonRow \/ RedundantSides \/ EmptyColumn \/ FixToBound \/ FixToInfinity \/ TightenByRow
         \/ SubstituteColumn \/ MakeEquation \/ DeleteParallelRow \/ MergeColumns
  PROVE  /\ Reversible(st') /\ phase = "presolve" /\ phase' \in {"presolve", "infeasible"}
         /\ phase' = "presolve" => ~Crossed(st'.lp)
         /\ u' = u
<1>1. Reversible(st) /\ st.lp.rows \subseteq Rows /\ WellFormed(st.lp)
  BY WellFormedFacts DEF BoundsInv, Reversible
<1>2. CASE SingletonRow
  <2>1. PICK r \in st.lp.rows : Cardinality(RowCols(st.lp, r)) = 1 /\ Reduce(RemoveSingletonRow(st, r))
    BY <1>2 DEF SingletonRow
  <2>2. RowCols(st.lp, r) # {} /\ r \in Rows
    BY <1>1, <2>1, FS_EmptySet
  <2> QED BY <1>1, <2>1, <2>2, SingletonRowReversible, ReduceKeeps
<1>3. CASE RedundantSides
  BY <1>1, <1>3, DropSidesReversible, ReduceKeeps DEF RedundantSides
<1>4. CASE EmptyColumn
  <2>1. PICK c \in st.lp.cols : EmptyColumnValue(st.lp, c) # NoBound /\ Reduce(RemoveEmptyColumn(st, c))
    BY <1>4 DEF EmptyColumn
  <2>2. ~Crossed(st.lp)
    BY <2>1 DEF Reduce, BoundsInv
  <2> QED BY <1>1, <2>1, <2>2, EmptyColumnReversible, ReduceKeeps
<1>5. CASE FixToBound
  BY <1>1, <1>5, DualFixReversible, ReduceKeeps DEF FixToBound
<1>6. CASE FixToInfinity
  BY <1>1, <1>6, FixInfinityReversible, ReduceKeeps DEF FixToInfinity, BoundOf
<1>7. CASE TightenByRow
  <2>1. PICK r \in st.lp.rows : \E c \in RowCols(st.lp, r), isLower \in BOOLEAN :
          Reduce(Propagate(st, r, c, isLower, calculateBasis))
    BY <1>7 DEF TightenByRow
  <2>2. PICK c \in RowCols(st.lp, r), isLower \in BOOLEAN : Reduce(Propagate(st, r, c, isLower, calculateBasis))
    BY <2>1
  <2> QED BY <1>1, <2>2, PropagateReversible, ReduceKeeps
<1>8. CASE SubstituteColumn
  <2>1. PICK c \in st.lp.cols, r \in st.lp.rows :
          SingletonSubstitutable(st.lp, c, r) /\ Reduce(SubstituteSingleton(st, c, r))
    BY <1>8 DEF SubstituteColumn
  <2>2. c \in RowCols(st.lp, r) /\ Equation(st.lp, r)
    BY <2>1 DEF SingletonSubstitutable, RowCols, ColRows
  <2> QED BY <1>1, <2>1, <2>2, SubstituteSingletonReversible, ReduceKeeps
<1>9. CASE MakeEquation
  BY <1>1, <1>9, ToEquationReversible, ReduceKeeps DEF MakeEquation
<1>10. CASE DeleteParallelRow
  BY <1>1, <1>10, ParallelRowReversible, ReduceKeeps DEF DeleteParallelRow
<1>11. CASE MergeColumns
  BY <1>1, <1>11, MergeReversible, ReduceKeeps DEF MergeColumns
<1> QED BY <1>2, <1>3, <1>4, <1>5, <1>6, <1>7, <1>8, <1>9, <1>10, <1>11

(* The end of presolve stores the bounds of every column that is left.      *)
LEMMA FinishKeepsBoundsInv ==
  ASSUME BoundsInv, FinishPresolve
  PROVE  BoundsInv'
<1> DEFINE e == [rec |-> ReducedRecord(st.lp), before |-> st.lp]
           k == Len(st.log)
<1>1. Reversible(st) /\ HasStored(u) /\ IsLog(st.log) /\ k \in Nat
  BY DEF BoundsInv, Reversible, IsLog
<1>2. Reversible(st')
  BY <1>1, ReducedBoundsReversible DEF FinishPresolve
<1>3. st'.lp = st.lp /\ st'.log = Append(st.log, e)
  BY DEF FinishPresolve, StoreReducedBounds, Stored
<1>4. Len(st'.log) = k + 1 /\ st'.log[k + 1] = e
  <2> HIDE DEF e
  <2> QED BY <1>1, <1>3, AppendToLog
<1>5. phase' = "solve" /\ u' = u
  BY DEF FinishPresolve
<1>6. /\ Len(st'.log) > 0
      /\ st'.log[Len(st'.log)].rec = ReducedRecord(st'.lp)
      /\ st'.log[Len(st'.log)].before = st'.lp
  <2>1. e.rec = ReducedRecord(st.lp) /\ e.before = st.lp
    OBVIOUS
  <2> HIDE DEF k, e
  <2> QED BY <1>1, <1>3, <1>4, <2>1
<1> QED BY <1>1, <1>2, <1>5, <1>6 DEF BoundsInv, HasStored

(* The solution replaces the one postsolve begins with, the bounds do not   *)
(* change.                                                                  *)
LEMMA SolveKeepsBoundsInv ==
  ASSUME BoundsInv, Solve
  PROVE  BoundsInv'
<1>1. \E e : u' = [u EXCEPT !.s = e]
  BY DEF Solve
<1>2. HasStored(u')
  BY <1>1 DEF BoundsInv, HasStored
<1>3. Len(st.log) \in Nat
  BY DEF BoundsInv, Reversible, IsLog
<1> QED BY <1>2, <1>3 DEF BoundsInv, Solve

(* A record that holds what was taken away brings the stored bounds back to *)
(* those of the program before it, if they were those of the program after. *)
LEMMA AgreeBefore ==
  ASSUME NEW w, NEW new, NEW rec, NEW before, NEW after,
         before.cols \subseteq Cols, Restores(rec, before, after), BringsBack(w, new, rec),
         \/ \A isLower \in BOOLEAN : before.cols \subseteq Held(rec, isLower)
         \/ Agree(w.stored, after)
  PROVE  Agree(new.stored, before)
<1> SUFFICES ASSUME NEW c \in before.cols, NEW isLower \in BOOLEAN
             PROVE  BoundOf(new.stored, c, isLower) = BoundOf(before, c, isLower)
  BY DEF Agree
<1>1. BoundOf(new.stored, c, isLower) =
        IF c \in Held(rec, isLower) THEN HeldBound(rec, c, isLower) ELSE BoundOf(w.stored, c, isLower)
  BY DEF BringsBack
<1>2. CASE c \in Held(rec, isLower)
  BY <1>1, <1>2 DEF Restores
<1>3. CASE c \notin Held(rec, isLower)
  <2>1. Agree(w.stored, after)
    BY <1>3
  <2>2. c \in after.cols /\ BoundOf(after, c, isLower) = BoundOf(before, c, isLower)
    BY <1>3 DEF Restores
  <2> QED BY <1>1, <1>3, <2>1, <2>2 DEF Agree
<1> QED BY <1>2, <1>3

(* Undoing records, one by one or with the rows of a column at infinity     *)
LEMMA UndoKeepsBoundsInv ==
  ASSUME BoundsInv, UndoNext
  PROVE  BoundsInv'
<1> DEFINE k == Len(st.log)
           rec == st.log[next].rec
           before == st.log[next].before
           n == Len(rec.rows)
<1>1. /\ Reversible(st) /\ HasStored(u)
      /\ k > 0 /\ st.log[k].rec = ReducedRecord(st.lp) /\ st.log[k].before = st.lp
      /\ next \in 1..k /\ k \in Nat
      /\ next < k => Agree(u.stored, st.log[next + 1].before)
  BY DEF BoundsInv, UndoNext, Reversible, IsLog
<1>2. Restores(rec, before, Later(st, next)) /\ RowsBefore(st.log, next)
  BY <1>1 DEF Reversible
<1>3. st' = st /\ phase = "undo" /\ phase' = "undo"
      /\ u' = UndoRecord(u, st.log, next) /\ next' = next - RecordsUndone(st.log, next)
  BY DEF UndoNext
<1>4. BringsBack(u, u', rec)
  BY <1>1, <1>3, UndoBringsBack
<1>5. before.cols \subseteq Cols
  BY <1>1, WellFormedFacts DEF Reversible
<1>6. Agree(u'.stored, before)
  <2>1. CASE next = k
    <3>1. \A isLower \in BOOLEAN : before.cols \subseteq Held(rec, isLower)
      BY <1>1, <2>1 DEF ReducedRecord, Held
    <3> HIDE DEF rec, before
    <3> QED BY <1>2, <1>4, <1>5, <3>1, AgreeBefore
  <2>2. CASE next < k
    <3>1. Agree(u.stored, Later(st, next))
      BY <1>1, <2>2 DEF Later
    <3> HIDE DEF rec, before
    <3> QED BY <1>2, <1>4, <1>5, <3>1, AgreeBefore
  <2> QED BY <1>1, <2>1, <2>2
<1>7. next' \in 0..k /\ (next' < k => Agree(u'.stored, st.log[next' + 1].before))
  <2>1. CASE rec.type = "fixedInf"
    <3>1. next' = next - (1 + n)
      BY <1>3, <2>1 DEF RecordsUndone
    <3>2. n \in Nat /\ n < next /\ SameBounds(st.log[next - n].before, before)
      BY <1>2, <2>1 DEF RowsBefore
    <3> DEFINE first == st.log[next - n].before
    <3>3. Agree(u'.stored, first)
      <4> HIDE DEF before, first
      <4>1. SameBounds(first, before)
        BY <3>2 DEF first
      <4>2. first.cols \subseteq Cols
        BY <1>5, <4>1 DEF SameBounds
      <4> QED BY <1>6, <4>1, <4>2 DEF Agree, SameBounds
    <3> HIDE DEF n, k
    <3>4. next' + 1 = next - n /\ next' \in 0..k
      BY <1>1, <3>1, <3>2
    <3> QED BY <3>3, <3>4
  <2>2. CASE rec.type # "fixedInf"
    <3>1. next' = next - 1
      BY <1>3, <2>2 DEF RecordsUndone
    <3> HIDE DEF k
    <3>2. next' + 1 = next /\ next' \in 0..k
      BY <1>1, <3>1
    <3> QED BY <1>6, <3>2
  <2> QED BY <2>1, <2>2
<1>8. HasStored(u')
  BY <1>4 DEF BringsBack
<1> QED BY <1>1, <1>3, <1>7, <1>8 DEF BoundsInv

(* Each step keeps the invariant.                                           *)
LEMMA BoundsInvStep ==
  BoundsInv /\ [Next]_vars => BoundsInv'
<1> SUFFICES ASSUME BoundsInv, [Next]_vars PROVE BoundsInv'
  OBVIOUS
<1>1. CASE \/ SingletonRow \/ RedundantSides \/ EmptyColumn \/ FixToBound \/ FixToInfinity \/ TightenByRow
           \/ SubstituteColumn \/ MakeEquation \/ DeleteParallelRow \/ MergeColumns
  <2>1. /\ Reversible(st') /\ phase' \in {"presolve", "infeasible"} /\ u' = u
        /\ phase' = "presolve" => ~Crossed(st'.lp)
    BY <1>1, ReductionReversible
  <2> QED BY <2>1 DEF BoundsInv
<1>2. CASE FinishPresolve
  BY <1>2, FinishKeepsBoundsInv
<1>3. CASE Solve
  BY <1>3, SolveKeepsBoundsInv
<1>4. CASE UndoNext
  BY <1>4, UndoKeepsBoundsInv
<1>5. CASE Finished
  BY <1>5 DEF Finished, BoundsInv
<1>6. CASE UNCHANGED vars
  BY <1>6 DEF vars, BoundsInv
<1> QED BY <1>1, <1>2, <1>3, <1>4, <1>5, <1>6 DEF Next

(* At all times the storage leads back to where presolve began, and on the  *)
(* way back the stored bounds are those of the program reached.             *)
THEOREM BoundsInvariant == Spec => []BoundsInv
<1> QED BY BoundsInvInit, BoundsInvStep, PTL DEF Spec

(* The bounds kept during postsolve (BoundStorage) are those of the program *)
(* before the record, whatever was reduced and however it was solved.       *)
THEOREM StoredBoundsStayExact == Spec => []StoredBoundsExact
<1>1. BoundsInv => StoredBoundsExact
  <2> SUFFICES ASSUME BoundsInv, AtProgram, NEW c \in Program.cols
               PROVE  u.stored.lb[c] = Program.lb[c] /\ u.stored.ub[c] = Program.ub[c]
    BY DEF StoredBoundsExact
  <2>1. Agree(u.stored, Program)
    BY DEF BoundsInv, AtProgram, Program
  <2>2. BoundOf(u.stored, c, TRUE) = BoundOf(Program, c, TRUE)
        /\ BoundOf(u.stored, c, FALSE) = BoundOf(Program, c, FALSE)
    BY <2>1 DEF Agree
  <2> QED BY <2>2 DEF BoundOf
<1> QED BY <1>1, BoundsInvariant, PTL

-----------------------------------------------------------------------------
(* What the conditions checked record by record add up to                   *)

StepsRight == TypeOK /\ StepFeasible /\ StepOptimal /\ StepBasis /\ SavedRowFound

Original == st.log[1].before

RightInTheEnd ==
  phase = "done" => /\ Original \in Problems
                    /\ PrimalFeasible(Original, u.s) /\ DualOptimal(Original, u.s) /\ ~BasisViolated(Original, u.s)

(* No point of the original problem has a smaller objective value.          *)
BestInTheEnd ==
  phase = "done" => /\ Satisfies(Original, u.s.primal)
                    /\ \A x : IsPoint(Original, x) /\ Satisfies(Original, x) =>
                             Objective(Original, u.s.primal) <= Objective(Original, x)

(* The problems and solutions of the runs are programs and solutions.       *)
LEMMA ProgramsAndSolutions ==
  ASSUME TypeOK, NEW lp \in Problems
  PROVE  IsProgram(lp) /\ IsSolution(lp, u.s)
<1>1. /\ lp.rows \subseteq Rows /\ lp.cols \subseteq Cols
      /\ lp.lb \in [Cols -> Int \cup {NoBound}] /\ lp.ub \in [Cols -> Int \cup {NoBound}] /\ lp.obj \in [Cols -> Int]
      /\ lp.lhs \in [Rows -> Int \cup {NoBound}] /\ lp.rhs \in [Rows -> Int \cup {NoBound}]
      /\ lp.a \in [Rows -> [Cols -> Int]]
  BY InstanceAssumption DEF LinearPrograms
<1> QED BY <1>1 DEF TypeOK, IsProgram, IsSolution, IsPoint

(* Before it is finished the first record has been undone, and it belongs   *)
(* to no substitution: nothing is stored before it.                         *)
LEMMA LastStepAtOriginal ==
  ASSUME BoundsInv, StepsRight, Finished
  PROVE  AtProgram /\ next = 0 /\ Program = Original /\ Original \in Problems
<1>1. phase = "undo" /\ next = 0
  BY DEF Finished, StepsRight, SavedRowFound
<1>2. IsLog(st.log) /\ Len(st.log) > 0
  BY <1>1 DEF BoundsInv, Reversible
<1>3. DOMAIN st.log = 1..Len(st.log)
  BY <1>2, LenProperties DEF IsLog
<1>4. TypeAt(st.log, 0) = "none"
  BY <1>3 DEF TypeAt
<1>5. ~BelongsToSubstitution(st.log, 1)
  BY <1>4 DEF BelongsToSubstitution
<1>6. AtProgram /\ Program = Original
  BY <1>1, <1>2, <1>5 DEF AtProgram, Program, Original
<1>7. Original \in Problems
  BY <1>2 DEF BoundsInv, Reversible, BeganWith, Original
<1> QED BY <1>1, <1>6, <1>7

(* If every record is undone rightly (what the run dual_round_trip checks), *)
(* the solution in the end passes verifySolution and is a best one of the   *)
(* original problem.                                                        *)
THEOREM RightStepsDeliver ==
  Spec /\ []StepsRight => [](Accepted /\ BestInTheEnd)
<1>1. Init => RightInTheEnd
  BY DEF Init, RightInTheEnd
<1>2. BoundsInv /\ StepsRight /\ RightInTheEnd /\ [Next]_vars => RightInTheEnd'
  <2> SUFFICES ASSUME BoundsInv, StepsRight, RightInTheEnd, [Next]_vars, phase' = "done"
               PROVE  RightInTheEnd'
    BY DEF RightInTheEnd
  <2>1. CASE Finished
    <3>1. AtProgram /\ Program = Original /\ Original \in Problems
      BY <2>1, LastStepAtOriginal
    <3>2. PrimalFeasible(Original, u.s) /\ DualOptimal(Original, u.s) /\ ~BasisViolated(Original, u.s)
      BY <3>1 DEF StepsRight, StepFeasible, StepOptimal, StepBasis
    <3>3. st' = st /\ u' = u
      BY <2>1 DEF Finished
    <3> QED BY <3>1, <3>2, <3>3 DEF RightInTheEnd, Original
  <2>2. CASE UNCHANGED vars
    BY <2>2 DEF vars, RightInTheEnd, Original
  <2>3. CASE \/ SingletonRow \/ RedundantSides \/ EmptyColumn \/ FixToBound \/ FixToInfinity \/ TightenByRow
             \/ SubstituteColumn \/ MakeEquation \/ DeleteParallelRow \/ MergeColumns
    BY <2>3, ReductionReversible
  <2>4. ~FinishPresolve /\ ~Solve /\ ~UndoNext
    BY DEF FinishPresolve, Solve, UndoNext
  <2> QED BY <2>1, <2>2, <2>3, <2>4 DEF Next
<1>3. RightInTheEnd /\ StepsRight => Accepted /\ BestInTheEnd
  <2> SUFFICES ASSUME RightInTheEnd, StepsRight, phase = "done"
               PROVE  Accepted /\ BestInTheEnd
    BY DEF Accepted, BestInTheEnd
  <2>1. IsProgram(Original) /\ IsSolution(Original, u.s)
    BY ProgramsAndSolutions DEF StepsRight, RightInTheEnd
  <2>2. PrimalFeasible(Original, u.s) /\ DualOptimal(Original, u.s) /\ ~BasisViolated(Original, u.s)
    BY DEF RightInTheEnd
  <2>3. Accepted
    BY <2>1, <2>2, OptimalSolutionsPass DEF Accepted, Original
  <2>4. BestInTheEnd
    BY <2>1, <2>2, PricesProveOptimality DEF BestInTheEnd
  <2> QED BY <2>3, <2>4
<1> QED BY <1>1, <1>2, <1>3, BoundsInvariant, PTL DEF Spec
=============================================================================
